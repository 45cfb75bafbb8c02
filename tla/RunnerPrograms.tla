---------------------------- MODULE RunnerPrograms ----------------------------
(***************************************************************************)
(* Lemmas about the programs of SessionOps: what steps they consist of, in *)
(* which order they come, what a program of the runner writes to the       *)
(* client, what it leaves the loop to see, and that whatever is left of a  *)
(* program has the same form.                                              *)
(***************************************************************************)
EXTENDS StreamRunner, SequenceTheorems, TLAPS

-----------------------------------------------------------------------------
(***************************************************************************)
(* Sequences of steps.                                                     *)
(***************************************************************************)
\* A finite sequence, whatever its elements are.
Prog(p) == p \in Seq({p[i] : i \in 1..Len(p)})

\* q is p without its first n steps.
Dropped(p, q, n) ==
  /\ Prog(q) /\ Len(q) = IF n <= Len(p) THEN Len(p) - n ELSE 0
  /\ \A i \in 1..Len(q) : q[i] = p[i + n]

\* What a sequence over any set is made of, it is a sequence of.
LEMMA SeqProg == ASSUME NEW S, NEW p \in Seq(S) PROVE Prog(p)
  <1>1. Len(p) \in Nat /\ DOMAIN p = 1..Len(p) /\ p \in [1..Len(p) -> S]
    BY LenProperties
  <1>2. p \in [1..Len(p) -> {p[i] : i \in 1..Len(p)}]
    BY <1>1
  <1> QED BY <1>1, <1>2, SeqDef DEF Prog

\* Advance leaves out the steps before m.
LEMMA SubSeqDropped ==
  ASSUME NEW p, Prog(p), NEW n \in Nat
  PROVE  Dropped(p, SubSeq(p, n + 1, Len(p)), n)
  <1> DEFINE S == {p[i] : i \in 1..Len(p)}
             q == SubSeq(p, n + 1, Len(p))
  <1>1. Len(p) \in Nat
    OBVIOUS
  <1>2. \A i \in (n + 1)..Len(p) : p[i] \in S
    BY <1>1
  <1> HIDE DEF S
  <1>3. /\ q \in Seq(S)
        /\ Len(q) = IF n + 1 <= Len(p) THEN Len(p) - (n + 1) + 1 ELSE 0
        /\ \A i \in 1..(Len(p) - (n + 1) + 1) : q[i] = p[(n + 1) + i - 1]
    BY <1>1, <1>2, SubSeqProperties
  <1> HIDE DEF q
  <1>4. Prog(q)
    BY <1>3, SeqProg
  <1>5. Len(q) = IF n <= Len(p) THEN Len(p) - n ELSE 0
    BY <1>1, <1>3
  <1>6. ASSUME NEW i \in 1..Len(q) PROVE q[i] = p[i + n]
    <2>1. i \in 1..(Len(p) - (n + 1) + 1) /\ (n + 1) + i - 1 = i + n
      BY <1>1, <1>5
    <2> QED BY <1>3, <2>1
  <1>7. Dropped(p, q, n)
    BY <1>4, <1>5, <1>6 DEF Dropped
  <1> QED BY <1>7 DEF q

\* So does Tail, for the first one.
LEMMA TailDropped ==
  ASSUME NEW p, Prog(p), p # <<>>
  PROVE  Dropped(p, Tail(p), 1)
  <1> DEFINE S == {p[i] : i \in 1..Len(p)}
  <1>1. p \in Seq(S) /\ Len(p) \in Nat \ {0}
    BY DEF Prog
  <1> HIDE DEF S
  <1>2. /\ Tail(p) \in Seq(S) /\ Len(Tail(p)) = Len(p) - 1
        /\ \A i \in 1..Len(Tail(p)) : Tail(p)[i] = p[i + 1]
    BY <1>1, HeadTailProperties
  <1>3. Prog(Tail(p))
    BY <1>2, SeqProg
  <1> QED BY <1>1, <1>2, <1>3 DEF Dropped

\* One program after another.
LEMMA Joined ==
  ASSUME NEW p, NEW q, Prog(p), Prog(q)
  PROVE  /\ Prog(p \o q) /\ Len(p \o q) = Len(p) + Len(q)
         /\ \A i \in 1..Len(p) : (p \o q)[i] = p[i]
         /\ \A i \in 1..Len(q) : (p \o q)[Len(p) + i] = q[i]
  <1> DEFINE S == {p[i] : i \in 1..Len(p)} \union {q[i] : i \in 1..Len(q)}
  <1>1. p \in Seq(S) /\ q \in Seq(S)
    BY SeqMonotonic DEF Prog
  <1> HIDE DEF S
  <1>2. /\ p \o q \in Seq(S) /\ Len(p \o q) = Len(p) + Len(q)
        /\ \A i \in 1..(Len(p) + Len(q)) :
             (p \o q)[i] = IF i <= Len(p) THEN p[i] ELSE q[i - Len(p)]
    BY <1>1, ConcatProperties
  <1>3. Prog(p \o q)
    BY <1>2, SeqProg
  <1>4. ASSUME NEW i \in 1..Len(q) PROVE (p \o q)[Len(p) + i] = q[i]
    <2>1. /\ Len(p) + i \in 1..(Len(p) + Len(q)) /\ ~(Len(p) + i <= Len(p))
          /\ Len(p) + i - Len(p) = i
      OBVIOUS
    <2> QED BY <1>2, <2>1
  <1> QED BY <1>2, <1>3, <1>4

-----------------------------------------------------------------------------
(***************************************************************************)
(* The form of a program: what its steps carry and in which order they     *)
(* come.                                                                   *)
(***************************************************************************)
Modes == {"ECHO", "MANUAL"}

Commands ==
  {Command(type) : type \in {"pause", "resume", "takeover", "return", "finish", "drop"}}
    \union {[type |-> "interval", ms |-> ms] : ms \in {0, 1}}
    \union {[type |-> "inject", how |-> how] : how \in FaultModes}

\* The reasons that say how the stream ended, and the other ones.
FinishReasons ==
  {"finish_normally", "max_tokens_reached", "static_response",
   "agent_cycle_complete", "subagent_echo_complete", "subagent_shell_emitted"}
FaultReasons == {"fault_injected", "resource_limit_exceeded"}
Telling ==
  FinishReasons \union FaultReasons \union {"client_disconnected", "connection_drop_behavior"}
Reasons == Telling \union {"", "stop", "drop_connection", "admin_delete"}

\* What a "set" step may assign: it never ends the session.
Fits(fields) ==
  /\ DOMAIN fields \subseteq
       {"state", "mode", "reason", "once", "done", "paused", "fault", "interval"}
  /\ "state" \in DOMAIN fields => fields.state \in States \ Ended
  /\ "mode" \in DOMAIN fields => fields.mode \in Modes
  /\ "reason" \in DOMAIN fields => fields.reason \in {"stop", "drop_connection"}
  /\ "once" \in DOMAIN fields => fields.once = "over"
  /\ "done" \in DOMAIN fields => fields.done \in BOOLEAN
  /\ "paused" \in DOMAIN fields => fields.paused \in BOOLEAN
  /\ "fault" \in DOMAIN fields => fields.fault \in FaultModes \union {"now"}
  /\ "interval" \in DOMAIN fields => fields.interval \in {0, 1}

Plain ==
  {"snapshot", "store", "drop_oldest", "manual", "delay", "delete_row", "shut", "cut"}

Fine(s) ==
  /\ s.op \in Plain \union {"set", "close", "send", "resend", "spawn", "frame"}
  /\ s.op = "set" => Fits(s.fields)
  /\ s.op = "close" => s.fields \in [state : Ended, reason : Reasons, ended : {TRUE}]
  /\ s.op \in {"send", "resend"} => s.cmd \in Commands
  /\ s.op = "spawn" => s.how \in FaultModes
  /\ s.op = "frame" =>
       /\ s.kind \in {"echo", "tool", "comment", "final", "done", "error", "malformed"}
       /\ s.skip = IF s.kind = "final" THEN 2 ELSE 0

\* A close is followed by the steps a second caller leaves out, a row is
\* stored right after the snapshot, the fault's delay is before its command.
Linked(p) ==
  \A i \in 1..Len(p) :
    /\ p[i].op = "close" => i + 5 <= Len(p) /\ p[i + 5].op = "set"
    /\ p[i].op = "store" /\ i > 1 => p[i - 1].op = "snapshot"
    /\ p[i].op = "delay" => i + 1 <= Len(p) /\ p[i + 1].op = "send"

Good(p) == Prog(p) /\ (\A i \in 1..Len(p) : Fine(p[i])) /\ Linked(p)

\* Only after a close may the session be snapshotted, stored or said over.
AfterClose(s) ==
  s.op \in {"snapshot", "store"} \/ (s.op = "set" /\ "once" \in DOMAIN s.fields)

CloseFirst(p) ==
  \A i \in 1..Len(p) : AfterClose(p[i]) => \E j \in 1..(i - 1) : p[j].op = "close"

\* The program of a handler begins anew: the row is not stored first.
Fresh(p) == Good(p) /\ (p # <<>> => p[1].op # "store")

ReasonsIn(p, R) == \A i \in 1..Len(p) : p[i].op = "close" => p[i].fields.reason \in R

\* What is left of a program has its form, unless its snapshot was left out.
LEMMA DroppedGood ==
  ASSUME NEW p, NEW q, NEW n \in Nat, Good(p), Dropped(p, q, n)
  PROVE  /\ Good(q)
         /\ \A R : ReasonsIn(p, R) => ReasonsIn(q, R)
  <1>1. \A i \in 1..Len(q) : i + n \in 1..Len(p) /\ q[i] = p[i + n]
    BY DEF Dropped
  <1>2. ASSUME NEW i \in 1..Len(q)
        PROVE  /\ q[i].op = "close" => i + 5 <= Len(q) /\ q[i + 5].op = "set"
               /\ q[i].op = "store" /\ i > 1 => q[i - 1].op = "snapshot"
               /\ q[i].op = "delay" => i + 1 <= Len(q) /\ q[i + 1].op = "send"
    <2>1. i + n \in 1..Len(p) /\ q[i] = p[i + n] /\ Len(q) = Len(p) - n
      BY <1>1 DEF Dropped
    <2>2. ASSUME q[i].op = "close" PROVE i + 5 <= Len(q) /\ q[i + 5].op = "set"
      <3>1. (i + n) + 5 <= Len(p) /\ p[(i + n) + 5].op = "set"
        BY <2>1, <2>2 DEF Good, Linked
      <3>2. i + 5 \in 1..Len(q) /\ (i + n) + 5 = (i + 5) + n
        BY <2>1, <3>1
      <3> QED BY <1>1, <3>1, <3>2
    <2>3. ASSUME q[i].op = "store", i > 1 PROVE q[i - 1].op = "snapshot"
      <3>1. p[(i + n) - 1].op = "snapshot"
        BY <2>1, <2>3 DEF Good, Linked
      <3>2. i - 1 \in 1..Len(q) /\ (i + n) - 1 = (i - 1) + n
        BY <2>1, <2>3
      <3> QED BY <1>1, <3>1, <3>2
    <2>4. ASSUME q[i].op = "delay" PROVE i + 1 <= Len(q) /\ q[i + 1].op = "send"
      <3>1. (i + n) + 1 <= Len(p) /\ p[(i + n) + 1].op = "send"
        BY <2>1, <2>4 DEF Good, Linked
      <3>2. i + 1 \in 1..Len(q) /\ (i + n) + 1 = (i + 1) + n
        BY <2>1, <3>1
      <3> QED BY <1>1, <3>1, <3>2
    <2> QED BY <2>2, <2>3, <2>4
  <1>3. Linked(q)
    BY <1>2 DEF Linked
  <1>4. \A i \in 1..Len(q) : Fine(q[i])
    BY <1>1 DEF Good
  <1>5. ASSUME NEW R, ReasonsIn(p, R) PROVE ReasonsIn(q, R)
    BY <1>1, <1>5 DEF ReasonsIn
  <1> QED BY <1>3, <1>4, <1>5 DEF Good, Dropped

\* The position of a step in two programs that follow each other.
LEMMA JoinedIndex ==
  ASSUME NEW p, NEW q, NEW i \in 1..(Len(p) + Len(q))
  PROVE  i \in 1..Len(p) \/ \E j \in 1..Len(q) : i = Len(p) + j
  <1>1. CASE i > Len(p)
    <2>1. i - Len(p) \in 1..Len(q) /\ i = Len(p) + (i - Len(p))
      BY <1>1
    <2> QED BY <2>1
  <1> QED BY <1>1

\* Two programs make one.
LEMMA JoinedFresh ==
  ASSUME NEW p, NEW q, Fresh(p), Fresh(q)
  PROVE  /\ Fresh(p \o q)
         /\ \A R : ReasonsIn(p, R) /\ ReasonsIn(q, R) => ReasonsIn(p \o q, R)
         /\ CloseFirst(p) /\ CloseFirst(q) => CloseFirst(p \o q)
         /\ CloseFirst(p) /\ (\E j \in 1..Len(p) : p[j].op = "close") => CloseFirst(p \o q)
  <1> DEFINE r == p \o q
  <1>1. /\ Prog(r) /\ Len(r) = Len(p) + Len(q)
        /\ \A i \in 1..Len(p) : r[i] = p[i]
        /\ \A i \in 1..Len(q) : r[Len(p) + i] = q[i]
    BY Joined DEF Fresh, Good
  <1> HIDE DEF r
  <1>2. \A i \in 1..Len(r) : Fine(r[i])
    BY <1>1, JoinedIndex DEF Fresh, Good
  <1>3. ASSUME NEW i \in 1..Len(r)
        PROVE  /\ r[i].op = "close" => i + 5 <= Len(r) /\ r[i + 5].op = "set"
               /\ r[i].op = "store" /\ i > 1 => r[i - 1].op = "snapshot"
               /\ r[i].op = "delay" => i + 1 <= Len(r) /\ r[i + 1].op = "send"
    <2>1. CASE i \in 1..Len(p)
      <3>1. \A j \in 1..Len(p) : r[j] = p[j]
        BY <1>1
      <3>2. /\ p[i].op = "close" => i + 5 <= Len(p) /\ p[i + 5].op = "set"
            /\ p[i].op = "store" /\ i > 1 => p[i - 1].op = "snapshot"
            /\ p[i].op = "delay" => i + 1 <= Len(p) /\ p[i + 1].op = "send"
        BY <2>1 DEF Fresh, Good, Linked
      <3> QED BY <1>1, <2>1, <3>1, <3>2
    <2>2. CASE \E j \in 1..Len(q) : i = Len(p) + j
      <3>1. PICK j \in 1..Len(q) : i = Len(p) + j
        BY <2>2
      <3>2. /\ q[j].op = "close" => j + 5 <= Len(q) /\ q[j + 5].op = "set"
            /\ q[j].op = "store" /\ j > 1 => q[j - 1].op = "snapshot"
            /\ q[j].op = "delay" => j + 1 <= Len(q) /\ q[j + 1].op = "send"
        BY DEF Fresh, Good, Linked
      <3>3. r[i] = q[j]
        BY <1>1, <3>1
      <3>4. r[i].op = "close" => i + 5 <= Len(r) /\ r[i + 5].op = "set"
        <4>1. Len(p) + (j + 5) = i + 5
          BY <3>1
        <4> QED BY <1>1, <3>1, <3>2, <3>3, <4>1
      <3>5. r[i].op = "delay" => i + 1 <= Len(r) /\ r[i + 1].op = "send"
        <4>1. Len(p) + (j + 1) = i + 1
          BY <3>1
        <4> QED BY <1>1, <3>1, <3>2, <3>3, <4>1
      <3>6. r[i].op = "store" /\ i > 1 => r[i - 1].op = "snapshot"
        <4>1. CASE j > 1
          <5>1. Len(p) + (j - 1) = i - 1 /\ j - 1 \in 1..Len(q)
            BY <3>1, <4>1
          <5> QED BY <1>1, <3>2, <3>3, <4>1, <5>1
        <4>2. CASE j = 1
          BY <3>3, <4>2 DEF Fresh
        <4> QED BY <4>1, <4>2
      <3> QED BY <3>4, <3>5, <3>6
    <2> QED BY <1>1, <2>1, <2>2, JoinedIndex
  <1>4. Good(r)
    BY <1>1, <1>2, <1>3 DEF Good, Linked
  <1>5. r # <<>> => r[1].op # "store"
    <2>1. CASE p # <<>>
      BY <1>1, <2>1 DEF Fresh
    <2>2. CASE p = <<>> /\ q # <<>>
      <3>1. Len(p) = 0 /\ 1 \in 1..Len(q)
        BY <2>2
      <3> QED BY <1>1, <2>2, <3>1 DEF Fresh
    <2>3. CASE p = <<>> /\ q = <<>>
      BY <1>1, <2>3
    <2> QED BY <2>1, <2>2, <2>3
  <1>6. ASSUME NEW R, ReasonsIn(p, R), ReasonsIn(q, R) PROVE ReasonsIn(r, R)
    <2>1. ASSUME NEW i \in 1..Len(r), r[i].op = "close" PROVE r[i].fields.reason \in R
      <3>1. CASE i \in 1..Len(p)
        BY <1>1, <1>6, <2>1, <3>1 DEF ReasonsIn
      <3>2. CASE \E j \in 1..Len(q) : i = Len(p) + j
        <4>1. PICK j \in 1..Len(q) : i = Len(p) + j
          BY <3>2
        <4>2. r[i] = q[j]
          BY <1>1, <4>1
        <4> QED BY <1>6, <2>1, <4>2 DEF ReasonsIn
      <3> QED BY <1>1, <3>1, <3>2, JoinedIndex
    <2> QED BY <2>1 DEF ReasonsIn
  <1>7. ASSUME CloseFirst(p), CloseFirst(q) PROVE CloseFirst(r)
    <2>1. ASSUME NEW i \in 1..Len(r), AfterClose(r[i])
          PROVE  \E j \in 1..(i - 1) : r[j].op = "close"
      <3>1. CASE i \in 1..Len(p)
        <4>1. PICK j \in 1..(i - 1) : p[j].op = "close"
          BY <1>1, <1>7, <2>1, <3>1 DEF CloseFirst
        <4> QED BY <1>1, <3>1, <4>1
      <3>2. CASE \E j \in 1..Len(q) : i = Len(p) + j
        <4>1. PICK k \in 1..Len(q) : i = Len(p) + k
          BY <3>2
        <4>2. PICK j \in 1..(k - 1) : q[j].op = "close"
          BY <1>1, <1>7, <2>1, <4>1 DEF CloseFirst
        <4>3. r[Len(p) + j].op = "close" /\ Len(p) + j \in 1..(i - 1)
          BY <1>1, <4>1, <4>2
        <4> QED BY <4>3
      <3> QED BY <1>1, <3>1, <3>2, JoinedIndex
    <2> QED BY <2>1 DEF CloseFirst
  <1>8. ASSUME CloseFirst(p), NEW k \in 1..Len(p), p[k].op = "close" PROVE CloseFirst(r)
    <2>1. ASSUME NEW i \in 1..Len(r), AfterClose(r[i])
          PROVE  \E j \in 1..(i - 1) : r[j].op = "close"
      <3>1. CASE i \in 1..Len(p)
        <4>1. PICK j \in 1..(i - 1) : p[j].op = "close"
          BY <1>1, <1>8, <2>1, <3>1 DEF CloseFirst
        <4> QED BY <1>1, <3>1, <4>1
      <3>2. CASE i > Len(p)
        <4>1. r[k].op = "close" /\ k \in 1..(i - 1)
          BY <1>1, <1>8, <3>2
        <4> QED BY <4>1
      <3> QED BY <1>1, <3>1, <3>2
    <2> QED BY <2>1 DEF CloseFirst
  <1> QED BY <1>4, <1>5, <1>6, <1>7, <1>8 DEF Fresh, r

-----------------------------------------------------------------------------
(***************************************************************************)
(* What a program writes.  Frames, closing the writer and cutting the      *)
(* socket are the steps that write; a word is what they do, in order, with *)
(* the "set" step between closing the writer and cutting the socket.       *)
(***************************************************************************)
Writing == {"frame", "shut", "cut"}
Marks == {"content", "final", "done", "error", "malformed", "shut", "set", "cut"}

Marked(s, m) ==
  \/ m = "content" /\ s.op = "frame" /\ s.kind \in {"echo", "tool", "comment"}
  \/ m \in {"final", "done", "error", "malformed"} /\ s.op = "frame" /\ s.kind = m
  \/ m \in {"shut", "set", "cut"} /\ s.op = m

\* From the step k on, w is done, and nothing else is written.
WritesFrom(p, k, w) ==
  /\ \A i \in 1..(k - 1) : p[i].op = "set"
  /\ k + Len(w) <= Len(p) + 1
  /\ \A i \in 1..Len(w) : Marked(p[k + i - 1], w[i])
  /\ \A i \in (k + Len(w))..Len(p) : p[i].op \notin Writing

Writes(p, w) == \E k \in 1..(Len(p) + 1) : WritesFrom(p, k, w)

Silent(p) == \A i \in 1..Len(p) : p[i].op \notin Writing

Content == <<"content">>
Finishing == <<"final", "done", "shut">>
Answering == <<"content", "final", "done", "shut">>
DoneShut == <<"done", "shut">>
OnlyShut == <<"shut">>
ErrorDone == <<"error", "done", "shut">>
ErrorShut == <<"error", "shut">>
Garbling == <<"malformed", "shut", "set", "cut">>
Cutting == <<"shut", "set", "cut">>
SetCut == <<"set", "cut">>
OnlyCut == <<"cut">>

Words == {<<>>, Content, Answering, Finishing, DoneShut, OnlyShut, ErrorDone, ErrorShut,
          Garbling, Cutting, SetCut, OnlyCut}

\* What is left of a word, once its first mark is done.
LEMMA WordTails ==
  /\ Tail(Content) = <<>> /\ Tail(Answering) = Finishing /\ Tail(Finishing) = DoneShut
  /\ Tail(DoneShut) = OnlyShut /\ Tail(OnlyShut) = <<>> /\ Tail(ErrorDone) = DoneShut
  /\ Tail(ErrorShut) = OnlyShut /\ Tail(Garbling) = Cutting /\ Tail(Cutting) = SetCut
  /\ Tail(SetCut) = OnlyCut /\ Tail(OnlyCut) = <<>>
  BY DEF Content, Answering, Finishing, DoneShut, OnlyShut, ErrorDone, ErrorShut,
         Garbling, Cutting, SetCut, OnlyCut

\* Which mark a word begins with.
LEMMA WordHeads ==
  /\ Content[1] = "content" /\ Answering[1] = "content" /\ Finishing[1] = "final"
  /\ DoneShut[1] = "done" /\ OnlyShut[1] = "shut" /\ ErrorDone[1] = "error"
  /\ ErrorShut[1] = "error" /\ Garbling[1] = "malformed" /\ Cutting[1] = "shut"
  /\ SetCut[1] = "set" /\ OnlyCut[1] = "cut"
  BY DEF Content, Answering, Finishing, DoneShut, OnlyShut, ErrorDone, ErrorShut,
         Garbling, Cutting, SetCut, OnlyCut

\* The words are sequences of marks.
LEMMA WordTypes == Words \subseteq Seq(Marks)
  <1>1. Content \in Seq(Marks)
    BY DEF Content, Marks
  <1>2. Answering \in Seq(Marks)
    BY DEF Answering, Marks
  <1>3. Finishing \in Seq(Marks)
    BY DEF Finishing, Marks
  <1>4. DoneShut \in Seq(Marks)
    BY DEF DoneShut, Marks
  <1>5. OnlyShut \in Seq(Marks)
    BY DEF OnlyShut, Marks
  <1>6. ErrorDone \in Seq(Marks)
    BY DEF ErrorDone, Marks
  <1>7. ErrorShut \in Seq(Marks)
    BY DEF ErrorShut, Marks
  <1>8. Garbling \in Seq(Marks)
    BY DEF Garbling, Marks
  <1>9. Cutting \in Seq(Marks)
    BY DEF Cutting, Marks
  <1>10. SetCut \in Seq(Marks)
    BY DEF SetCut, Marks
  <1>11. OnlyCut \in Seq(Marks) /\ <<>> \in Seq(Marks)
    BY DEF OnlyCut, Marks
  <1> QED BY <1>1, <1>2, <1>3, <1>4, <1>5, <1>6, <1>7, <1>8, <1>9, <1>10, <1>11 DEF Words

\* How words follow one another.
LEMMA WordsJoined ==
  /\ <<"malformed">> \o Cutting = Garbling
  /\ Content \o Finishing = Answering
  /\ \A w \in Seq(Marks) : <<>> \o w = w
  <1>1. <<"malformed">> \o Cutting = Garbling
    <2> DEFINE u == <<"malformed">>
    <2>1. u \in Seq(Marks) /\ Len(u) = 1 /\ u[1] = "malformed"
      BY DEF Marks
    <2>2. /\ Cutting \in Seq(Marks) /\ Len(Cutting) = 3
          /\ Cutting[1] = "shut" /\ Cutting[2] = "set" /\ Cutting[3] = "cut"
      BY WordTypes DEF Words, Cutting
    <2>3. /\ Garbling \in Seq(Marks) /\ Len(Garbling) = 4 /\ Garbling[1] = "malformed"
          /\ Garbling[2] = "shut" /\ Garbling[3] = "set" /\ Garbling[4] = "cut"
      BY WordTypes DEF Words, Garbling
    <2> HIDE DEF u
    <2>4. /\ u \o Cutting \in Seq(Marks) /\ Len(u \o Cutting) = Len(u) + Len(Cutting)
          /\ \A i \in 1..(Len(u) + Len(Cutting)) :
               (u \o Cutting)[i] = IF i <= Len(u) THEN u[i] ELSE Cutting[i - Len(u)]
      BY <2>1, <2>2, ConcatProperties
    <2>5. /\ (u \o Cutting)[1] = u[1] /\ (u \o Cutting)[2] = Cutting[1]
          /\ (u \o Cutting)[3] = Cutting[2] /\ (u \o Cutting)[4] = Cutting[3]
      BY <2>1, <2>2, <2>4
    <2>6. \A i \in 1..4 : i = 1 \/ i = 2 \/ i = 3 \/ i = 4
      OBVIOUS
    <2>7. \A i \in 1..4 : (u \o Cutting)[i] = Garbling[i]
      BY <2>1, <2>2, <2>3, <2>5, <2>6
    <2>8. u \o Cutting = Garbling
      BY <2>1, <2>2, <2>3, <2>4, <2>7, SeqEqual
    <2> QED BY <2>8 DEF u
  <1>2. Content \o Finishing = Answering
    <2>1. Content \in Seq(Marks) /\ Len(Content) = 1 /\ Content[1] = "content"
      BY WordTypes DEF Words, Content
    <2>2. /\ Finishing \in Seq(Marks) /\ Len(Finishing) = 3
          /\ Finishing[1] = "final" /\ Finishing[2] = "done" /\ Finishing[3] = "shut"
      BY WordTypes DEF Words, Finishing
    <2>3. /\ Answering \in Seq(Marks) /\ Len(Answering) = 4 /\ Answering[1] = "content"
          /\ Answering[2] = "final" /\ Answering[3] = "done" /\ Answering[4] = "shut"
      BY WordTypes DEF Words, Answering
    <2>4. /\ Content \o Finishing \in Seq(Marks) /\ Len(Content \o Finishing) = 4
          /\ \A i \in 1..4 : (Content \o Finishing)[i] =
                               IF i <= 1 THEN Content[i] ELSE Finishing[i - 1]
      BY <2>1, <2>2, ConcatProperties
    <2>5. /\ (Content \o Finishing)[1] = Content[1]
          /\ (Content \o Finishing)[2] = Finishing[1]
          /\ (Content \o Finishing)[3] = Finishing[2]
          /\ (Content \o Finishing)[4] = Finishing[3]
      BY <2>4
    <2>6. \A i \in 1..4 : i = 1 \/ i = 2 \/ i = 3 \/ i = 4
      OBVIOUS
    <2>7. \A i \in 1..4 : (Content \o Finishing)[i] = Answering[i]
      BY <2>1, <2>2, <2>3, <2>5, <2>6
    <2> QED BY <2>3, <2>4, <2>7, SeqEqual
  <1>3. \A w \in Seq(Marks) : <<>> \o w = w
    BY ConcatEmptySeq
  <1> QED BY <1>1, <1>2, <1>3

\* Nothing is written exactly when no step writes.
LEMMA QuietWrites == ASSUME NEW p PROVE Silent(p) <=> Writes(p, <<>>)
  <1>1. ASSUME Silent(p) PROVE WritesFrom(p, 1, <<>>) /\ 1 \in 1..(Len(p) + 1)
    BY <1>1 DEF Silent, WritesFrom
  <1>2. ASSUME NEW k \in 1..(Len(p) + 1), WritesFrom(p, k, <<>>), NEW i \in 1..Len(p)
        PROVE  p[i].op \notin Writing
    <2>1. i \in 1..(k - 1) \/ i \in (k + 0)..Len(p)
      OBVIOUS
    <2> QED BY <1>2, <2>1 DEF WritesFrom, Writing
  <1> QED BY <1>1, <1>2 DEF Writes, Silent

\* What the first step of a program does to its word.
LEMMA WritesOn ==
  ASSUME NEW p, NEW q, p # <<>>, Dropped(p, q, 1), NEW w \in Seq(Marks), Writes(p, w)
  PROVE  \/ p[1].op = "set" /\ Writes(q, w)
         \/ w # <<>> /\ Marked(p[1], w[1]) /\ Writes(q, Tail(w))
         \/ w = <<>> /\ p[1].op \notin Writing /\ Writes(q, <<>>)
  <1>0. /\ Len(p) \in Nat \ {0} /\ Len(q) = Len(p) - 1
        /\ \A i \in 1..Len(q) : q[i] = p[i + 1]
    BY DEF Dropped
  <1>1. PICK k \in 1..(Len(p) + 1) : WritesFrom(p, k, w)
    BY DEF Writes
  <1>2. CASE k > 1
    <2>1. p[1].op = "set" /\ k - 1 + Len(w) <= Len(q) + 1
      BY <1>0, <1>1, <1>2 DEF WritesFrom
    <2>2. ASSUME NEW i \in 1..(k - 1 - 1) PROVE q[i].op = "set"
      <3>1. i \in 1..Len(q) /\ i + 1 \in 1..(k - 1)
        BY <1>0, <1>1, <1>2 DEF WritesFrom
      <3> QED BY <1>0, <1>1, <3>1 DEF WritesFrom
    <2>3. ASSUME NEW i \in 1..Len(w) PROVE Marked(q[k - 1 + i - 1], w[i])
      <3>1. k - 1 + i - 1 \in 1..Len(q) /\ (k - 1 + i - 1) + 1 = k + i - 1
        BY <1>0, <1>1, <1>2 DEF WritesFrom
      <3> QED BY <1>0, <1>1, <3>1 DEF WritesFrom
    <2>4. ASSUME NEW i \in (k - 1 + Len(w))..Len(q) PROVE q[i].op \notin Writing
      <3>1. i \in 1..Len(q) /\ i + 1 \in (k + Len(w))..Len(p)
        BY <1>0, <1>1, <1>2 DEF WritesFrom
      <3> QED BY <1>0, <1>1, <3>1 DEF WritesFrom
    <2>5. WritesFrom(q, k - 1, w)
      BY <2>1, <2>2, <2>3, <2>4 DEF WritesFrom
    <2> QED BY <1>0, <1>2, <2>1, <2>5 DEF Writes
  <1>3. CASE k = 1 /\ w # <<>>
    <2>1. /\ Len(w) \in Nat \ {0} /\ Len(Tail(w)) = Len(w) - 1
          /\ \A i \in 1..Len(Tail(w)) : Tail(w)[i] = w[i + 1]
      BY <1>3, HeadTailProperties, EmptySeq
    <2>2. 1 + Len(Tail(w)) <= Len(q) + 1 /\ Marked(p[1], w[1])
      BY <1>0, <1>1, <1>3, <2>1 DEF WritesFrom
    <2>3. ASSUME NEW i \in 1..Len(Tail(w)) PROVE Marked(q[1 + i - 1], Tail(w)[i])
      <3>1. i + 1 \in 1..Len(w) /\ i \in 1..Len(q) /\ 1 + (i + 1) - 1 = i + 1 /\ 1 + i - 1 = i
        BY <1>0, <1>1, <1>3, <2>1 DEF WritesFrom
      <3>2. Marked(p[i + 1], w[i + 1])
        BY <1>1, <1>3, <3>1 DEF WritesFrom
      <3> QED BY <1>0, <2>1, <3>1, <3>2
    <2>4. ASSUME NEW i \in (1 + Len(Tail(w)))..Len(q) PROVE q[i].op \notin Writing
      <3>1. i \in 1..Len(q) /\ i + 1 \in (1 + Len(w))..Len(p)
        BY <1>0, <1>1, <1>3, <2>1 DEF WritesFrom
      <3> QED BY <1>0, <1>1, <1>3, <3>1 DEF WritesFrom
    <2>5. WritesFrom(q, 1, Tail(w))
      BY <2>2, <2>3, <2>4 DEF WritesFrom
    <2> QED BY <1>0, <1>3, <2>2, <2>5 DEF Writes
  <1>4. CASE k = 1 /\ w = <<>>
    <2>1. WritesFrom(q, 1, <<>>) /\ p[1].op \notin Writing
      BY <1>0, <1>1, <1>4 DEF WritesFrom
    <2> QED BY <1>0, <1>4, <2>1 DEF Writes
  <1> QED BY <1>1, <1>2, <1>3, <1>4

\* Leaving steps out of a program that writes nothing.
LEMMA QuietOn ==
  ASSUME NEW p, NEW q, NEW n \in Nat, Dropped(p, q, n), Writes(p, <<>>)
  PROVE  Writes(q, <<>>)
  <1>1. Silent(p)
    BY QuietWrites
  <1>2. \A i \in 1..Len(q) : i + n \in 1..Len(p) /\ q[i] = p[i + n]
    BY DEF Dropped
  <1>3. Silent(q)
    BY <1>1, <1>2 DEF Silent
  <1> QED BY <1>3, QuietWrites

\* Once the final chunk is refused, the rest of FinishStream is left out.
LEMMA FinishingLeftOut ==
  ASSUME NEW p, NEW q, Dropped(p, q, 3), Writes(p, Finishing), p[1].op # "set"
  PROVE  Writes(q, <<>>) /\ Len(p) >= 3 /\ p[2].op = "frame" /\ p[3].op = "shut"
  <1>1. PICK k \in 1..(Len(p) + 1) : WritesFrom(p, k, Finishing)
    BY DEF Writes
  <1>2. Len(Finishing) = 3 /\ Finishing[2] = "done" /\ Finishing[3] = "shut"
    BY DEF Finishing
  <1>3. k = 1
    BY <1>1 DEF WritesFrom
  <1>4. Len(p) >= 3 /\ Marked(p[2], "done") /\ Marked(p[3], "shut") /\ \A i \in 4..Len(p) : p[i].op \notin Writing
    BY <1>1, <1>2, <1>3 DEF WritesFrom
  <1>5. \A i \in 1..Len(q) : i + 3 \in 4..Len(p) /\ q[i] = p[i + 3]
    BY <1>4 DEF Dropped
  <1>6. Silent(q)
    BY <1>4, <1>5 DEF Silent
  <1> QED BY <1>4, <1>6, QuietWrites DEF Marked

\* What follows quietly adds nothing.
LEMMA WritesJoined ==
  ASSUME NEW p, NEW q, Prog(p), Prog(q), NEW w \in Seq(Marks), Writes(p, w), Silent(q)
  PROVE  Writes(p \o q, w)
  <1> DEFINE r == p \o q
  <1>1. /\ Len(r) = Len(p) + Len(q)
        /\ \A i \in 1..Len(p) : r[i] = p[i]
        /\ \A i \in 1..Len(q) : r[Len(p) + i] = q[i]
    BY Joined
  <1> HIDE DEF r
  <1>2. PICK k \in 1..(Len(p) + 1) : WritesFrom(p, k, w)
    BY DEF Writes
  <1>3. \A i \in 1..(k - 1) : r[i].op = "set"
    BY <1>1, <1>2 DEF WritesFrom
  <1>4. k + Len(w) <= Len(r) + 1
    BY <1>1, <1>2 DEF WritesFrom
  <1>5. ASSUME NEW i \in 1..Len(w) PROVE Marked(r[k + i - 1], w[i])
    <2>1. k + i - 1 \in 1..Len(p)
      BY <1>2 DEF WritesFrom
    <2> QED BY <1>1, <1>2, <2>1 DEF WritesFrom
  <1>6. ASSUME NEW i \in (k + Len(w))..Len(r) PROVE r[i].op \notin Writing
    <2>1. i \in 1..(Len(p) + Len(q))
      BY <1>1, <1>2 DEF WritesFrom
    <2>2. CASE i \in 1..Len(p)
      BY <1>1, <1>2, <2>2 DEF WritesFrom
    <2>3. CASE \E j \in 1..Len(q) : i = Len(p) + j
      BY <1>1, <2>3 DEF Silent
    <2> QED BY <2>1, <2>2, <2>3, JoinedIndex
  <1>7. WritesFrom(r, k, w)
    BY <1>3, <1>4, <1>5, <1>6 DEF WritesFrom
  <1> QED BY <1>1, <1>7 DEF Writes, r

\* Steps that set fields, or write the marks before, in front of a word.
LEMMA WritesAfter ==
  ASSUME NEW p, NEW q, Prog(p), Prog(q), NEW u \in Seq(Marks), NEW v \in Seq(Marks),
         NEW k \in 1..(Len(p) + 1), WritesFrom(p, k, u), k + Len(u) = Len(p) + 1,
         WritesFrom(q, 1, v)
  PROVE  Writes(p \o q, u \o v)
  <1> DEFINE r == p \o q
             w == u \o v
  <1>1. /\ Len(r) = Len(p) + Len(q)
        /\ \A i \in 1..Len(p) : r[i] = p[i]
        /\ \A i \in 1..Len(q) : r[Len(p) + i] = q[i]
    BY Joined
  <1>2. /\ Len(w) = Len(u) + Len(v)
        /\ \A i \in 1..Len(u) : w[i] = u[i]
        /\ \A i \in 1..Len(v) : w[Len(u) + i] = v[i]
    BY Joined, SeqProg
  <1> HIDE DEF r, w
  <1>8. /\ \A i \in 1..(k - 1) : p[i].op = "set"
        /\ Len(v) <= Len(q)
        /\ \A i \in (1 + Len(v))..Len(q) : q[i].op \notin Writing
    BY DEF WritesFrom
  <1>3. ASSUME NEW i \in 1..(k - 1) PROVE r[i].op = "set"
    <2>1. i \in 1..Len(p)
      OBVIOUS
    <2> QED BY <1>1, <1>8, <2>1
  <1>4. k + Len(w) <= Len(r) + 1
    BY <1>1, <1>2 DEF WritesFrom
  <1>5. ASSUME NEW i \in 1..Len(w) PROVE Marked(r[k + i - 1], w[i])
    <2>1. CASE i \in 1..Len(u)
      <3>1. k + i - 1 \in 1..Len(p)
        BY <2>1
      <3> QED BY <1>1, <1>2, <2>1, <3>1 DEF WritesFrom
    <2>2. CASE \E j \in 1..Len(v) : i = Len(u) + j
      <3>1. PICK j \in 1..Len(v) : i = Len(u) + j
        BY <2>2
      <3>2. j \in 1..Len(q) /\ k + i - 1 = Len(p) + j /\ 1 + j - 1 = j
        BY <1>8, <3>1
      <3>3. Marked(q[j], v[j])
        BY <3>1, <3>2 DEF WritesFrom
      <3> QED BY <1>1, <1>2, <3>1, <3>2, <3>3
    <2> QED BY <1>2, <2>1, <2>2, JoinedIndex
  <1>6. ASSUME NEW i \in (k + Len(w))..Len(r) PROVE r[i].op \notin Writing
    <2>1. i - Len(p) \in (1 + Len(v))..Len(q) /\ i = Len(p) + (i - Len(p))
      BY <1>1, <1>2
    <2>2. i - Len(p) \in 1..Len(q)
      BY <2>1
    <2>3. q[i - Len(p)].op \notin Writing
      BY <1>8, <2>1
    <2> QED BY <1>1, <2>1, <2>2, <2>3
  <1>7. WritesFrom(r, k, w)
    BY <1>3, <1>4, <1>5, <1>6 DEF WritesFrom
  <1> QED BY <1>1, <1>7 DEF Writes, r, w

-----------------------------------------------------------------------------
(***************************************************************************)
(* The programs.                                                           *)
(***************************************************************************)
\* p is the program of a handler that writes w and may close for a reason of R.
Program(p, w, R) == Fresh(p) /\ CloseFirst(p) /\ Writes(p, w) /\ ReasonsIn(p, R)

\* A step that may stand anywhere.
Simple(s) == Fine(s) /\ s.op \notin {"close", "store", "snapshot", "delay"} /\ ~AfterClose(s)

\* The form of a program of such steps.
LEMMA SimpleProgram ==
  ASSUME NEW p, Prog(p), \A i \in 1..Len(p) : Simple(p[i])
  PROVE  Fresh(p) /\ CloseFirst(p) /\ \A R : ReasonsIn(p, R)
  BY DEF Simple, Fresh, Good, Linked, CloseFirst, ReasonsIn

\* Tuples are sequences.
LEMMA Tuples ==
  ASSUME NEW a, NEW b, NEW c, NEW d
  PROVE  /\ Prog(<<>>) /\ Prog(<<a>>) /\ Prog(<<a, b>>) /\ Prog(<<a, b, c>>)
         /\ Prog(<<a, b, c, d>>)
  <1>1. <<>> \in Seq({})
    OBVIOUS
  <1>2. <<a>> \in Seq({a})
    OBVIOUS
  <1>3. <<a, b>> \in Seq({a, b})
    OBVIOUS
  <1>4. <<a, b, c>> \in Seq({a, b, c})
    OBVIOUS
  <1>5. <<a, b, c, d>> \in Seq({a, b, c, d})
    OBVIOUS
  <1>6. Prog(<<>>)
    BY <1>1, SeqProg
  <1>7. Prog(<<a>>)
    BY <1>2, SeqProg
  <1>8. Prog(<<a, b>>)
    BY <1>3, SeqProg
  <1>9. Prog(<<a, b, c>>)
    BY <1>4, SeqProg
  <1>10. Prog(<<a, b, c, d>>)
    BY <1>5, SeqProg
  <1> QED BY <1>6, <1>7, <1>8, <1>9, <1>10

\* One that writes nothing either.
Mute(s) == Simple(s) /\ s.op \notin Writing

\* The form of a program of such steps.
LEMMA MuteProgram ==
  ASSUME NEW p, Prog(p), \A i \in 1..Len(p) : Mute(p[i]), NEW R
  PROVE  Program(p, <<>>, R)
  <1>1. Writes(p, <<>>)
    BY QuietWrites DEF Silent, Mute
  <1> QED BY <1>1, SimpleProgram DEF Program, Mute

\* One, two or three of them.
LEMMA MuteOne == ASSUME NEW a, Mute(a), NEW R PROVE Program(<<a>>, <<>>, R)
  <1>1. \A i \in 1..Len(<<a>>) : Mute(<<a>>[i])
    OBVIOUS
  <1> QED BY <1>1, MuteProgram, Tuples

\* Two steps that write nothing are a program that writes nothing.
LEMMA MuteTwo ==
  ASSUME NEW a, NEW b, Mute(a), Mute(b), NEW R
  PROVE  Program(<<a, b>>, <<>>, R)
  <1>1. \A i \in 1..Len(<<a, b>>) : Mute(<<a, b>>[i])
    OBVIOUS
  <1> QED BY <1>1, MuteProgram, Tuples

\* And so are three.
LEMMA MuteThree ==
  ASSUME NEW a, NEW b, NEW c, Mute(a), Mute(b), Mute(c), NEW R
  PROVE  Program(<<a, b, c>>, <<>>, R)
  <1>1. \A i \in 1..Len(<<a, b, c>>) : Mute(<<a, b, c>>[i])
    OBVIOUS
  <1> QED BY <1>1, MuteProgram, Tuples

\* One program, and then another that writes nothing.
LEMMA ProgramThen ==
  ASSUME NEW p, NEW q, NEW R, NEW w \in Words, Program(p, w, R), Program(q, <<>>, R)
  PROVE  Program(p \o q, w, R)
  <1>1. Fresh(p \o q) /\ CloseFirst(p \o q) /\ ReasonsIn(p \o q, R)
    BY JoinedFresh DEF Program
  <1>2. Writes(p \o q, w)
    BY WritesJoined, QuietWrites, WordTypes DEF Program, Fresh, Good
  <1> QED BY <1>1, <1>2 DEF Program

\* closeOnce.Do.
LEMMA CloseProgram ==
  ASSUME NEW state \in Ended, NEW reason \in Reasons, NEW R, reason \in R
  PROVE  /\ Program(Close(state, reason), <<>>, R)
         /\ \E j \in 1..Len(Close(state, reason)) : Close(state, reason)[j].op = "close"
  <1> DEFINE c == [op |-> "close", fields |-> [state |-> state, reason |-> reason, ended |-> TRUE]]
             p == Close(state, reason)
             S == {c, Set([done |-> TRUE]), Act("snapshot"), Act("store"),
                   Set([paused |-> FALSE]), Set([once |-> "over"])}
  <1>1. /\ Len(p) = 6 /\ p[1] = c /\ p[2] = Set([done |-> TRUE]) /\ p[3] = Act("snapshot")
        /\ p[4] = Act("store") /\ p[5] = Set([paused |-> FALSE])
        /\ p[6] = Set([once |-> "over"]) /\ p \in Seq(S)
    BY DEF Close
  <1>2. c.op = "close" /\ c.fields.reason = reason /\ Fine(c)
    BY DEF Fine
  <1>3. /\ Fine(Set([done |-> TRUE])) /\ Fine(Set([paused |-> FALSE]))
        /\ Fine(Set([once |-> "over"]))
    BY DEF Fine, Set, Fits
  <1>4. Fine(Act("snapshot")) /\ Fine(Act("store"))
    BY DEF Fine, Act, Plain
  <1>5. \A f : Set(f).op = "set"
    BY DEF Set
  <1>6. \A name : Act(name).op = name
    BY DEF Act
  <1>7. Prog(p)
    BY <1>1, SeqProg
  <1> HIDE DEF c, p, S
  <1>8. \A i \in 1..Len(p) : i \in {1, 2, 3, 4, 5, 6}
    BY <1>1
  <1>9. /\ p[1].op = "close" /\ p[2].op = "set" /\ p[3].op = "snapshot" /\ p[4].op = "store"
        /\ p[5].op = "set" /\ p[6].op = "set"
    BY <1>1, <1>2, <1>5, <1>6
  <1>10. \A i \in 1..Len(p) : Fine(p[i])
    BY <1>1, <1>2, <1>3, <1>4, <1>8
  <1>11. Linked(p)
    BY <1>1, <1>8, <1>9 DEF Linked
  <1>12. Fresh(p)
    BY <1>7, <1>9, <1>10, <1>11 DEF Fresh, Good
  <1>13. ~AfterClose(p[1]) /\ ~AfterClose(p[2])
    BY <1>1, <1>9 DEF AfterClose, Set
  <1>14. CloseFirst(p)
    <2>1. ASSUME NEW i \in 1..Len(p), AfterClose(p[i])
          PROVE  1 \in 1..(i - 1) /\ p[1].op = "close"
      BY <1>8, <1>9, <1>13, <2>1
    <2> QED BY <2>1 DEF CloseFirst
  <1>15. Silent(p)
    BY <1>8, <1>9 DEF Silent, Writing
  <1>16. ReasonsIn(p, R)
    <2>1. p[1].fields.reason \in R
      BY <1>1, <1>2
    <2> QED BY <1>8, <1>9, <2>1 DEF ReasonsIn
  <1>17. Program(p, <<>>, R) /\ 1 \in 1..Len(p)
    BY <1>1, <1>12, <1>14, <1>15, <1>16, QuietWrites DEF Program
  <1> QED BY <1>9, <1>17 DEF p

\* The steps that set fields.
LEMMA MuteSets ==
  /\ \A state \in States \ Ended : Mute(Set([state |-> state]))
  /\ \A mode \in Modes : Mute(Set([mode |-> mode]))
  /\ \A b \in BOOLEAN : Mute(Set([paused |-> b]))
  /\ \A ms \in {0, 1} : Mute(Set([interval |-> ms]))
  /\ \A how \in FaultModes : Mute(Set([fault |-> how]))
  /\ Mute(Set([state |-> "ENDING", reason |-> "stop"]))
  /\ Mute(Set([fault |-> "now", state |-> "ERROR_PENDING"]))
  /\ Mute(Set([reason |-> "drop_connection"]))
  <1>1. \A state \in States \ Ended : Mute(Set([state |-> state]))
    BY DEF Mute, Simple, Fine, Fits, AfterClose, Set, Writing
  <1>2. \A mode \in Modes : Mute(Set([mode |-> mode]))
    BY DEF Mute, Simple, Fine, Fits, AfterClose, Set, Writing
  <1>3. \A b \in BOOLEAN : Mute(Set([paused |-> b]))
    BY DEF Mute, Simple, Fine, Fits, AfterClose, Set, Writing
  <1>4. \A ms \in {0, 1} : Mute(Set([interval |-> ms]))
    BY DEF Mute, Simple, Fine, Fits, AfterClose, Set, Writing
  <1>5. \A how \in FaultModes : Mute(Set([fault |-> how]))
    BY DEF Mute, Simple, Fine, Fits, AfterClose, Set, Writing
  <1>6. Mute(Set([state |-> "ENDING", reason |-> "stop"]))
    BY DEF Mute, Simple, Fine, Fits, AfterClose, Set, Writing, States, Ended
  <1>7. Mute(Set([fault |-> "now", state |-> "ERROR_PENDING"]))
    BY DEF Mute, Simple, Fine, Fits, AfterClose, Set, Writing, States, Ended
  <1>8. Mute(Set([reason |-> "drop_connection"]))
    BY DEF Mute, Simple, Fine, Fits, AfterClose, Set, Writing
  <1> QED BY <1>1, <1>2, <1>3, <1>4, <1>5, <1>6, <1>7, <1>8

\* Those that send a command, and the others.
LEMMA MuteActs ==
  /\ \A cmd \in Commands : Mute(Send(cmd))
  /\ \A how \in FaultModes : Mute([op |-> "spawn", how |-> how])
  /\ \A name \in {"drop_oldest", "manual", "delete_row"} : Mute(Act(name))
  <1>1. \A cmd \in Commands : Mute(Send(cmd))
    BY DEF Mute, Simple, Fine, AfterClose, Send, Writing
  <1>2. \A how \in FaultModes : Mute([op |-> "spawn", how |-> how])
    BY DEF Mute, Simple, Fine, AfterClose, Writing
  <1>3. \A name \in {"drop_oldest", "manual", "delete_row"} : Mute(Act(name))
    BY DEF Mute, Simple, Fine, AfterClose, Act, Writing, Plain
  <1> QED BY <1>1, <1>2, <1>3

\* The direct changes, which the runner makes too.
LEMMA ChangePrograms ==
  ASSUME NEW R
  PROVE  /\ Program(Pause, <<>>, R) /\ Program(Resume, <<>>, R)
         /\ Program(TakeOver, <<>>, R) /\ Program(ReturnToEcho, <<>>, R)
         /\ \A ms \in {0, 1} : Program(SetInterval(ms), <<>>, R)
  <1>1. /\ "PAUSED" \in States \ Ended /\ "ECHOING" \in States \ Ended
        /\ "MANUAL" \in States \ Ended /\ "ECHO" \in Modes /\ "MANUAL" \in Modes
    BY DEF States, Ended, Modes
  <1>2. Program(Pause, <<>>, R)
    BY <1>1, MuteSets, MuteTwo DEF Pause
  <1>3. Program(Resume, <<>>, R)
    BY <1>1, MuteSets, MuteTwo DEF Resume
  <1>4. Program(TakeOver, <<>>, R)
    BY <1>1, MuteSets, MuteTwo DEF TakeOver
  <1>5. Program(ReturnToEcho, <<>>, R)
    BY <1>1, MuteSets, MuteTwo DEF ReturnToEcho
  <1>6. \A ms \in {0, 1} : Program(SetInterval(ms), <<>>, R)
    BY MuteSets, MuteOne DEF SetInterval
  <1> QED BY <1>2, <1>3, <1>4, <1>5, <1>6

\* A step more at the end.
LEMMA AppendProgram ==
  ASSUME NEW p, NEW s, NEW R, Program(p, <<>>, R), Mute(s)
  PROVE  Program(Append(p, s), <<>>, R)
  <1>1. Program(<<s>>, <<>>, R)
    BY MuteOne
  <1>2. Program(p \o <<s>>, <<>>, R)
    BY <1>1, ProgramThen DEF Words
  <1>3. Append(p, s) = p \o <<s>>
    BY AppendIsConcat DEF Program, Fresh, Good, Prog
  <1> QED BY <1>2, <1>3

\* The commands, and what a command is.
LEMMA CommandsAre ==
  /\ \A type \in {"pause", "resume", "takeover", "return", "finish", "drop"} :
       Command(type) \in Commands
  /\ \A ms \in {0, 1} : [type |-> "interval", ms |-> ms] \in Commands
  /\ \A how \in FaultModes : [type |-> "inject", how |-> how] \in Commands
  BY DEF Commands

\* What commands there are.
LEMMA CommandTypes ==
  ASSUME NEW cmd \in Commands
  PROVE  \/ cmd.type \in {"pause", "resume", "takeover", "return", "finish", "drop"}
         \/ cmd.type = "interval" /\ cmd.ms \in {0, 1}
         \/ cmd.type = "inject" /\ cmd.how \in FaultModes
  <1>1. CASE cmd \in {Command(type) :
                       type \in {"pause", "resume", "takeover", "return", "finish", "drop"}}
    BY <1>1 DEF Command
  <1>2. CASE cmd \in {[type |-> "interval", ms |-> ms] : ms \in {0, 1}}
    BY <1>2
  <1>3. CASE cmd \in {[type |-> "inject", how |-> how] : how \in FaultModes}
    BY <1>3
  <1> QED BY <1>1, <1>2, <1>3 DEF Commands

\* sessionControl and the DELETE handlers: no administrator writes to the
\* stream, or closes the session for another reason than its deletion.
LEMMA RequestPrograms ==
  LET R == {"admin_delete"} IN
  /\ \A name \in Requests \ {"inject", "schedule"} : Program(ControlRequest(name), <<>>, R)
  /\ Program(<<Act("delete_row")>>, <<>>, R)
  /\ \A how \in FaultModes :
       Program(InjectFault(how), <<>>, R) /\ Program(SetPendingFault(how), <<>>, R)
  <1> DEFINE R == {"admin_delete"}
  <1>2. Program(ControlRequest("pause"), <<>>, R)
    BY ChangePrograms, CommandsAre, MuteActs, AppendProgram DEF ControlRequest
  <1>3. Program(ControlRequest("resume"), <<>>, R)
    BY ChangePrograms, CommandsAre, MuteActs, AppendProgram DEF ControlRequest
  <1>4. Program(ControlRequest("takeover"), <<>>, R)
    BY ChangePrograms, CommandsAre, MuteActs, AppendProgram DEF ControlRequest
  <1>5. Program(ControlRequest("return"), <<>>, R)
    BY ChangePrograms, CommandsAre, MuteActs, AppendProgram DEF ControlRequest
  <1>6. Program(ControlRequest("manual"), <<>>, R)
    BY MuteActs, MuteOne DEF ControlRequest
  <1>7. Program(ControlRequest("finish"), <<>>, R)
    BY MuteSets, MuteActs, MuteTwo, CommandsAre DEF ControlRequest, Finish
  <1>8. Program(ControlRequest("drop"), <<>>, R)
    BY MuteActs, MuteOne, CommandsAre DEF ControlRequest
  <1>9. Program(ControlRequest("fast"), <<>>, R)
    BY ChangePrograms, CommandsAre, MuteActs, AppendProgram DEF ControlRequest
  <1>10. Program(ControlRequest("slow"), <<>>, R)
    BY ChangePrograms, CommandsAre, MuteActs, AppendProgram DEF ControlRequest
  <1>11. Program(Close("ENDED", "admin_delete"), <<>>, R)
    BY CloseProgram DEF Ended, Reasons
  <1>12. Program(<<Act("delete_row")>>, <<>>, R)
    BY MuteActs, MuteOne
  <1>13. Program(ControlRequest("delete_all"), <<>>, R)
    BY <1>11 DEF ControlRequest
  <1>14. Program(ControlRequest("delete"), <<>>, R)
    BY <1>11, MuteActs, AppendProgram DEF ControlRequest
  <1>15. ASSUME NEW how \in FaultModes
         PROVE  Program(InjectFault(how), <<>>, R) /\ Program(SetPendingFault(how), <<>>, R)
    BY MuteSets, MuteActs, MuteOne, MuteTwo DEF InjectFault, SetPendingFault
  <1>16. Requests \ {"inject", "schedule"} \subseteq
           {"pause", "resume", "takeover", "return", "manual", "finish", "drop",
            "fast", "slow", "delete_all", "delete"}
    BY RunnerAssumption DEF RequestNames
  <1> QED BY <1>2, <1>3, <1>4, <1>5, <1>6, <1>7, <1>8, <1>9, <1>10, <1>12, <1>13, <1>14,
             <1>15, <1>16

\* The goroutine that InjectFault starts.
LEMMA InjectorProgram ==
  ASSUME NEW how \in FaultModes
  PROVE  Program(<<Act("delay"), Send([type |-> "inject", how |-> how])>>, <<>>,
                 {"admin_delete"})
  <1> DEFINE s == Send([type |-> "inject", how |-> how])
             p == <<Act("delay"), s>>
  <1>1. Mute(s) /\ s.op = "send"
    BY MuteActs, CommandsAre DEF Send
  <1> HIDE DEF s
  <1>2. Fine(Act("delay")) /\ Act("delay").op = "delay"
    BY DEF Fine, Act, Plain
  <1>3. Prog(p) /\ Len(p) = 2 /\ p[1] = Act("delay") /\ p[2] = s
    BY Tuples
  <1> HIDE DEF p
  <1>4. \A i \in 1..Len(p) : i \in {1, 2}
    BY <1>3
  <1>5. Fresh(p)
    BY <1>1, <1>2, <1>3, <1>4 DEF Fresh, Good, Linked, Simple, Mute
  <1>6. CloseFirst(p) /\ ReasonsIn(p, {"admin_delete"}) /\ Silent(p)
    BY <1>1, <1>2, <1>3, <1>4
       DEF CloseFirst, AfterClose, ReasonsIn, Silent, Writing, Simple, Mute
  <1> QED BY <1>5, <1>6, QuietWrites DEF Program, p, s

\* The steps that write.
LEMMA WritingSteps ==
  /\ \A kind \in {"echo", "tool", "comment", "done", "error", "malformed"} :
       Simple(Frame(kind, 0)) /\ Frame(kind, 0).op = "frame" /\ Frame(kind, 0).kind = kind
  /\ Simple(Frame("final", 2)) /\ Frame("final", 2).op = "frame"
  /\ Frame("final", 2).kind = "final"
  /\ Simple(Shut) /\ Shut.op = "shut" /\ Simple(Cut) /\ Cut.op = "cut"
  <1>1. \A kind \in {"echo", "tool", "comment", "done", "error", "malformed"} :
          Simple(Frame(kind, 0)) /\ Frame(kind, 0).op = "frame" /\ Frame(kind, 0).kind = kind
    BY DEF Simple, Fine, AfterClose, Frame
  <1>2. /\ Simple(Frame("final", 2)) /\ Frame("final", 2).op = "frame"
        /\ Frame("final", 2).kind = "final"
    BY DEF Simple, Fine, AfterClose, Frame
  <1>3. Simple(Shut) /\ Shut.op = "shut" /\ Simple(Cut) /\ Cut.op = "cut"
    BY DEF Simple, Fine, AfterClose, Shut, Cut, Act, Plain
  <1> QED BY <1>1, <1>2, <1>3

\* The endings of stream.Writer write their word from the first step.
LEMMA EndingWords ==
  /\ WritesFrom(FinishStream, 1, Finishing)
  /\ WritesFrom(Disconnect, 1, Cutting)
  /\ WritesFrom(<<Frame("error", 0), Frame("done", 0), Shut>>, 1, ErrorDone)
  /\ WritesFrom(<<Frame("error", 0), Shut>>, 1, ErrorShut)
  /\ \A kind \in {"echo", "tool", "comment"} : WritesFrom(<<Frame(kind, 0)>>, 1, Content)
  /\ WritesFrom(<<Frame("malformed", 0)>>, 1, <<"malformed">>)
  <1>1. WritesFrom(FinishStream, 1, Finishing)
    <2> DEFINE p == FinishStream
    <2>1. /\ Len(p) = 3 /\ p[1].op = "frame" /\ p[1].kind = "final"
          /\ p[2].op = "frame" /\ p[2].kind = "done" /\ p[3].op = "shut"
      BY DEF FinishStream, Frame, Shut, Act
    <2>2. Len(Finishing) = 3 /\ Finishing[1] = "final" /\ Finishing[2] = "done" /\ Finishing[3] = "shut"
      BY DEF Finishing
    <2>3. Marked(p[1], "final") /\ Marked(p[2], "done") /\ Marked(p[3], "shut")
      BY <2>1 DEF Marked
    <2> HIDE DEF p
    <2>4. \A i \in 1..3 : i = 1 \/ i = 2 \/ i = 3
      OBVIOUS
    <2>5. \A i \in 1..3 : 1 + i - 1 = i
      OBVIOUS
    <2>6. \A i \in 1..3 : Marked(p[1 + i - 1], Finishing[i])
      BY <2>2, <2>3, <2>4, <2>5
    <2> QED BY <2>1, <2>2, <2>6 DEF WritesFrom, p
  <1>2. WritesFrom(Disconnect, 1, Cutting)
    <2> DEFINE p == Disconnect
    <2>1. Len(p) = 3 /\ p[1].op = "shut" /\ p[2].op = "set" /\ p[3].op = "cut"
      BY DEF Disconnect, Set, Cut, Shut, Act
    <2>2. Len(Cutting) = 3 /\ Cutting[1] = "shut" /\ Cutting[2] = "set" /\ Cutting[3] = "cut"
      BY DEF Cutting
    <2>3. Marked(p[1], "shut") /\ Marked(p[2], "set") /\ Marked(p[3], "cut")
      BY <2>1 DEF Marked
    <2> HIDE DEF p
    <2>4. \A i \in 1..3 : i = 1 \/ i = 2 \/ i = 3
      OBVIOUS
    <2>5. \A i \in 1..3 : 1 + i - 1 = i
      OBVIOUS
    <2>6. \A i \in 1..3 : Marked(p[1 + i - 1], Cutting[i])
      BY <2>2, <2>3, <2>4, <2>5
    <2> QED BY <2>1, <2>2, <2>6 DEF WritesFrom, p
  <1>3. WritesFrom(<<Frame("error", 0), Frame("done", 0), Shut>>, 1, ErrorDone)
    <2> DEFINE p == <<Frame("error", 0), Frame("done", 0), Shut>>
    <2>1. /\ Len(p) = 3 /\ p[1].op = "frame" /\ p[1].kind = "error"
          /\ p[2].op = "frame" /\ p[2].kind = "done" /\ p[3].op = "shut"
      BY DEF Frame, Shut, Act
    <2>2. Len(ErrorDone) = 3 /\ ErrorDone[1] = "error" /\ ErrorDone[2] = "done" /\ ErrorDone[3] = "shut"
      BY DEF ErrorDone
    <2>3. Marked(p[1], "error") /\ Marked(p[2], "done") /\ Marked(p[3], "shut")
      BY <2>1 DEF Marked
    <2> HIDE DEF p
    <2>4. \A i \in 1..3 : i = 1 \/ i = 2 \/ i = 3
      OBVIOUS
    <2>5. \A i \in 1..3 : 1 + i - 1 = i
      OBVIOUS
    <2>6. \A i \in 1..3 : Marked(p[1 + i - 1], ErrorDone[i])
      BY <2>2, <2>3, <2>4, <2>5
    <2> QED BY <2>1, <2>2, <2>6 DEF WritesFrom, p
  <1>4. WritesFrom(<<Frame("error", 0), Shut>>, 1, ErrorShut)
    <2> DEFINE p == <<Frame("error", 0), Shut>>
    <2>1. Len(p) = 2 /\ p[1].op = "frame" /\ p[1].kind = "error" /\ p[2].op = "shut"
      BY DEF Frame, Shut, Act
    <2>2. Len(ErrorShut) = 2 /\ ErrorShut[1] = "error" /\ ErrorShut[2] = "shut"
      BY DEF ErrorShut
    <2>3. Marked(p[1], "error") /\ Marked(p[2], "shut")
      BY <2>1 DEF Marked
    <2> HIDE DEF p
    <2>4. \A i \in 1..2 : (i = 1 \/ i = 2) /\ 1 + i - 1 = i
      OBVIOUS
    <2>5. \A i \in 1..2 : Marked(p[1 + i - 1], ErrorShut[i])
      BY <2>2, <2>3, <2>4
    <2> QED BY <2>1, <2>2, <2>5 DEF WritesFrom, p
  <1>5. ASSUME NEW kind \in {"echo", "tool", "comment"} PROVE WritesFrom(<<Frame(kind, 0)>>, 1, Content)
    <2> DEFINE p == <<Frame(kind, 0)>>
    <2>1. Len(p) = 1 /\ p[1].op = "frame" /\ p[1].kind = kind
      BY DEF Frame
    <2>2. Len(Content) = 1 /\ Content[1] = "content" /\ Marked(p[1], "content")
      BY <2>1 DEF Content, Marked
    <2> HIDE DEF p
    <2>3. \A i \in 1..1 : i = 1 /\ 1 + i - 1 = 1
      OBVIOUS
    <2> QED BY <2>1, <2>2, <2>3 DEF WritesFrom, p
  <1>6. WritesFrom(<<Frame("malformed", 0)>>, 1, <<"malformed">>)
    <2> DEFINE p == <<Frame("malformed", 0)>>
               w == <<"malformed">>
    <2>1. Len(p) = 1 /\ p[1].op = "frame" /\ p[1].kind = "malformed"
      BY DEF Frame
    <2>2. Len(w) = 1 /\ w[1] = "malformed" /\ Marked(p[1], "malformed")
      BY <2>1 DEF Marked
    <2> HIDE DEF p, w
    <2>3. \A i \in 1..1 : i = 1 /\ 1 + i - 1 = 1
      OBVIOUS
    <2> QED BY <2>1, <2>2, <2>3 DEF WritesFrom, p, w
  <1> QED BY <1>1, <1>2, <1>3, <1>4, <1>5, <1>6

\* A program of simple steps that is all word.
LEMMA WordProgram ==
  ASSUME NEW p, Prog(p), \A i \in 1..Len(p) : Simple(p[i]), NEW w, WritesFrom(p, 1, w), NEW R
  PROVE  Program(p, w, R)
  <1>1. Writes(p, w)
    BY DEF Writes
  <1> QED BY <1>1, SimpleProgram DEF Program

\* The endings, and the single frames, as programs.
LEMMA EndingPrograms ==
  ASSUME NEW R
  PROVE  /\ Program(FinishStream, Finishing, R)
         /\ Program(Disconnect, Cutting, R)
         /\ Program(<<Frame("error", 0), Frame("done", 0), Shut>>, ErrorDone, R)
         /\ Program(<<Frame("error", 0), Shut>>, ErrorShut, R)
         /\ \A kind \in {"echo", "tool", "comment"} : Program(<<Frame(kind, 0)>>, Content, R)
  <1>1. Program(FinishStream, Finishing, R)
    <2>1. \A i \in 1..Len(FinishStream) : Simple(FinishStream[i])
      BY WritingSteps DEF FinishStream
    <2>2. Prog(FinishStream)
      BY Tuples DEF FinishStream
    <2> QED BY <2>1, <2>2, EndingWords, WordProgram
  <1>2. Program(Disconnect, Cutting, R)
    <2>1. Simple(Set([reason |-> "drop_connection"]))
      BY MuteSets DEF Mute
    <2>2. \A i \in 1..Len(Disconnect) : Simple(Disconnect[i])
      BY <2>1, WritingSteps DEF Disconnect
    <2>3. Prog(Disconnect)
      BY Tuples DEF Disconnect
    <2> QED BY <2>2, <2>3, EndingWords, WordProgram
  <1>3. Program(<<Frame("error", 0), Frame("done", 0), Shut>>, ErrorDone, R)
    <2> DEFINE p == <<Frame("error", 0), Frame("done", 0), Shut>>
    <2>1. \A i \in 1..Len(p) : Simple(p[i])
      BY WritingSteps
    <2>2. Prog(p)
      BY Tuples
    <2> QED BY <2>1, <2>2, EndingWords, WordProgram
  <1>4. Program(<<Frame("error", 0), Shut>>, ErrorShut, R)
    <2> DEFINE p == <<Frame("error", 0), Shut>>
    <2>1. \A i \in 1..Len(p) : Simple(p[i])
      BY WritingSteps
    <2>2. Prog(p)
      BY Tuples
    <2> QED BY <2>1, <2>2, EndingWords, WordProgram
  <1>5. ASSUME NEW kind \in {"echo", "tool", "comment"} PROVE Program(<<Frame(kind, 0)>>, Content, R)
    <2> DEFINE p == <<Frame(kind, 0)>>
    <2>1. \A i \in 1..Len(p) : Simple(p[i])
      BY WritingSteps
    <2>2. Prog(p)
      BY Tuples
    <2> QED BY <2>1, <2>2, EndingWords, WordProgram
  <1> QED BY <1>1, <1>2, <1>3, <1>4, <1>5

\* A program that writes, after one that does not or is all word.
LEMMA ProgramAfter ==
  ASSUME NEW p, NEW q, NEW R, NEW u \in Seq(Marks), NEW v \in Seq(Marks),
         Program(p, u, R), Program(q, v, R), WritesFrom(q, 1, v),
         NEW k \in 1..(Len(p) + 1), WritesFrom(p, k, u), k + Len(u) = Len(p) + 1
  PROVE  Program(p \o q, u \o v, R)
  <1>1. Fresh(p \o q) /\ CloseFirst(p \o q) /\ ReasonsIn(p \o q, R)
    BY JoinedFresh DEF Program
  <1>2. Writes(p \o q, u \o v)
    BY WritesAfter DEF Program, Fresh, Good
  <1> QED BY <1>1, <1>2 DEF Program

\* In particular after steps that set fields.
LEMMA AfterSets ==
  ASSUME NEW p, NEW q, NEW R, NEW v \in Seq(Marks), Program(p, <<>>, R), Program(q, v, R),
         WritesFrom(q, 1, v), \A i \in 1..Len(p) : p[i].op = "set"
  PROVE  Program(p \o q, v, R)
  <1>1. PICK u \in Seq(Marks) : u = <<>> /\ Len(u) = 0
    BY WordTypes DEF Words
  <1>2. PICK k \in 1..(Len(p) + 1) : k = Len(p) + 1
    OBVIOUS
  <1>3. WritesFrom(p, k, u) /\ k + Len(u) = Len(p) + 1
    BY <1>1, <1>2 DEF WritesFrom
  <1>4. Program(p \o q, u \o v, R)
    BY <1>1, <1>3, ProgramAfter
  <1>5. u \o v = v
    BY <1>1, WordsJoined
  <1> QED BY <1>4, <1>5

FaultWords == {ErrorDone, ErrorShut, Garbling, Cutting}

\* What an injected fault writes.
LEMMA FailProgram ==
  ASSUME NEW how \in {"close", "http_error", "malformed", "sse_error"}, NEW R
  PROVE  \E w \in FaultWords : Program(Fail(how), w, R)
  <1>1. CASE how = "close"
    BY <1>1, EndingPrograms DEF Fail, FaultWords
  <1>2. CASE how = "http_error"
    BY <1>2, EndingPrograms DEF Fail, FaultWords
  <1>3. CASE how = "sse_error"
    BY <1>3, EndingPrograms DEF Fail, FaultWords
  <1>4. CASE how = "malformed"
    <2> DEFINE p == <<Frame("malformed", 0)>>
               u == <<"malformed">>
    <2>1. \A i \in 1..Len(p) : Simple(p[i])
      BY WritingSteps
    <2>2. Prog(p) /\ Len(p) = 1
      BY Tuples
    <2>3. u \in Seq(Marks) /\ Len(u) = 1 /\ Cutting \in Seq(Marks)
      BY WordTypes DEF Marks, Words
    <2>9. u \o Cutting = Garbling
      BY WordsJoined
    <2>4. WritesFrom(p, 1, u)
      BY EndingWords
    <2>5. Program(p, u, R)
      BY <2>1, <2>2, <2>4, WordProgram
    <2>6. WritesFrom(Disconnect, 1, Cutting) /\ Program(Disconnect, Cutting, R)
      BY EndingWords, EndingPrograms
    <2>7. Fail(how) = p \o Disconnect
      BY <1>4 DEF Fail
    <2> HIDE DEF p, u
    <2>8. Program(p \o Disconnect, u \o Cutting, R)
      BY <2>2, <2>3, <2>4, <2>5, <2>6, ProgramAfter
    <2>10. Program(Fail(how), Garbling, R)
      BY <2>7, <2>8, <2>9, Zenon
    <2> QED BY <2>10 DEF FaultWords
  <1> QED BY <1>1, <1>2, <1>3, <1>4

\* What the runner does before it leaves its loop.
LEMMA ClosingPrograms ==
  /\ \A r \in FinishReasons : Program(FinishStream \o Close("ENDED", r), Finishing, {r})
  /\ Program(Disconnect \o Close("ENDED", "drop_connection"), Cutting, {"drop_connection"})
  /\ Program(Disconnect \o Close("ENDED", "resource_limit_exceeded"), Cutting,
             {"resource_limit_exceeded"})
  /\ \A how \in {"close", "http_error", "malformed", "sse_error"}, r \in FaultReasons :
       \E w \in FaultWords : Program(Fail(how) \o Close("ENDED", r), w, {r})
  /\ Program(Close("CLIENT_DISCONNECTED", "client_disconnected"), <<>>, {"client_disconnected"})
  <1>1. \A r \in Reasons : Program(Close("ENDED", r), <<>>, {r})
    BY CloseProgram DEF Ended
  <1>2. /\ FinishReasons \subseteq Reasons /\ FaultReasons \subseteq Reasons
        /\ "drop_connection" \in Reasons /\ "client_disconnected" \in Reasons
        /\ "resource_limit_exceeded" \in Reasons
    BY DEF Reasons, Telling, FaultReasons
  <1>3. Finishing \in Words /\ Cutting \in Words /\ FaultWords \subseteq Words
    BY DEF Words, FaultWords
  <1>4. ASSUME NEW r \in FinishReasons
        PROVE  Program(FinishStream \o Close("ENDED", r), Finishing, {r})
    BY <1>1, <1>2, <1>3, EndingPrograms, ProgramThen
  <1>5. ASSUME NEW r \in Reasons PROVE Program(Disconnect \o Close("ENDED", r), Cutting, {r})
    BY <1>1, <1>3, EndingPrograms, ProgramThen
  <1>6. ASSUME NEW how \in {"close", "http_error", "malformed", "sse_error"},
               NEW r \in FaultReasons
        PROVE  \E w \in FaultWords : Program(Fail(how) \o Close("ENDED", r), w, {r})
    <2>1. PICK w \in FaultWords : Program(Fail(how), w, {r})
      BY FailProgram
    <2>2. Program(Fail(how) \o Close("ENDED", r), w, {r})
      BY <1>1, <1>2, <1>3, <2>1, ProgramThen
    <2> QED BY <2>2
  <1>7. Program(Close("CLIENT_DISCONNECTED", "client_disconnected"), <<>>, {"client_disconnected"})
    BY <1>2, CloseProgram DEF Ended
  <1> QED BY <1>2, <1>4, <1>5, <1>6, <1>7

\* handleCommand.
LEMMA CommandPrograms ==
  ASSUME NEW cmd \in Commands
  PROVE  /\ ~Terminal(cmd) => Program(HandleCommand(cmd), <<>>, {})
         /\ Terminal(cmd) =>
              \/ cmd.type = "finish" /\ Program(HandleCommand(cmd), Finishing, {"finish_normally"})
              \/ cmd.type = "drop" /\ Program(HandleCommand(cmd), Cutting, {"drop_connection"})
              \/ /\ cmd.type = "inject"
                 /\ \E w \in FaultWords : Program(HandleCommand(cmd), w, {"fault_injected"})
  <1>1. CASE cmd.type \in {"pause", "resume", "takeover", "return"}
    BY <1>1, ChangePrograms DEF HandleCommand, Terminal
  <1>2. CASE cmd.type = "interval" /\ cmd.ms \in {0, 1}
    BY <1>2, ChangePrograms DEF HandleCommand, Terminal
  <1>3. CASE cmd.type = "finish"
    <2>1. HandleCommand(cmd) = FinishStream \o Close("ENDED", "finish_normally")
      BY <1>3 DEF HandleCommand
    <2>2. "finish_normally" \in FinishReasons
      BY DEF FinishReasons
    <2>3. Program(HandleCommand(cmd), Finishing, {"finish_normally"})
      BY <2>1, <2>2, ClosingPrograms
    <2> QED BY <1>3, <2>3 DEF Terminal
  <1>4. CASE cmd.type = "drop"
    <2>1. HandleCommand(cmd) = Disconnect \o Close("ENDED", "drop_connection")
      BY <1>4 DEF HandleCommand
    <2>2. Program(HandleCommand(cmd), Cutting, {"drop_connection"})
      BY <2>1, ClosingPrograms
    <2> QED BY <1>4, <2>2 DEF Terminal
  <1>5. CASE cmd.type = "inject" /\ cmd.how \in FaultModes
    <2>1. cmd.how \in {"close", "http_error", "malformed", "sse_error"}
      BY <1>5, RunnerAssumption
    <2>2. HandleCommand(cmd) = Fail(cmd.how) \o Close("ENDED", "fault_injected")
      BY <1>5 DEF HandleCommand
    <2>3. \E w \in FaultWords : Program(HandleCommand(cmd), w, {"fault_injected"})
      BY <2>1, <2>2, ClosingPrograms DEF FaultReasons
    <2> QED BY <1>5, <2>3 DEF Terminal
  <1> QED BY <1>1, <1>2, <1>3, <1>4, <1>5, CommandTypes

Closers == {"static_response", "connection_drop", "subagent_report"}

\* What Run does first.
LEMMA StartPrograms ==
  ASSUME NEW b \in Behaviors
  PROVE  /\ b \notin Closers => Program(Start(b), <<>>, {})
         /\ b = "static_response" => Program(Start(b), Answering, {"static_response"})
         /\ b = "connection_drop" => Program(Start(b), Cutting, {"connection_drop_behavior"})
         /\ b = "subagent_report" => Program(Start(b), Answering, {"subagent_echo_complete"})
  <1>1. /\ "ECHOING" \in States \ Ended /\ "MANUAL" \in States \ Ended
        /\ "ECHO" \in Modes /\ "MANUAL" \in Modes
    BY DEF States, Ended, Modes
  <1>2. Mute(Set([mode |-> "ECHO"])) /\ Mute(Set([state |-> "ECHOING"]))
    BY <1>1, MuteSets
  <1>3. \A R : Program(StartEcho, <<>>, R)
    BY <1>2, MuteTwo DEF StartEcho
  <1>4. ASSUME NEW R PROVE Program(StartEcho \o StartEcho, <<>>, R)
    BY <1>3, ProgramThen DEF Words
  <1>5. ASSUME NEW R PROVE Program(<<Set([state |-> "MANUAL"]), Set([mode |-> "MANUAL"])>>, <<>>, R)
    BY <1>1, MuteSets, MuteTwo
  <1>6. \A R : Program(<<Set([state |-> "ECHOING"])>>, <<>>, R)
    BY <1>2, MuteOne
  <1>7. ASSUME NEW r \in Reasons PROVE Program(Close("ENDED", r), <<>>, {r})
    BY CloseProgram DEF Ended
  <1>8. ASSUME b \notin Closers PROVE Program(Start(b), <<>>, {})
    <2>1. CASE b = "manual_only"
      BY <1>5, <2>1 DEF Start
    <2>2. CASE b = "hang_forever"
      BY <1>6, <2>2 DEF Start
    <2>3. CASE b = "subagent_shell"
      BY <1>4, <2>3 DEF Start
    <2>4. CASE b \in {"infinite_echo", "infinite_echo_max", "agent"}
      BY <1>3, <2>4 DEF Start
    <2> QED BY <1>8, <2>1, <2>2, <2>3, <2>4, RunnerAssumption DEF Closers
  <1>9. ASSUME NEW R PROVE Program(<<Frame("echo", 0)>> \o FinishStream, Answering, R)
    <2> DEFINE p == <<Frame("echo", 0)>>
    <2>1. Program(p, Content, R) /\ WritesFrom(p, 1, Content) /\ Len(p) = 1
      BY EndingPrograms, EndingWords
    <2>2. Content \in Seq(Marks) /\ Finishing \in Seq(Marks) /\ Len(Content) = 1
      BY WordTypes DEF Words, Content
    <2> HIDE DEF p
    <2>3. Program(p \o FinishStream, Content \o Finishing, R)
      BY <2>1, <2>2, EndingPrograms, EndingWords, ProgramAfter
    <2> QED BY <2>3, WordsJoined DEF p
  <1>10. ASSUME b = "static_response" PROVE Program(Start(b), Answering, {"static_response"})
    <2>1. Start(b) = (<<Frame("echo", 0)>> \o FinishStream) \o Close("ENDED", "static_response")
      BY <1>10 DEF Start
    <2> QED BY <1>7, <1>9, <2>1, ProgramThen DEF Words, Reasons, Telling, FinishReasons
  <1>11. ASSUME b = "connection_drop"
         PROVE  Program(Start(b), Cutting, {"connection_drop_behavior"})
    <2> DEFINE p == <<Set([state |-> "ECHOING"])>>
               R == {"connection_drop_behavior"}
    <2>1. Start(b) = (p \o Disconnect) \o Close("ENDED", "connection_drop_behavior")
      BY <1>11 DEF Start
    <2>2. Program(p, <<>>, R) /\ \A i \in 1..Len(p) : p[i].op = "set"
      BY <1>6 DEF Set
    <2> HIDE DEF p
    <2>3. Cutting \in Words /\ Cutting \in Seq(Marks)
      BY WordTypes DEF Words
    <2>4. Program(p \o Disconnect, Cutting, R)
      BY <2>2, <2>3, EndingPrograms, EndingWords, AfterSets
    <2>5. Program(Close("ENDED", "connection_drop_behavior"), <<>>, R)
      BY <1>7 DEF Reasons, Telling
    <2>6. Program((p \o Disconnect) \o Close("ENDED", "connection_drop_behavior"), Cutting, R)
      BY <2>3, <2>4, <2>5, ProgramThen
    <2> QED BY <2>1, <2>6
  <1>12. ASSUME b = "subagent_report"
         PROVE  Program(Start(b), Answering, {"subagent_echo_complete"})
    <2> DEFINE p == StartEcho \o StartEcho
               x == <<Frame("echo", 0)>>
               R == {"subagent_echo_complete"}
    <2>1. Start(b) = ((p \o x) \o FinishStream) \o Close("ENDED", "subagent_echo_complete")
      BY <1>12 DEF Start
    <2>2. Program(p, <<>>, R)
      BY <1>4
    <2>3. Prog(StartEcho)
      BY Tuples DEF StartEcho
    <2>12. ASSUME NEW i \in 1..Len(StartEcho) PROVE StartEcho[i].op = "set"
      BY DEF StartEcho, Set
    <2>4. \A i \in 1..Len(p) : p[i].op = "set"
      BY <2>3, <2>12, Joined, JoinedIndex
    <2>5. Program(x, Content, R) /\ WritesFrom(x, 1, Content) /\ Len(x) = 1
      BY EndingPrograms, EndingWords
    <2>6. /\ Content \in Seq(Marks) /\ Finishing \in Seq(Marks) /\ Answering \in Words
          /\ Len(Content) = 1
      BY WordTypes DEF Words, Content
    <2> HIDE DEF p, x
    <2>7. Program(p \o x, Content, R)
      BY <2>2, <2>4, <2>5, <2>6, AfterSets
    <2>8. PICK k \in 1..(Len(p \o x) + 1) : WritesFrom(p \o x, k, Content) /\ k + 1 = Len(p \o x) + 1
      <3> DEFINE r == p \o x
      <3>8. Prog(p) /\ Prog(x)
        BY <2>2, <2>5 DEF Program, Fresh, Good
      <3>7. /\ Len(r) = Len(p) + Len(x)
            /\ \A i \in 1..Len(p) : r[i] = p[i]
            /\ \A i \in 1..Len(x) : r[Len(p) + i] = x[i]
        BY <3>8, Joined
      <3> HIDE DEF r
      <3>1. /\ Len(r) = Len(p) + 1
            /\ \A i \in 1..Len(p) : r[i] = p[i]
            /\ r[Len(p) + 1] = x[1]
        BY <2>5, <3>7
      <3>2. PICK k \in 1..(Len(r) + 1) : k = Len(p) + 1
        BY <3>1
      <3>3. Marked(r[k], Content[1])
        BY <2>5, <2>6, <3>1, <3>2 DEF WritesFrom
      <3>4. \A i \in 1..1 : i = 1 /\ k + i - 1 = k
        BY <3>2
      <3>5. \A i \in 1..(k - 1) : r[i].op = "set"
        BY <2>4, <3>1, <3>2
      <3>6. WritesFrom(r, k, Content)
        BY <2>6, <3>1, <3>2, <3>3, <3>4, <3>5 DEF WritesFrom
      <3> QED BY <3>1, <3>2, <3>6 DEF r
    <2>9. Program((p \o x) \o FinishStream, Content \o Finishing, R)
      BY <2>6, <2>7, <2>8, EndingPrograms, EndingWords, ProgramAfter
    <2>10. Program(Close("ENDED", "subagent_echo_complete"), <<>>, R)
      BY <1>7 DEF Reasons, Telling, FinishReasons
    <2>11. Program(((p \o x) \o FinishStream) \o Close("ENDED", "subagent_echo_complete"), Answering, R)
      BY <2>6, <2>9, <2>10, ProgramThen, WordsJoined
    <2> QED BY <2>1, <2>11 DEF p, x
  <1> QED BY <1>8, <1>10, <1>11, <1>12

\* What Run does last.
LEMMA LastPrograms ==
  /\ Fresh(Persist) /\ Silent(Persist) /\ \A R : ReasonsIn(Persist, R)
  /\ Persist # <<>> /\ Persist[Len(Persist)].op = "store"
  /\ \A r \in Reasons :
       LET p == Close("ENDED", r) \o Persist IN
         Program(p, <<>>, {r}) /\ p # <<>> /\ p[Len(p)].op = "store"
  /\ <<>> \o Persist = Persist
  <1>1. /\ Prog(Persist) /\ Len(Persist) = 2
        /\ Persist[1].op = "snapshot" /\ Persist[2].op = "store"
    BY Tuples DEF Persist, Act
  <1>2. Fine(Persist[1]) /\ Fine(Persist[2])
    BY DEF Persist, Fine, Act, Plain
  <1>3. \A i \in 1..Len(Persist) : i = 1 \/ i = 2
    BY <1>1
  <1>4. Fresh(Persist)
    BY <1>1, <1>2, <1>3 DEF Fresh, Good, Linked
  <1>5. Silent(Persist) /\ \A R : ReasonsIn(Persist, R)
    BY <1>1, <1>3 DEF Silent, ReasonsIn, Writing
  <1>6. ASSUME NEW r \in Reasons
        PROVE  LET p == Close("ENDED", r) \o Persist IN
                 Program(p, <<>>, {r}) /\ p # <<>> /\ p[Len(p)].op = "store"
    <2> DEFINE c == Close("ENDED", r)
    <2>1. Program(c, <<>>, {r}) /\ \E j \in 1..Len(c) : c[j].op = "close"
      BY CloseProgram DEF Ended
    <2> HIDE DEF c
    <2>2. Fresh(c \o Persist) /\ CloseFirst(c \o Persist) /\ ReasonsIn(c \o Persist, {r})
      BY <1>4, <1>5, <2>1, JoinedFresh DEF Program
    <2>3. Writes(c \o Persist, <<>>)
      BY <1>1, <1>5, <2>1, WritesJoined, WordTypes DEF Program, Fresh, Good, Words
    <2>6. Prog(c) /\ Prog(Persist)
      BY <1>1, <2>1 DEF Program, Fresh, Good
    <2>4. /\ Len(c \o Persist) = Len(c) + Len(Persist)
          /\ \A i \in 1..Len(Persist) : (c \o Persist)[Len(c) + i] = Persist[i]
      BY <2>6, Joined
    <2>5. /\ c \o Persist # <<>>
          /\ (c \o Persist)[Len(c \o Persist)].op = "store"
      BY <1>1, <2>4
    <2> QED BY <2>2, <2>3, <2>5 DEF Program, c
  <1>7. <<>> \o Persist = Persist
    BY <1>1, ConcatEmptySeq DEF Prog
  <1> QED BY <1>1, <1>4, <1>5, <1>6, <1>7

-----------------------------------------------------------------------------
(***************************************************************************)
(* What a program leaves the loop to see.  The runner looks at the session *)
(* when a command comes or the session is closed: a change of the state    *)
(* needs one of the two behind it, in the same program or one it spawns.   *)
(***************************************************************************)
\* A step that leaves the loop something to see: a command, or that the session is closed.
Brings(s) ==
  \/ s.op \in {"send", "resend", "spawn"}
  \/ s.op = "set" /\ "done" \in DOMAIN s.fields

\* A step after which the loop has yet to learn something.
Owing(s) ==
  \/ s.op \in {"close", "drop_oldest"}
  \/ s.op = "set" /\ "state" \in DOMAIN s.fields

\* After its first n steps p is going to, whoever else closes the session.
BringsFrom(p, n) ==
  \E j \in (n + 1)..Len(p) : Brings(p[j]) /\ \A k \in (n + 1)..(j - 1) : p[k].op # "close"

Followed(p) == \A i \in 1..Len(p) : Owing(p[i]) => BringsFrom(p, i)

\* A step that does not pause, nor open what was closed.
Meek(s) ==
  /\ s.op = "set" => /\ "state" \in DOMAIN s.fields => s.fields.state # "PAUSED"
                     /\ "done" \in DOMAIN s.fields => s.fields.done = TRUE
  /\ s.op \in {"send", "resend"} => s.cmd.type # "pause"

Meekly(p) == \A i \in 1..Len(p) : Meek(p[i])

\* What is left of a program brings what the program would have brought.
LEMMA DroppedBrings ==
  ASSUME NEW p, NEW q, NEW n \in Nat, Prog(p), Dropped(p, q, n)
  PROVE  /\ \A i \in Nat : BringsFrom(p, n + i) => BringsFrom(q, i)
         /\ Followed(p) => Followed(q)
         /\ Meekly(p) => Meekly(q)
  <1>1. /\ Len(p) \in Nat /\ Len(q) \in Nat /\ (n <= Len(p) => Len(q) = Len(p) - n)
        /\ \A i \in 1..Len(q) : i + n \in 1..Len(p) /\ q[i] = p[i + n]
    BY DEF Dropped
  <1>2. ASSUME NEW i \in Nat, BringsFrom(p, n + i) PROVE BringsFrom(q, i)
    <2>1. PICK j \in ((n + i) + 1)..Len(p) :
            Brings(p[j]) /\ \A k \in ((n + i) + 1)..(j - 1) : p[k].op # "close"
      BY <1>2 DEF BringsFrom
    <2>2. j - n \in (i + 1)..Len(q) /\ j - n \in 1..Len(q) /\ (j - n) + n = j
      BY <1>1, <2>1
    <2>3. q[j - n] = p[j]
      BY <1>1, <2>2
    <2>4. ASSUME NEW k \in (i + 1)..((j - n) - 1) PROVE q[k].op # "close"
      <3>1. k + n \in ((n + i) + 1)..(j - 1) /\ k \in 1..Len(q)
        BY <1>1, <2>2
      <3> QED BY <1>1, <2>1, <3>1
    <2> QED BY <2>1, <2>2, <2>3, <2>4 DEF BringsFrom
  <1>3. ASSUME Followed(p), NEW i \in 1..Len(q), Owing(q[i]) PROVE BringsFrom(q, i)
    <2>1. i + n \in 1..Len(p) /\ Owing(p[i + n]) /\ i \in Nat /\ i + n = n + i
      BY <1>1, <1>3
    <2>2. BringsFrom(p, n + i)
      BY <1>3, <2>1 DEF Followed
    <2> QED BY <1>2, <2>1, <2>2
  <1>4. Meekly(p) => Meekly(q)
    BY <1>1 DEF Meekly
  <1> QED BY <1>2, <1>3, <1>4 DEF Followed

\* So do two programs that follow each other.
LEMMA JoinedBrings ==
  ASSUME NEW p, NEW q, Prog(p), Prog(q)
  PROVE  /\ \A i \in Nat : BringsFrom(p, i) => BringsFrom(p \o q, i)
         /\ Followed(p) /\ Followed(q) => Followed(p \o q)
         /\ Meekly(p) /\ Meekly(q) => Meekly(p \o q)
  <1> DEFINE r == p \o q
  <1>1. /\ Prog(r) /\ Len(r) = Len(p) + Len(q)
        /\ \A i \in 1..Len(p) : r[i] = p[i]
        /\ \A i \in 1..Len(q) : r[Len(p) + i] = q[i]
    BY Joined
  <1>2. Len(p) \in Nat /\ Len(q) \in Nat
    BY DEF Prog
  <1> HIDE DEF r
  <1>3. ASSUME NEW i \in Nat, BringsFrom(p, i) PROVE BringsFrom(r, i)
    <2>1. PICK j \in (i + 1)..Len(p) : Brings(p[j]) /\ \A k \in (i + 1)..(j - 1) : p[k].op # "close"
      BY <1>3 DEF BringsFrom
    <2>2. j \in (i + 1)..Len(r) /\ r[j] = p[j]
      BY <1>1, <1>2
    <2>3. \A k \in (i + 1)..(j - 1) : r[k] = p[k]
      BY <1>1, <1>2
    <2> QED BY <2>1, <2>2, <2>3 DEF BringsFrom
  <1>4. ASSUME Followed(p), Followed(q) PROVE Followed(r)
    <2>1. ASSUME NEW i \in 1..Len(r), Owing(r[i]) PROVE BringsFrom(r, i)
      <3>1. CASE i \in 1..Len(p)
        <4>1. BringsFrom(p, i)
          BY <1>1, <1>4, <2>1, <3>1 DEF Followed
        <4> QED BY <1>3, <4>1
      <3>2. ASSUME NEW m \in 1..Len(q), i = Len(p) + m PROVE BringsFrom(r, i)
        <4>1. Owing(q[m])
          BY <1>1, <2>1, <3>2
        <4>2. PICK j \in (m + 1)..Len(q) :
                Brings(q[j]) /\ \A k \in (m + 1)..(j - 1) : q[k].op # "close"
          BY <1>4, <4>1 DEF Followed, BringsFrom
        <4>3. Len(p) + j \in (i + 1)..Len(r) /\ r[Len(p) + j] = q[j]
          BY <1>1, <1>2, <3>2
        <4>4. ASSUME NEW k \in (i + 1)..((Len(p) + j) - 1) PROVE r[k].op # "close"
          <5>1. k - Len(p) \in (m + 1)..(j - 1) /\ k - Len(p) \in 1..Len(q)
                  /\ Len(p) + (k - Len(p)) = k
            BY <1>2, <3>2
          <5>2. r[k] = q[k - Len(p)]
            BY <1>1, <5>1
          <5> QED BY <4>2, <5>1, <5>2
        <4> QED BY <4>2, <4>3, <4>4 DEF BringsFrom
      <3> QED BY <1>1, <3>1, <3>2, JoinedIndex
    <2> QED BY <2>1 DEF Followed
  <1>5. ASSUME Meekly(p), Meekly(q) PROVE Meekly(r)
    <2>1. ASSUME NEW i \in 1..Len(r) PROVE Meek(r[i])
      <3>1. CASE i \in 1..Len(p)
        BY <1>1, <1>5, <3>1 DEF Meekly
      <3>2. ASSUME NEW j \in 1..Len(q), i = Len(p) + j PROVE Meek(r[i])
        BY <1>1, <1>5, <3>2 DEF Meekly
      <3> QED BY <1>1, <3>1, <3>2, JoinedIndex
    <2> QED BY <2>1 DEF Meekly
  <1> QED BY <1>3, <1>4, <1>5 DEF r

\* The first step of such a program brings it, or the rest does.
LEMMA NextBrings ==
  ASSUME NEW p, Prog(p), BringsFrom(p, 0)
  PROVE  /\ p # <<>>
         /\ ~Brings(p[1]) => p[1].op # "close" /\ BringsFrom(p, 1)
  <1>1. PICK j \in 1..Len(p) : Brings(p[j]) /\ \A k \in 1..(j - 1) : p[k].op # "close"
    BY DEF BringsFrom
  <1>2. ASSUME ~Brings(p[1]) PROVE p[1].op # "close" /\ BringsFrom(p, 1)
    <2>1. j \in (1 + 1)..Len(p) /\ 1 \in 1..(j - 1)
      BY <1>1, <1>2
    <2>2. \A k \in (1 + 1)..(j - 1) : p[k].op # "close"
      BY <1>1
    <2> QED BY <1>1, <2>1, <2>2 DEF BringsFrom
  <1> QED BY <1>1, <1>2

\* Programs of administrators that send a command at last.
LEMMA EndsBringing ==
  ASSUME NEW p, Prog(p), p # <<>>, \A i \in 1..Len(p) : p[i].op # "close",
         Brings(p[Len(p)]), ~Owing(p[Len(p)])
  PROVE  Followed(p)
  <1>1. Len(p) \in Nat \ {0}
    BY DEF Prog
  <1>2. ASSUME NEW i \in 1..Len(p), Owing(p[i]) PROVE BringsFrom(p, i)
    <2>1. Len(p) \in (i + 1)..Len(p)
      BY <1>1, <1>2
    <2>2. \A k \in (i + 1)..(Len(p) - 1) : k \in 1..Len(p)
      BY <1>1
    <2> QED BY <2>1, <2>2 DEF BringsFrom
  <1> QED BY <1>2 DEF Followed

\* What the changes and the closing of a session consist of.
LEMMA MeekChanges ==
  /\ \A p \in {Resume, TakeOver, ReturnToEcho, SetInterval(0), SetInterval(1)} :
       Prog(p) /\ Meekly(p) /\ \A i \in 1..Len(p) : p[i].op = "set"
  /\ \A state, reason :
       LET p == Close(state, reason) IN Prog(p) /\ Meekly(p) /\ Followed(p)
  <1>2. ASSUME NEW a, NEW b, a.op = "set", b.op = "set", Meek(a), Meek(b)
        PROVE  LET p == <<a, b>> IN
                 Prog(p) /\ Meekly(p) /\ \A i \in 1..Len(p) : p[i].op = "set"
    <2>1. \A i \in 1..Len(<<a, b>>) : <<a, b>>[i] = a \/ <<a, b>>[i] = b
      OBVIOUS
    <2> QED BY <1>2, <2>1, Tuples DEF Meekly
  <1>3. ASSUME NEW a, a.op = "set", Meek(a)
        PROVE  LET p == <<a>> IN
                 Prog(p) /\ Meekly(p) /\ \A i \in 1..Len(p) : p[i].op = "set"
    <2>1. \A i \in 1..Len(<<a>>) : <<a>>[i] = a
      OBVIOUS
    <2> QED BY <1>3, <2>1, Tuples DEF Meekly
  <1>4. \A v : \A f \in {[paused |-> v], [mode |-> v], [interval |-> v]} :
          Set(f).op = "set" /\ Meek(Set(f))
    BY DEF Set, Meek
  <1>5. \A v : v # "PAUSED" => Set([state |-> v]).op = "set" /\ Meek(Set([state |-> v]))
    BY DEF Set, Meek
  <1>6. \A p \in {Resume, TakeOver, ReturnToEcho} :
          Prog(p) /\ Meekly(p) /\ \A i \in 1..Len(p) : p[i].op = "set"
    <2>1. \A v : /\ Set([paused |-> v]).op = "set" /\ Meek(Set([paused |-> v]))
                 /\ Set([mode |-> v]).op = "set" /\ Meek(Set([mode |-> v]))
      BY <1>4
    <2> DEFINE Plainly(p) == Prog(p) /\ Meekly(p) /\ \A i \in 1..Len(p) : p[i].op = "set"
    <2>2. \A a, b : a.op = "set" /\ b.op = "set" /\ Meek(a) /\ Meek(b) => Plainly(<<a, b>>)
      BY <1>2
    <2> HIDE DEF Plainly
    <2>3. "ECHOING" # "PAUSED" /\ "MANUAL" # "PAUSED"
      OBVIOUS
    <2>4. Plainly(Resume)
      BY <1>5, <2>1, <2>2, <2>3 DEF Resume
    <2>5. Plainly(TakeOver)
      BY <1>5, <2>1, <2>2, <2>3 DEF TakeOver
    <2>6. Plainly(ReturnToEcho)
      BY <1>5, <2>1, <2>2, <2>3 DEF ReturnToEcho
    <2> QED BY <2>4, <2>5, <2>6 DEF Plainly
  <1>7. \A ms : LET p == SetInterval(ms) IN
          Prog(p) /\ Meekly(p) /\ \A i \in 1..Len(p) : p[i].op = "set"
    <2>1. \A v : Set([interval |-> v]).op = "set" /\ Meek(Set([interval |-> v]))
      BY <1>4
    <2> QED BY <1>3, <2>1 DEF SetInterval
  <1>8. ASSUME NEW state, NEW reason
        PROVE  LET p == Close(state, reason) IN Prog(p) /\ Meekly(p) /\ Followed(p)
    <2> DEFINE c == [op |-> "close", fields |-> [state |-> state, reason |-> reason, ended |-> TRUE]]
               p == Close(state, reason)
               S == {c, Set([done |-> TRUE]), Act("snapshot"), Act("store"),
                     Set([paused |-> FALSE]), Set([once |-> "over"])}
    <2>1. /\ Len(p) = 6 /\ p[1] = c /\ p[2] = Set([done |-> TRUE]) /\ p[3] = Act("snapshot")
          /\ p[4] = Act("store") /\ p[5] = Set([paused |-> FALSE])
          /\ p[6] = Set([once |-> "over"]) /\ p \in Seq(S)
      BY DEF Close
    <2>2. Meek(c)
      BY DEF Meek
    <2>3. \A s \in {Act("snapshot"), Act("store"), Set([paused |-> FALSE]), Set([once |-> "over"])} :
            Meek(s) /\ ~Owing(s)
      BY DEF Meek, Owing, Set, Act
    <2>4. Meek(Set([done |-> TRUE])) /\ ~Owing(Set([done |-> TRUE])) /\ Brings(Set([done |-> TRUE]))
      BY DEF Meek, Owing, Brings, Set
    <2>5. Prog(p)
      BY <2>1, SeqProg
    <2> HIDE DEF c, p, S
    <2>6. \A i \in 1..Len(p) : i \in {1, 2, 3, 4, 5, 6}
      BY <2>1
    <2>7. Meekly(p)
      BY <2>1, <2>2, <2>3, <2>4, <2>6 DEF Meekly
    <2>8. BringsFrom(p, 1)
      <3>1. 2 \in (1 + 1)..Len(p) /\ Brings(p[2]) /\ \A k \in (1 + 1)..(2 - 1) : p[k].op # "close"
        BY <2>1, <2>4
      <3> QED BY <3>1 DEF BringsFrom
    <2>9. \A i \in 1..Len(p) : i = 1 \/ ~Owing(p[i])
      BY <2>1, <2>3, <2>4, <2>6
    <2> QED BY <2>5, <2>7, <2>8, <2>9 DEF Followed, p
  <1> QED BY <1>6, <1>7, <1>8

\* A change of the session, and the command for it.
LEMMA ChangeThenSend ==
  ASSUME NEW p, Prog(p), Meekly(p), \A i \in 1..Len(p) : p[i].op = "set",
         NEW cmd, cmd.type # "pause"
  PROVE  LET q == Append(p, Send(cmd)) IN Followed(q) /\ Meekly(q)
  <1> DEFINE s == Send(cmd)
             q == Append(p, s)
  <1>1. s.op = "send" /\ Meek(s) /\ Brings(s) /\ ~Owing(s)
    BY DEF Send, Meek, Brings, Owing
  <1> HIDE DEF s
  <1>2. q = p \o <<s>>
    BY AppendIsConcat DEF Prog
  <1>3. /\ Prog(q) /\ Len(q) = Len(p) + 1 /\ \A i \in 1..Len(p) : q[i] = p[i]
        /\ q[Len(p) + 1] = s
    <2>1. Prog(<<s>>) /\ Len(<<s>>) = 1 /\ <<s>>[1] = s
      BY Tuples
    <2> QED BY <1>2, <2>1, Joined
  <1> HIDE DEF q
  <1>4. \A i \in 1..Len(q) : i \in 1..Len(p) \/ i = Len(p) + 1
    BY <1>3 DEF Prog
  <1>5. Meekly(q) /\ \A i \in 1..Len(q) : q[i].op # "close"
    BY <1>1, <1>3, <1>4 DEF Meekly
  <1>6. q # <<>>
    BY <1>3 DEF Prog
  <1>7. Followed(q)
    BY <1>1, <1>3, <1>5, <1>6, EndsBringing
  <1> QED BY <1>5, <1>7 DEF q, s

\* A step that owes nothing, and one or two of which the last brings.
LEMMA FewBring ==
  /\ \A s : Meek(s) /\ ~Owing(s) => Followed(<<s>>) /\ Meekly(<<s>>)
  /\ \A s, t : Meek(s) /\ Meek(t) /\ s.op # "close" /\ t.op # "close" /\ Brings(t) /\ ~Owing(t)
                 => Followed(<<s, t>>) /\ Meekly(<<s, t>>)
  <1>1. ASSUME NEW s, Meek(s), ~Owing(s) PROVE Followed(<<s>>) /\ Meekly(<<s>>)
    <2>1. \A i \in 1..Len(<<s>>) : <<s>>[i] = s
      OBVIOUS
    <2> QED BY <1>1, <2>1 DEF Followed, Meekly
  <1>2. ASSUME NEW s, NEW t, Meek(s), Meek(t), s.op # "close", t.op # "close", Brings(t), ~Owing(t)
        PROVE  Followed(<<s, t>>) /\ Meekly(<<s, t>>)
    <2> DEFINE p == <<s, t>>
    <2>1. Prog(p) /\ Len(p) = 2 /\ p[1] = s /\ p[2] = t
      BY Tuples
    <2> HIDE DEF p
    <2>2. \A i \in 1..Len(p) : i = 1 \/ i = 2
      BY <2>1
    <2>3. Meekly(p) /\ \A i \in 1..Len(p) : p[i].op # "close"
      BY <1>2, <2>1, <2>2 DEF Meekly
    <2>4. p # <<>>
      BY <2>1
    <2>5. Followed(p)
      BY <1>2, <2>1, <2>3, <2>4, EndsBringing
    <2> QED BY <2>3, <2>5 DEF p
  <1> QED BY <1>1, <1>2

\* Every request that does not pause brings what its changes owe the loop.
LEMMA RequestsFollowed ==
  ASSUME "pause" \notin Requests
  PROVE  /\ \A name \in Requests \ {"inject", "schedule"} :
              Followed(ControlRequest(name)) /\ Meekly(ControlRequest(name))
         /\ LET p == <<Act("delete_row")>> IN Followed(p) /\ Meekly(p)
         /\ \A how \in FaultModes :
              /\ Followed(InjectFault(how)) /\ Meekly(InjectFault(how))
              /\ Followed(SetPendingFault(how)) /\ Meekly(SetPendingFault(how))
              /\ LET p == <<Act("delay"), Send([type |-> "inject", how |-> how])>> IN
                   Followed(p) /\ Meekly(p) /\ BringsFrom(p, 0)
  <1> DEFINE Leads(p) == Followed(p) /\ Meekly(p)
  <1>1. ASSUME NEW p \in {Resume, TakeOver, ReturnToEcho, SetInterval(0), SetInterval(1)},
               NEW cmd, cmd.type # "pause"
        PROVE  Leads(Append(p, Send(cmd)))
    <2>1. Prog(p) /\ Meekly(p) /\ \A i \in 1..Len(p) : p[i].op = "set"
      BY MeekChanges
    <2> QED BY <1>1, <2>1, ChangeThenSend
  <1>2. /\ \A type : Command(type).type = type
        /\ \A ms : [type |-> "interval", ms |-> ms].type = "interval"
    BY DEF Command
  <1>3. Leads(ControlRequest("resume")) /\ Leads(ControlRequest("takeover"))
    BY <1>1, <1>2 DEF ControlRequest
  <1>4. Leads(ControlRequest("return"))
    BY <1>1, <1>2 DEF ControlRequest
  <1>5. Leads(ControlRequest("fast")) /\ Leads(ControlRequest("slow"))
    BY <1>1, <1>2 DEF ControlRequest
  <1>6. /\ Meek(Act("manual")) /\ ~Owing(Act("manual")) /\ Meek(Act("delete_row"))
        /\ ~Owing(Act("delete_row"))
    BY DEF Meek, Owing, Act
  <1>7. Leads(<<Act("manual")>>) /\ Leads(<<Act("delete_row")>>)
    BY <1>6, FewBring
  <1>8. ASSUME NEW cmd, cmd.type # "pause"
        PROVE  /\ Meek(Send(cmd)) /\ ~Owing(Send(cmd)) /\ Brings(Send(cmd))
               /\ Send(cmd).op = "send"
    BY <1>8 DEF Meek, Owing, Brings, Send
  <1>9. Leads(ControlRequest("finish"))
    <2>1. LET s == Set([state |-> "ENDING", reason |-> "stop"]) IN Meek(s) /\ s.op = "set"
      BY DEF Meek, Set
    <2> QED BY <1>2, <1>8, <2>1, FewBring DEF ControlRequest, Finish
  <1>10. Leads(ControlRequest("drop"))
    BY <1>2, <1>8, FewBring DEF ControlRequest
  <1>11. Leads(ControlRequest("delete_all")) /\ Leads(ControlRequest("delete"))
    <2> DEFINE c == Close("ENDED", "admin_delete")
               d == <<Act("delete_row")>>
    <2>1. Prog(c) /\ Leads(c) /\ Prog(d)
      BY MeekChanges, Tuples
    <2> HIDE DEF c, d
    <2>2. Leads(c \o d)
      BY <1>7, <2>1, JoinedBrings DEF d
    <2>3. Append(c, Act("delete_row")) = c \o <<Act("delete_row")>>
      BY <2>1, AppendIsConcat DEF Prog
    <2> QED BY <2>1, <2>2, <2>3 DEF ControlRequest, c, d
  <1>12. Requests \ {"inject", "schedule"} \subseteq
           {"resume", "takeover", "return", "manual", "finish", "drop", "fast", "slow",
            "delete_all", "delete"}
    BY RunnerAssumption DEF RequestNames
  <1>13. Leads(ControlRequest("manual"))
    BY <1>7 DEF ControlRequest
  <1>14. ASSUME NEW how PROVE Leads(InjectFault(how)) /\ Leads(SetPendingFault(how))
    <2>1. LET s == Set([fault |-> "now", state |-> "ERROR_PENDING"])
              t == [op |-> "spawn", how |-> how] IN
            Meek(s) /\ s.op = "set" /\ Meek(t) /\ t.op = "spawn" /\ Brings(t) /\ ~Owing(t)
      BY DEF Meek, Set, Brings, Owing
    <2>2. Meek(Set([fault |-> how])) /\ ~Owing(Set([fault |-> how]))
      BY DEF Meek, Owing, Set
    <2> QED BY <2>1, <2>2, FewBring DEF InjectFault, SetPendingFault
  <1>15. ASSUME NEW how
         PROVE  LET p == <<Act("delay"), Send([type |-> "inject", how |-> how])>> IN
                  Leads(p) /\ BringsFrom(p, 0)
    <2> DEFINE s == Act("delay")
               t == Send([type |-> "inject", how |-> how])
               p == <<s, t>>
    <2>1. Meek(s) /\ s.op = "delay"
      BY DEF Meek, Act
    <2>2. Meek(t) /\ ~Owing(t) /\ Brings(t) /\ t.op = "send"
      BY <1>8
    <2> HIDE DEF s, t
    <2>3. Leads(p)
      BY <2>1, <2>2, FewBring
    <2>4. Len(p) = 2 /\ p[1] = s /\ p[2] = t
      OBVIOUS
    <2> HIDE DEF p
    <2>5. 2 \in (0 + 1)..Len(p) /\ Brings(p[2]) /\ \A k \in (0 + 1)..(2 - 1) : p[k].op # "close"
      BY <2>1, <2>2, <2>4
    <2>6. BringsFrom(p, 0)
      BY <2>5 DEF BringsFrom
    <2> QED BY <2>3, <2>6 DEF p, s, t
  <1> HIDE DEF Leads
  <1>16. \A name \in Requests \ {"inject", "schedule"} : Leads(ControlRequest(name))
    BY <1>3, <1>4, <1>5, <1>9, <1>10, <1>11, <1>12, <1>13
  <1> QED BY <1>7, <1>14, <1>15, <1>16 DEF Leads

\* The runner sends no commands.
Own(s) == s.op \notin {"send", "resend", "drop_oldest", "spawn"}

Bland(p) == Prog(p) /\ \A i \in 1..Len(p) : Own(p[i]) /\ Meek(p[i])

\* Two such programs make one.
LEMMA BlandJoined ==
  ASSUME NEW p, NEW q, Bland(p), Bland(q)
  PROVE  Bland(p \o q)
  <1> DEFINE r == p \o q
  <1>1. /\ Prog(r) /\ Len(r) = Len(p) + Len(q)
        /\ \A i \in 1..Len(p) : r[i] = p[i]
        /\ \A i \in 1..Len(q) : r[Len(p) + i] = q[i]
    BY Joined DEF Bland
  <1> HIDE DEF r
  <1>2. ASSUME NEW i \in 1..Len(r) PROVE Own(r[i]) /\ Meek(r[i])
    <2>1. CASE i \in 1..Len(p)
      BY <1>1, <2>1 DEF Bland
    <2>2. ASSUME NEW j \in 1..Len(q), i = Len(p) + j PROVE Own(r[i]) /\ Meek(r[i])
      BY <1>1, <2>2 DEF Bland
    <2> QED BY <1>1, <2>1, <2>2, JoinedIndex
  <1> QED BY <1>1, <1>2 DEF Bland, r

\* Programs of a few steps, of the changes, and of the endings.
LEMMA BlandPrograms ==
  /\ Bland(<<>>) /\ Bland(Persist) /\ Bland(StartEcho)
  /\ \A kind : Bland(<<Frame(kind, 0)>>)
  /\ \A v : v # "PAUSED" => Bland(<<Set([state |-> v])>>)
  /\ Bland(<<Set([state |-> "MANUAL"]), Set([mode |-> "MANUAL"])>>)
  /\ Bland(Resume) /\ Bland(TakeOver) /\ Bland(ReturnToEcho)
  /\ \A ms : Bland(SetInterval(ms))
  /\ \A state, reason : Bland(Close(state, reason))
  /\ Bland(FinishStream) /\ Bland(Disconnect)
  /\ \A how \in {"close", "http_error", "malformed", "sse_error"} : Bland(Fail(how))
  <1> DEFINE B(s) == Own(s) /\ Meek(s)
  <1>1. \A v : B(Set([paused |-> v])) /\ B(Set([mode |-> v])) /\ B(Set([interval |-> v]))
    BY DEF Own, Meek, Set
  <1>2. \A v : B(Set([reason |-> v])) /\ B(Set([once |-> v])) /\ B(Set([done |-> TRUE]))
    BY DEF Own, Meek, Set
  <1>3. \A v : v # "PAUSED" => B(Set([state |-> v]))
    BY DEF Own, Meek, Set
  <1>4. \A kind, skip : B(Frame(kind, skip))
    BY DEF Own, Meek, Frame
  <1>5. \A name \in {"snapshot", "store", "shut", "cut"} : B(Act(name))
    BY DEF Own, Meek, Act
  <1>6. \A f : B([op |-> "close", fields |-> f])
    BY DEF Own, Meek
  <1> HIDE DEF B
  <1>7. ASSUME NEW a, B(a) PROVE Bland(<<a>>)
    <2>1. \A i \in 1..Len(<<a>>) : <<a>>[i] = a
      OBVIOUS
    <2> QED BY <1>7, <2>1, Tuples DEF Bland, B
  <1>8. ASSUME NEW a, NEW b, B(a), B(b) PROVE Bland(<<a, b>>)
    <2>1. \A i \in 1..Len(<<a, b>>) : <<a, b>>[i] = a \/ <<a, b>>[i] = b
      OBVIOUS
    <2> QED BY <1>8, <2>1, Tuples DEF Bland, B
  <1>9. ASSUME NEW a, NEW b, NEW c, B(a), B(b), B(c) PROVE Bland(<<a, b, c>>)
    <2>1. \A i \in 1..Len(<<a, b, c>>) :
            <<a, b, c>>[i] = a \/ <<a, b, c>>[i] = b \/ <<a, b, c>>[i] = c
      OBVIOUS
    <2> QED BY <1>9, <2>1, Tuples DEF Bland, B
  <1>10. Bland(<<>>)
    <2>1. \A i \in 1..Len(<<>>) : FALSE
      OBVIOUS
    <2> QED BY <2>1, Tuples DEF Bland
  <1>11. Bland(Persist)
    BY <1>5, <1>8 DEF Persist
  <1>12. Bland(StartEcho)
    BY <1>1, <1>3, <1>8 DEF StartEcho
  <1>13. \A kind : Bland(<<Frame(kind, 0)>>)
    BY <1>4, <1>7
  <1>14. \A v : v # "PAUSED" => Bland(<<Set([state |-> v])>>)
    BY <1>3, <1>7
  <1>15. Bland(<<Set([state |-> "MANUAL"]), Set([mode |-> "MANUAL"])>>)
    BY <1>1, <1>3, <1>8
  <1>16. Bland(Resume) /\ Bland(TakeOver)
    BY <1>1, <1>3, <1>8 DEF Resume, TakeOver
  <1>17. Bland(ReturnToEcho) /\ \A ms : Bland(SetInterval(ms))
    BY <1>1, <1>3, <1>7, <1>8 DEF ReturnToEcho, SetInterval
  <1>18. Bland(FinishStream)
    BY <1>4, <1>5, <1>9 DEF FinishStream, Shut
  <1>19. Bland(Disconnect)
    BY <1>2, <1>5, <1>9 DEF Disconnect, Shut, Cut
  <1>20. ASSUME NEW state, NEW reason PROVE Bland(Close(state, reason))
    <2> DEFINE c == [op |-> "close", fields |-> [state |-> state, reason |-> reason, ended |-> TRUE]]
               p == Close(state, reason)
               S == {c, Set([done |-> TRUE]), Act("snapshot"), Act("store"),
                     Set([paused |-> FALSE]), Set([once |-> "over"])}
    <2>1. \A s \in S : B(s)
      BY <1>1, <1>2, <1>5, <1>6
    <2>2. p \in Seq(S)
      BY DEF Close
    <2> HIDE DEF p, S
    <2>3. Prog(p) /\ \A i \in 1..Len(p) : p[i] \in S
      BY <2>2, SeqProg, ElementOfSeq
    <2>4. Bland(p)
      BY <2>1, <2>3 DEF Bland, B
    <2> QED BY <2>4 DEF p
  <1>21. ASSUME NEW how \in {"close", "http_error", "malformed", "sse_error"} PROVE Bland(Fail(how))
    <2>1. CASE how = "close"
      BY <1>19, <2>1 DEF Fail
    <2>2. CASE how = "http_error"
      BY <1>4, <1>5, <1>9, <2>2 DEF Fail, Shut
    <2>3. CASE how = "sse_error"
      BY <1>4, <1>5, <1>8, <2>3 DEF Fail, Shut
    <2>4. CASE how = "malformed"
      BY <1>13, <1>19, <2>4, BlandJoined DEF Fail
    <2> QED BY <2>1, <2>2, <2>3, <2>4
  <1> QED BY <1>10, <1>11, <1>12, <1>13, <1>14, <1>15, <1>16, <1>17, <1>18, <1>19, <1>20, <1>21

\* The runner's part of every command but a pause, and of every behaviour.
LEMMA BlandCommands ==
  /\ \A cmd \in Commands : cmd.type # "pause" => Bland(HandleCommand(cmd))
  /\ \A b \in Behaviors : Bland(Start(b))
  <1>1. ASSUME NEW cmd \in Commands, cmd.type # "pause" PROVE Bland(HandleCommand(cmd))
    <2>1. CASE cmd.type \in {"resume", "takeover", "return"}
      BY <2>1, BlandPrograms DEF HandleCommand
    <2>2. CASE cmd.type = "interval"
      BY <2>2, BlandPrograms DEF HandleCommand
    <2>3. CASE cmd.type \in {"finish", "drop"}
      BY <2>3, BlandPrograms, BlandJoined DEF HandleCommand
    <2>4. CASE cmd.type = "inject" /\ cmd.how \in FaultModes
      <3>1. Bland(Fail(cmd.how)) /\ Bland(Close("ENDED", "fault_injected"))
        BY <2>4, BlandPrograms, RunnerAssumption
      <3>2. HandleCommand(cmd) = Fail(cmd.how) \o Close("ENDED", "fault_injected")
        BY <2>4 DEF HandleCommand
      <3> QED BY <3>1, <3>2, BlandJoined
    <2> QED BY <1>1, <2>1, <2>2, <2>3, <2>4, CommandTypes
  <1>2. ASSUME NEW b \in Behaviors PROVE Bland(Start(b))
    <2>1. CASE b \in {"infinite_echo", "infinite_echo_max", "agent"}
      BY <2>1, BlandPrograms DEF Start
    <2>2. CASE b \in {"manual_only", "hang_forever"}
      BY <2>2, BlandPrograms DEF Start
    <2>3. CASE b = "subagent_shell"
      BY <2>3, BlandPrograms, BlandJoined DEF Start
    <2>4. CASE b = "static_response"
      <3>1. Start(b) = (<<Frame("echo", 0)>> \o FinishStream) \o Close("ENDED", "static_response")
        BY <2>4 DEF Start
      <3>2. Bland(<<Frame("echo", 0)>> \o FinishStream)
        BY BlandPrograms, BlandJoined
      <3> QED BY <3>1, <3>2, BlandPrograms, BlandJoined
    <2>5. CASE b = "connection_drop"
      <3>1. Start(b) = (<<Set([state |-> "ECHOING"])>> \o Disconnect)
                         \o Close("ENDED", "connection_drop_behavior")
        BY <2>5 DEF Start
      <3>2. Bland(<<Set([state |-> "ECHOING"])>> \o Disconnect)
        BY BlandPrograms, BlandJoined
      <3> QED BY <3>1, <3>2, BlandPrograms, BlandJoined
    <2>6. CASE b = "subagent_report"
      <3>1. Start(b) = (((StartEcho \o StartEcho) \o <<Frame("echo", 0)>>) \o FinishStream)
                         \o Close("ENDED", "subagent_echo_complete")
        BY <2>6 DEF Start
      <3>2. Bland((StartEcho \o StartEcho) \o <<Frame("echo", 0)>>)
        BY BlandPrograms, BlandJoined
      <3>3. Bland(((StartEcho \o StartEcho) \o <<Frame("echo", 0)>>) \o FinishStream)
        BY <3>2, BlandPrograms, BlandJoined
      <3> QED BY <3>1, <3>3, BlandPrograms, BlandJoined
    <2> QED BY <2>1, <2>2, <2>3, <2>4, <2>5, <2>6, RunnerAssumption
  <1> QED BY <1>1, <1>2

=============================================================================
