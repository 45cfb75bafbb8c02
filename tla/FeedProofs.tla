------------------------------ MODULE FeedProofs ------------------------------
(***************************************************************************)
(* What holds of the event bus for any number of sessions, administrators, *)
(* feeds and messages, and channels of any capacity.                       *)
(*                                                                         *)
(* For the order of the messages, Ordered is inductive.  That a feed knows *)
(* the open sessions and forgets the ended ones needs to know where the    *)
(* news is that it has not shown: Reported.                                *)
(***************************************************************************)
EXTENDS EventFeed, SequenceTheorems, TLAPS

\* What a goroutine that publishes can be at.
PubStates ==
  {NoPub} \union [stage : {"throttle", "send"}, msg : Message]
          \union [stage : {"fan"}, msg : Message, to : SUBSET Feeds]

Typed ==
  /\ TypeOK
  /\ pub \in [Publishers -> PubStates] /\ sent \in [Publishers -> Nat]
  /\ chan \in [Feeds -> Seq(Message)]
  /\ seen \in [Feeds -> [Publishers -> Nat]]

\* Whoever is still to be sent a message is subscribed.
Subscribed ==
  /\ \A p \in Publishers : pub[p].stage = "fan" => pub[p].to \subseteq subs
  /\ \A f \in subs : feed[f] \notin {"off", "closed"}

\* The message p publishes may still reach the feed's channel.
Pending(p, f) ==
  \/ pub[p].stage \in {"throttle", "send"}
  \/ pub[p].stage = "fan" /\ f \in pub[p].to

\* A message is newer than what its publisher sent before, and each of those
\* has arrived at a feed, or been dropped, before it can arrive.
Numbered ==
  /\ \A p \in Publishers : pub[p].stage # "idle" => pub[p].msg.from = p /\ pub[p].msg.n = sent[p]
  /\ \A f \in Feeds : \A i \in 1..Len(chan[f]) : chan[f][i].n <= sent[chan[f][i].from]
  /\ \A f \in Feeds, p \in Publishers : seen[f][p] <= sent[p]
  /\ \A p \in Publishers, f \in Feeds :
       Pending(p, f) => /\ seen[f][p] < sent[p]
                        /\ \A i \in 1..Len(chan[f]) :
                             chan[f][i].from = p => chan[f][i].n < sent[p]

-----------------------------------------------------------------------------
(***************************************************************************)
(* The steps of sessions' goroutines and of handlers.  To the bus they are *)
(* alike: nothing, or the start of a publication.                          *)
(***************************************************************************)
Acts ==
  \/ \E s \in Sessions : Register(s) \/ Chunk(s) \/ Unregister(s) \/ NeedNotClose(s)
  \/ \E a \in Admins : LookUp(a) \/ Turn(a)
  \/ \E p \in Publishers : SetState(p) \/ PublishState(p) \/ Close(p)

\* A publication begins: of a creation by the session's goroutine as the next
\* thing it does, of a closing by whoever is inside Close.
News ==
  \E p \in Publishers, type \in Types, s \in Sessions :
    /\ Idle(p) /\ Begin(p, type, s)
    /\ type = "created" => p = s /\ at[s] = "announce"
    /\ type = "closed" => at[p] = "closing" /\ about[p] = s

\* What all these steps have in common.
LEMMA ActsTell ==
  ASSUME TypeOK, Acts
  PROVE  /\ UNCHANGED <<throttle, subs, missed, chan, feedVars, down>>
         /\ UNCHANGED <<pub, sent>> \/ News
  <1> USE DEF Silent, Publishing, Publishers, Types
  <1>1. \A p \in Publishers : about[p] \in Sessions
    BY DEF TypeOK
  <1>2. ASSUME NEW s \in Sessions, Register(s) PROVE UNCHANGED <<pub, sent>> \/ News
    BY <1>2 DEF Register, Steps, News
  <1>3. ASSUME NEW s \in Sessions, Chunk(s) PROVE News
    BY <1>3 DEF Chunk, Steps, News
  <1>4. ASSUME NEW p \in Publishers, PublishState(p) PROVE News
    <2>1. Begin(p, "updated", about[p]) /\ Idle(p)
      BY <1>4 DEF PublishState, Steps
    <2> QED BY <1>1, <2>1 DEF News
  <1>5. ASSUME NEW p \in Publishers, CloseTells(p) PROVE News
    <2>1. Begin(p, "closed", about[p]) /\ Idle(p) /\ at[p] = "closing"
      BY <1>5 DEF CloseTells, Steps
    <2> QED BY <1>1, <2>1 DEF News
  <1>6. UNCHANGED <<throttle, subs, missed, chan, feedVars, down>>
    BY DEF Acts, Register, Chunk, Unregister, NeedNotClose, LookUp, Turn, SetState, PublishState,
           Close, CloseFirst, CloseTells, CloseReturns, CloseAgain
  <1>7. \/ \E s \in Sessions : Register(s) \/ Chunk(s)
        \/ \E p \in Publishers : PublishState(p) \/ CloseTells(p)
        \/ UNCHANGED <<pub, sent>>
    BY DEF Acts, Unregister, NeedNotClose, LookUp, Turn, SetState, Close, CloseFirst,
           CloseReturns, CloseAgain
  <1> QED BY <1>2, <1>3, <1>4, <1>5, <1>6, <1>7

\* The stage tells what else is known of a goroutine that publishes.
LEMMA StageTells ==
  ASSUME NEW x \in PubStates
  PROVE  /\ x.stage \in {"idle", "throttle", "send", "fan"}
         /\ x.stage \in {"throttle", "send"} => x \in [stage : {"throttle", "send"}, msg : Message]
         /\ x.stage = "fan" => x \in [stage : {"fan"}, msg : Message, to : SUBSET Feeds]
  <1>1. CASE x = NoPub
    BY <1>1 DEF NoPub
  <1>2. CASE x \in [stage : {"throttle", "send"}, msg : Message]
    BY <1>2
  <1>3. CASE x \in [stage : {"fan"}, msg : Message, to : SUBSET Feeds]
    BY <1>3
  <1> QED BY <1>1, <1>2, <1>3 DEF PubStates

\* At first everything has its type.
LEMMA TypedInit == ASSUME Init PROVE Typed
  <1>1. \A f \in Feeds : chan[f] \in Seq(Message) /\ Len(chan[f]) <= ChanCap
    BY FeedAssumption DEF Init
  <1>2. chan \in [Feeds -> Seq(Message)]
    BY DEF Init
  <1>3. pub \in [Publishers -> PubStates] /\ sent \in [Publishers -> Nat]
    BY DEF Init, PubStates
  <1>4. seen \in [Feeds -> [Publishers -> Nat]]
    BY DEF Init
  <1>5. \A p \in Publishers : pub[p].stage = "idle"
    BY DEF Init, NoPub
  <1>6. /\ at \in [Publishers -> Places] /\ about \in [Publishers -> Sessions]
        /\ orders \in [Admins -> SUBSET (Requests \X Sessions)]
        /\ once \in [Sessions -> {"new", "busy", "over"}]
        /\ ended \subseteq Sessions /\ live \subseteq Sessions
    BY DEF Init, Places
  <1>7. feed \in [Feeds -> {"off", "joined", "snapshot", "loop", "leaving", "closed"}]
    BY DEF Init
  <1>8. throttle \subseteq Sessions /\ subs \subseteq Feeds /\ writing \subseteq Feeds /\ down \in BOOLEAN
    BY DEF Init
  <1> QED BY <1>1, <1>2, <1>3, <1>4, <1>5, <1>6, <1>7, <1>8 DEF Typed, TypeOK

\* Begin is the start of a publication, of a session or of a handler.
LEMMA BeginTyped ==
  ASSUME Typed, NEW p \in Publishers, NEW type \in Types, NEW s \in Sessions, Begin(p, type, s)
  PROVE  pub' \in [Publishers -> PubStates] /\ sent' \in [Publishers -> Nat]
  <1>1. sent' \in [Publishers -> Nat]
    BY DEF Typed, Begin
  <1> DEFINE stage == IF type = "chunk" THEN "throttle" ELSE "send"
             msg == [type |-> type, session |-> s, from |-> p, n |-> sent[p] + 1]
  <1>2. msg \in Message
    BY DEF Typed, Message
  <1>3. [stage |-> stage, msg |-> msg] \in PubStates
    BY <1>2 DEF PubStates
  <1>4. pub' = [pub EXCEPT ![p] = [stage |-> stage, msg |-> msg]]
    BY DEF Begin
  <1> HIDE DEF stage, msg
  <1> QED BY <1>1, <1>3, <1>4 DEF Typed

\* Handing the lock on, or keeping it for the feeds that are left.
LEMMA FanTyped ==
  ASSUME Typed, NEW p \in Publishers, NEW to \in SUBSET Feeds,
         pub[p].stage \in {"send", "fan"}, Fan(p, to)
  PROVE  pub' \in [Publishers -> PubStates]
  <1>1. pub[p].msg \in Message
    BY StageTells DEF Typed
  <1>2. [stage |-> "fan", msg |-> pub[p].msg, to |-> to] \in PubStates
    BY <1>1 DEF PubStates
  <1>3. NoPub \in PubStates
    BY DEF PubStates
  <1> QED BY <1>2, <1>3 DEF Typed, Fan

\* A publisher's step keeps the types.
LEMMA PublishTyped ==
  ASSUME Typed, NEW p \in Publishers, Publish(p) PROVE Typed'
  <1>1. CASE Throttle(p)
    <2>0. pub[p] \in [stage : {"throttle", "send"}, msg : Message]
      BY <1>1, StageTells DEF Typed, Throttle
    <2>1. pub[p].msg.session \in Sessions
      BY <2>0 DEF Message
    <2>2. [pub[p] EXCEPT !.stage = "send"] \in PubStates /\ NoPub \in PubStates
      BY <2>0 DEF PubStates
    <2>3. pub' \in [Publishers -> PubStates] /\ throttle' \subseteq Sessions
      BY <1>1, <2>1, <2>2 DEF Typed, TypeOK, Throttle
    <2>4. \A q \in Publishers : pub'[q].stage \in {"idle", "throttle", "send", "fan"}
      BY <2>3, StageTells
    <2> QED BY <1>1, <2>3, <2>4 DEF Typed, TypeOK, Throttle, sessionVars, feedVars
  <1>2. CASE FanOut(p)
    <2>1. pub' \in [Publishers -> PubStates]
      BY <1>2, FanTyped DEF FanOut, Typed, TypeOK
    <2>2. \A q \in Publishers : pub'[q].stage \in {"idle", "throttle", "send", "fan"}
      BY <2>1, StageTells
    <2> QED BY <1>2, <2>1, <2>2 DEF Typed, TypeOK, FanOut, sessionVars, feedVars
  <1>3. ASSUME NEW f \in Feeds, Send(p, f) PROVE Typed'
    <2>1. pub[p].stage = "fan" /\ pub[p].to \subseteq Feeds /\ pub[p].msg \in Message
      BY <1>3, StageTells DEF Send, Typed
    <2>2. pub' \in [Publishers -> PubStates]
      BY <1>3, <2>1, FanTyped DEF Send
    <2>3. \A q \in Publishers : pub'[q].stage \in {"idle", "throttle", "send", "fan"}
      BY <2>2, StageTells
    <2>4. /\ chan' \in [Feeds -> Seq(Message)]
          /\ \A g \in Feeds : chan'[g] \in Seq(Message) /\ Len(chan'[g]) <= ChanCap
      <3>1. CASE Len(chan[f]) < ChanCap
        <4>1. Append(chan[f], pub[p].msg) \in Seq(Message)
          BY <2>1 DEF Typed
        <4>2. Len(Append(chan[f], pub[p].msg)) = Len(chan[f]) + 1
          BY DEF Typed
        <4>3. chan' = [chan EXCEPT ![f] = Append(chan[f], pub[p].msg)]
          BY <1>3, <3>1 DEF Send
        <4> QED BY <3>1, <4>1, <4>2, <4>3, FeedAssumption DEF Typed, TypeOK
      <3>2. CASE ~(Len(chan[f]) < ChanCap)
        BY <1>3, <3>2 DEF Send, Typed, TypeOK
      <3> QED BY <3>1, <3>2
    <2> QED BY <1>3, <2>2, <2>3, <2>4 DEF Typed, TypeOK, Send, sessionVars, feedVars
  <1> QED BY <1>1, <1>2, <1>3 DEF Publish

\* A feed's step keeps the types.
LEMMA ServeTyped ==
  ASSUME Typed, NEW f \in Feeds, Serve(f) PROVE Typed'
  <1> USE DEF Typed, TypeOK, sessionVars, busVars, feedVars
  <1>1. CASE Subscribe(f)
    BY <1>1 DEF Subscribe
  <1>2. CASE Live(f)
    BY <1>2 DEF Live
  <1>3. CASE SnapshotSession(f)
    BY <1>3 DEF SnapshotSession
  <1>4. CASE SnapshotSent(f)
    BY <1>4 DEF SnapshotSent
  <1>5. CASE Receive(f)
    <2>1. chan[f] \in Seq(Message) /\ chan[f] # <<>>
      BY <1>5 DEF Receive
    <2>2. /\ Head(chan[f]) \in Message /\ Tail(chan[f]) \in Seq(Message)
          /\ Len(Tail(chan[f])) <= ChanCap
      BY <2>1, FeedAssumption
    <2>3. Head(chan[f]).from \in Publishers /\ Head(chan[f]).n \in Nat
      BY <2>2 DEF Message
    <2>4. seen' \in [Feeds -> [Publishers -> Nat]]
      BY <1>5, <2>3 DEF Receive
    <2>5. /\ chan' \in [Feeds -> Seq(Message)]
          /\ \A g \in Feeds : chan'[g] \in Seq(Message) /\ Len(chan'[g]) <= ChanCap
      BY <1>5, <2>2 DEF Receive
    <2> QED BY <1>5, <2>4, <2>5 DEF Receive
  <1>6. CASE EndWrite(f)
    BY <1>6 DEF EndWrite
  <1>7. CASE PingPanics(f)
    BY <1>7 DEF PingPanics
  <1>8. CASE SeeDone(f)
    BY <1>8 DEF SeeDone
  <1>9. CASE Unsubscribe(f)
    BY <1>9 DEF Unsubscribe
  <1> QED BY <1>1, <1>2, <1>3, <1>4, <1>5, <1>6, <1>7, <1>8, <1>9 DEF Serve

\* Where goroutines are, and what they do to sessions, has its type.
LEMMA ActsTyped ==
  ASSUME TypeOK, Acts
  PROVE  /\ at' \in [Publishers -> Places] /\ about' \in [Publishers -> Sessions]
         /\ orders' \in [Admins -> SUBSET (Requests \X Sessions)]
         /\ once' \in [Sessions -> {"new", "busy", "over"}]
         /\ ended' \subseteq Sessions /\ live' \subseteq Sessions
  <1> USE DEF TypeOK
  <1>1. ASSUME NEW p \in Publishers, NEW from, NEW to \in Places, Steps(p, from, to)
        PROVE  at' \in [Publishers -> Places]
    BY <1>1 DEF Steps
  <1>2. Sessions \subseteq Publishers /\ Admins \subseteq Publishers
    BY DEF Publishers
  <1>3. /\ Requests \subseteq Places
        /\ {"register", "announce", "run", "unregister", "gone", "done", "idle", "closing", "closed",
            "tell"} \subseteq Places
    BY DEF Places, Requests
  <1>4. ASSUME NEW s \in Sessions, Register(s) \/ Chunk(s) \/ Unregister(s) \/ NeedNotClose(s)
        PROVE  at' \in [Publishers -> Places]
    BY <1>1, <1>2, <1>3, <1>4 DEF Register, Chunk, Unregister, NeedNotClose
  <1>5. ASSUME NEW p \in Publishers, SetState(p) \/ PublishState(p) \/ Close(p)
        PROVE  at' \in [Publishers -> Places]
    <2>1. AfterClose(p) \in Places
      BY <1>3 DEF AfterClose
    <2> QED BY <1>1, <1>3, <1>5, <2>1 DEF SetState, PublishState, Close, CloseFirst, CloseTells,
                                          CloseReturns, CloseAgain
  <1>6. ASSUME NEW s \in Sessions, Register(s) \/ Chunk(s) \/ Unregister(s) \/ NeedNotClose(s)
        PROVE  /\ UNCHANGED <<about, orders, once, ended>> /\ live' \subseteq Sessions
    BY <1>6 DEF Register, Chunk, Unregister, NeedNotClose
  <1>7. ASSUME NEW p \in Publishers, SetState(p) \/ PublishState(p) \/ Close(p)
        PROVE  /\ UNCHANGED <<about, orders, live>> /\ ended' \subseteq Sessions
               /\ once' \in [Sessions -> {"new", "busy", "over"}]
    BY <1>7 DEF SetState, PublishState, Close, CloseFirst, CloseTells, CloseReturns, CloseAgain
  <1>8. ASSUME NEW a \in Admins, LookUp(a)
        PROVE  /\ UNCHANGED <<about, once, ended, live>> /\ at' \in [Publishers -> Places]
               /\ orders' \in [Admins -> SUBSET (Requests \X Sessions)]
    <2>1. at' \in [Publishers -> Places] /\ UNCHANGED <<about, once, ended, live>>
      BY <1>1, <1>2, <1>3, <1>8 DEF LookUp
    <2>2. PICK request \in Requests, found \in {live} \union {{s} : s \in live} :
            orders' = [orders EXCEPT ![a] = {request} \X found]
      BY <1>8 DEF LookUp
    <2>3. found \subseteq Sessions
      OBVIOUS
    <2>4. {request} \X found \in SUBSET (Requests \X Sessions)
      BY <2>3
    <2> QED BY <2>1, <2>2, <2>4
  <1>9. ASSUME NEW a \in Admins, Turn(a)
        PROVE  /\ UNCHANGED <<once, ended, live>> /\ at' \in [Publishers -> Places]
               /\ about' \in [Publishers -> Sessions]
               /\ orders' \in [Admins -> SUBSET (Requests \X Sessions)]
    <2>1. PICK order \in orders[a] :
            /\ Steps(a, {"idle"}, order[1]) /\ about' = [about EXCEPT ![a] = order[2]]
            /\ orders' = [orders EXCEPT ![a] = orders[a] \ {order}]
      BY <1>9 DEF Turn
    <2>2. order \in Requests \X Sessions
      OBVIOUS
    <2>3. order[1] \in Places /\ order[2] \in Sessions
      BY <2>2, <1>3
    <2> QED BY <1>1, <1>2, <1>9, <2>1, <2>3 DEF Turn
  <1> QED BY <1>4, <1>5, <1>6, <1>7, <1>8, <1>9 DEF Acts

\* Every step keeps the types.
LEMMA TypedStep == ASSUME Typed, [Next]_vars PROVE Typed'
  <1>1. CASE Acts
    <2>1. UNCHANGED <<throttle, subs, missed, chan, feedVars, down>>
      BY <1>1, ActsTell DEF Typed
    <2>2. pub' \in [Publishers -> PubStates] /\ sent' \in [Publishers -> Nat]
      <3>1. CASE UNCHANGED <<pub, sent>>
        BY <3>1 DEF Typed
      <3>2. CASE News
        BY <3>2, BeginTyped DEF News
      <3> QED BY <1>1, <3>1, <3>2, ActsTell DEF Typed
    <2>3. \A q \in Publishers : pub'[q].stage \in {"idle", "throttle", "send", "fan"}
      BY <2>2, StageTells
    <2> QED BY <1>1, <2>1, <2>2, <2>3, ActsTyped DEF Typed, TypeOK, feedVars
  <1>2. ASSUME NEW s \in Sessions, Elapse(s) PROVE Typed'
    BY <1>2 DEF Elapse, Typed, TypeOK, sessionVars, feedVars
  <1>4. CASE UNCHANGED vars
    BY <1>4 DEF vars, Typed, TypeOK, sessionVars, busVars, feedVars
  <1> QED BY <1>1, <1>2, <1>4, PublishTyped, ServeTyped DEF Next, Acts

(***************************************************************************)
(* The bus's map of subscribers, its channels and the feeds keep their     *)
(* types, and no channel holds more than its capacity: Send drops.         *)
(***************************************************************************)
THEOREM TypeCorrect == Spec => []TypeOK
  <1>1. Typed => TypeOK
    BY DEF Typed
  <1> QED BY <1>1, TypedInit, TypedStep, PTL DEF Spec

-----------------------------------------------------------------------------
\* At first nothing is being sent to anybody.
LEMMA SubscribedInit == ASSUME Init PROVE Subscribed
  BY DEF Init, Subscribed, NoPub

\* Whoever a message is sent to stays subscribed until it has been.
LEMMA SubscribedStep == ASSUME Typed, Subscribed, [Next]_vars PROVE Subscribed'
  <1> USE DEF Subscribed, Typed, TypeOK, sessionVars, busVars, feedVars
  <1>1. ASSUME NEW p \in Publishers, NEW type, NEW s, Begin(p, type, s), UNCHANGED <<subs, feed>>
        PROVE  Subscribed'
    <2>1. pub'[p].stage # "fan" /\ \A q \in Publishers \ {p} : pub'[q] = pub[q]
      BY <1>1 DEF Begin
    <2> QED BY <1>1, <2>1
  <1>2. CASE Acts
    <2>1. UNCHANGED <<subs, feed>>
      BY <1>2, ActsTell
    <2>2. CASE UNCHANGED pub
      BY <2>1, <2>2
    <2>3. CASE News
      BY <1>1, <2>1, <2>3 DEF News
    <2> QED BY <1>2, <2>2, <2>3, ActsTell
  <1>3. ASSUME NEW s \in Sessions, Elapse(s) PROVE Subscribed'
    BY <1>3 DEF Elapse
  <1>5. ASSUME NEW p \in Publishers, Throttle(p) PROVE Subscribed'
    <2>1. pub[p] \in [stage : {"throttle", "send"}, msg : Message]
      BY <1>5, StageTells DEF Throttle
    <2>2. pub'[p].stage # "fan" /\ \A q \in Publishers \ {p} : pub'[q] = pub[q]
      BY <1>5, <2>1 DEF Throttle, NoPub
    <2> QED BY <1>5, <2>2 DEF Throttle
  <1>6. ASSUME NEW p \in Publishers, FanOut(p) PROVE Subscribed'
    BY <1>6 DEF FanOut, Fan, NoPub
  <1>7. ASSUME NEW p \in Publishers, NEW f \in Feeds, Send(p, f) PROVE Subscribed'
    BY <1>7 DEF Send, Fan, NoPub
  <1>8. ASSUME NEW f \in Feeds, Serve(f) PROVE Subscribed'
    <2>1. CASE Subscribe(f)
      BY <2>1 DEF Subscribe
    <2>2. CASE Live(f)
      BY <2>2 DEF Live
    <2>3. CASE SnapshotSession(f) \/ SnapshotSent(f)
      BY <2>3 DEF SnapshotSession, SnapshotSent
    <2>4. CASE Receive(f) \/ PingPanics(f)
      BY <2>4 DEF Receive, PingPanics
    <2>5. CASE EndWrite(f) \/ SeeDone(f)
      BY <2>5 DEF EndWrite, SeeDone
    <2>6. CASE Unsubscribe(f)
      <3>1. \A p \in Publishers : pub'[p].stage # "fan"
        BY <2>6 DEF Unsubscribe, Unlocked
      <3> QED BY <2>6, <3>1 DEF Unsubscribe
    <2> QED BY <1>8, <2>1, <2>2, <2>3, <2>4, <2>5, <2>6 DEF Serve
  <1>9. CASE UNCHANGED vars
    BY <1>9 DEF vars
  <1> QED BY <1>2, <1>3, <1>5, <1>6, <1>7, <1>8, <1>9 DEF Next, Publish, Acts

(***************************************************************************)
(* No interleaving of publications, new feeds and feeds that end sends on  *)
(* a closed channel, which would panic in the goroutine of a session.      *)
(***************************************************************************)
THEOREM NeverSendsOnClosed == Spec => []NoSendOnClosed
  <1>1. Subscribed => NoSendOnClosed
    BY DEF Subscribed, NoSendOnClosed
  <1> QED BY <1>1, TypedInit, TypedStep, SubscribedInit, SubscribedStep, PTL DEF Spec

-----------------------------------------------------------------------------
Ordered == Numbered /\ InOrder

\* At first there is no message.
LEMMA OrderedInit == ASSUME Init PROVE Ordered
  BY DEF Init, Ordered, Numbered, InOrder, Pending, NoPub

\* What the channels and publications look like to each pair of both.
LEMMA MessageTyped ==
  ASSUME Typed, NEW f \in Feeds, NEW i \in 1..Len(chan[f])
  PROVE  chan[f][i].from \in Publishers /\ chan[f][i].n \in Nat
  <1>1. chan[f][i] \in Message
    BY DEF Typed
  <1> QED BY <1>1 DEF Message

\* A new publication has a higher number than anything on its way.
LEMMA BeginOrdered ==
  ASSUME Typed, Ordered, NEW p \in Publishers, NEW type, NEW s, Idle(p), Begin(p, type, s),
         UNCHANGED <<chan, seen>>
  PROVE  Ordered'
  <1>1. /\ pub'[p].stage \in {"throttle", "send"}
        /\ pub'[p].msg.from = p /\ pub'[p].msg.n = sent[p] + 1
        /\ \A q \in Publishers \ {p} : pub'[q] = pub[q]
    <2> DEFINE start == [stage |-> IF type = "chunk" THEN "throttle" ELSE "send",
                         msg |-> [type |-> type, session |-> s, from |-> p, n |-> sent[p] + 1]]
    <2>1. pub' = [pub EXCEPT ![p] = start]
      BY DEF Begin
    <2>2. start.stage \in {"throttle", "send"} /\ start.msg.from = p /\ start.msg.n = sent[p] + 1
      OBVIOUS
    <2> HIDE DEF start
    <2> QED BY <2>1, <2>2 DEF Typed
  <1>2. sent'[p] = sent[p] + 1 /\ \A q \in Publishers \ {p} : sent'[q] = sent[q]
    BY DEF Begin, Typed
  <1>3. \A q \in Publishers : sent[q] \in Nat /\ sent'[q] \in Nat /\ sent[q] <= sent'[q]
    <2>1. \A q \in Publishers : sent[q] \in Nat
      BY DEF Typed
    <2>2. ASSUME NEW q \in Publishers PROVE sent'[q] = sent[q] \/ sent'[q] = sent[q] + 1
      BY <1>2
    <2> QED BY <2>1, <2>2
  <1>4. \A f \in Feeds, q \in Publishers : seen[f][q] \in Nat
    BY DEF Typed
  <1>5. \A q \in Publishers : pub'[q].stage # "idle" => pub'[q].msg.from = q /\ pub'[q].msg.n = sent'[q]
    BY <1>1, <1>2 DEF Ordered, Numbered
  <1>6. \A f \in Feeds : \A i \in 1..Len(chan[f]) : chan[f][i].n <= sent'[chan[f][i].from]
    BY <1>3, MessageTyped DEF Ordered, Numbered
  <1>7. \A f \in Feeds, q \in Publishers : seen[f][q] <= sent'[q]
    BY <1>3, <1>4 DEF Ordered, Numbered
  <1>8. ASSUME NEW q \in Publishers, NEW f \in Feeds, Pending(q, f)'
        PROVE  /\ seen[f][q] < sent'[q]
               /\ \A i \in 1..Len(chan[f]) : chan[f][i].from = q => chan[f][i].n < sent'[q]
    <2>1. CASE q = p
      BY <2>1, <1>2, <1>3, <1>4, MessageTyped DEF Ordered, Numbered
    <2>2. CASE q # p
      BY <2>2, <1>1, <1>2, <1>8 DEF Ordered, Numbered, Pending
    <2> QED BY <2>1, <2>2
  <1> QED BY <1>5, <1>6, <1>7, <1>8 DEF Ordered, Numbered, InOrder

\* A step of the bus that sends nothing and makes nothing pending.
LEMMA KeepsOrdered ==
  ASSUME Typed, Ordered, UNCHANGED <<chan, seen, sent>>,
         \A p \in Publishers : pub'[p].stage # "idle" => pub[p].stage # "idle" /\ pub'[p].msg = pub[p].msg,
         \A p \in Publishers, f \in Feeds : Pending(p, f)' => Pending(p, f)
  PROVE  Ordered'
  BY DEF Ordered, Numbered, InOrder

\* A message that is sent to a feed, or dropped, keeps the order.
LEMMA SendOrdered ==
  ASSUME Typed, Subscribed, Ordered, NEW p \in Publishers, NEW f \in Feeds, Send(p, f)
  PROVE  Ordered'
  <1>1. pub[p].stage = "fan" /\ pub[p].msg \in Message /\ Pending(p, f)
    BY StageTells DEF Send, Typed, Pending
  <1>2. \A q \in Publishers \ {p} : pub'[q] = pub[q]
    BY DEF Send, Fan, Typed
  <1>3. \/ pub'[p].stage = "idle"
        \/ pub'[p].stage = "fan" /\ pub'[p].msg = pub[p].msg /\ pub'[p].to = pub[p].to \ {f}
    BY DEF Send, Fan, Typed, NoPub
  <1>4. UNCHANGED <<seen, sent>>
    BY DEF Send, feedVars
  <1>5. \A q \in Publishers : pub'[q].stage # "idle" => pub[q].stage # "idle" /\ pub'[q].msg = pub[q].msg
    BY <1>1, <1>2, <1>3
  <1>6. \A q \in Publishers, g \in Feeds : Pending(q, g)' => Pending(q, g) /\ ~(q = p /\ g = f)
    BY <1>1, <1>2, <1>3 DEF Pending
  <1>7. CASE Len(chan[f]) < ChanCap
    <2> DEFINE m == pub[p].msg
    <2>1. chan' = [chan EXCEPT ![f] = Append(chan[f], m)]
      BY <1>7 DEF Send
    <2>2. m.from = p /\ m.n = sent[p] /\ sent[p] \in Nat /\ m \in Message
      BY <1>1 DEF Ordered, Numbered, Typed
    <2>3. \A g \in Feeds \ {f} : chan'[g] = chan[g]
      BY <2>1 DEF Typed
    <2>4. /\ Len(chan'[f]) = Len(chan[f]) + 1 /\ Len(chan[f]) \in Nat
          /\ \A i \in 1..Len(chan[f]) : chan'[f][i] = chan[f][i]
          /\ chan'[f][Len(chan[f]) + 1] = m
      BY <2>1, <2>2 DEF Typed
    <2>5. seen[f][p] < sent[p]
          /\ \A i \in 1..Len(chan[f]) : chan[f][i].from = p => chan[f][i].n < sent[p]
      BY <1>1 DEF Ordered, Numbered
    <2> HIDE DEF m
    <2>6. \A g \in Feeds : \A i \in 1..Len(chan'[g]) : chan'[g][i].n <= sent[chan'[g][i].from]
      <3>1. \A g \in Feeds \ {f} : \A i \in 1..Len(chan'[g]) : chan'[g][i].n <= sent[chan'[g][i].from]
        BY <2>3 DEF Ordered, Numbered
      <3>2. ASSUME NEW i \in 1..Len(chan'[f]) PROVE chan'[f][i].n <= sent[chan'[f][i].from]
        <4>1. CASE i = Len(chan[f]) + 1
          BY <4>1, <2>2, <2>4
        <4>2. CASE i \in 1..Len(chan[f])
          BY <4>2, <2>4 DEF Ordered, Numbered
        <4> QED BY <4>1, <4>2, <2>4
      <3> QED BY <3>1, <3>2
    <2>7. ASSUME NEW q \in Publishers, NEW g \in Feeds, Pending(q, g)'
          PROVE  /\ seen[g][q] < sent[q]
                 /\ \A i \in 1..Len(chan'[g]) : chan'[g][i].from = q => chan'[g][i].n < sent[q]
      <3>1. Pending(q, g) /\ ~(q = p /\ g = f)
        BY <2>7, <1>6
      <3>2. CASE g # f
        BY <3>1, <3>2, <2>3 DEF Ordered, Numbered
      <3>3. CASE g = f
        BY <3>1, <3>3, <2>2, <2>4 DEF Ordered, Numbered
      <3> QED BY <3>2, <3>3
    <2>8. InOrder'
      <3>1. ASSUME NEW i \in 1..Len(chan'[f])
            PROVE  /\ chan'[f][i].n > seen[f][chan'[f][i].from]
                   /\ \A j \in (i + 1)..Len(chan'[f]) :
                        chan'[f][j].from = chan'[f][i].from => chan'[f][j].n > chan'[f][i].n
        <4>1. CASE i = Len(chan[f]) + 1
          BY <4>1, <2>2, <2>4, <2>5 DEF Typed
        <4>2. CASE i \in 1..Len(chan[f])
          <5>1. chan'[f][i] = chan[f][i]
            BY <4>2, <2>4
          <5>2. /\ chan[f][i].n > seen[f][chan[f][i].from]
                /\ \A j \in (i + 1)..Len(chan[f]) :
                     chan[f][j].from = chan[f][i].from => chan[f][j].n > chan[f][i].n
            BY <4>2 DEF Ordered, InOrder
          <5>3. chan[f][i].from = p => chan[f][i].n < sent[p]
            BY <4>2, <2>5
          <5>4. chan[f][i].n \in Nat
            BY <4>2, MessageTyped
          <5>5. ASSUME NEW j \in (i + 1)..Len(chan'[f]), chan'[f][j].from = chan'[f][i].from
                PROVE  chan'[f][j].n > chan'[f][i].n
            <6>1. CASE j = Len(chan[f]) + 1
              BY <5>1, <5>3, <5>4, <5>5, <6>1, <2>2, <2>4
            <6>2. CASE j \in (i + 1)..Len(chan[f])
              BY <5>1, <5>2, <5>5, <6>2, <4>2, <2>4
            <6> QED BY <4>2, <6>1, <6>2, <2>4
          <5> QED BY <5>1, <5>2, <5>5
        <4> QED BY <4>1, <4>2, <2>4
      <3> QED BY <3>1, <2>3, <1>4 DEF Ordered, InOrder
    <2>9. /\ \A q \in Publishers : pub'[q].stage # "idle" => pub'[q].msg.from = q /\ pub'[q].msg.n = sent[q]
          /\ \A g \in Feeds, q \in Publishers : seen[g][q] <= sent[q]
      BY <1>5 DEF Ordered, Numbered
    <2> QED BY <1>4, <2>6, <2>7, <2>8, <2>9 DEF Ordered, Numbered
  <1>8. CASE ~(Len(chan[f]) < ChanCap)
    BY <1>4, <1>5, <1>6, <1>8, KeepsOrdered DEF Send
  <1> QED BY <1>7, <1>8

\* The event loop takes the oldest message of the channel.
LEMMA ReceiveOrdered ==
  ASSUME Typed, Ordered, NEW f \in Feeds, Receive(f)
  PROVE  Ordered'
  <1> DEFINE m == Head(chan[f])
  <1>1. /\ chan[f] \in Seq(Message) /\ chan[f] # <<>> /\ UNCHANGED <<pub, sent>>
        /\ chan' = [chan EXCEPT ![f] = Tail(chan[f])]
        /\ seen' = [seen EXCEPT ![f][m.from] = m.n]
    BY DEF Receive, Typed, busVars
  <1>2. m = chan[f][1] /\ 1 \in 1..Len(chan[f]) /\ Len(chan[f]) \in Nat
    BY <1>1
  <1>3. m.from \in Publishers /\ m.n \in Nat
    BY <1>2, MessageTyped
  <1>4. \A g \in Feeds \ {f} : chan'[g] = chan[g] /\ seen'[g] = seen[g]
    BY <1>1 DEF Typed
  <1>5. seen'[f][m.from] = m.n /\ \A q \in Publishers \ {m.from} : seen'[f][q] = seen[f][q]
    BY <1>1, <1>3 DEF Typed
  <1>6. /\ Len(chan'[f]) = Len(chan[f]) - 1
        /\ \A i \in 1..Len(chan'[f]) : chan'[f][i] = chan[f][i + 1] /\ i + 1 \in 1..Len(chan[f])
    BY <1>1, <1>2 DEF Typed
  <1>7. /\ m.n <= sent[m.from]
        /\ \A j \in 2..Len(chan[f]) : chan[f][j].from = m.from => chan[f][j].n > m.n
    BY <1>2 DEF Ordered, Numbered, InOrder
  <1> HIDE DEF m
  <1>8. \A g \in Feeds : \A i \in 1..Len(chan'[g]) : chan'[g][i].n <= sent[chan'[g][i].from]
    <2>1. \A g \in Feeds \ {f} : \A i \in 1..Len(chan'[g]) : chan'[g][i].n <= sent[chan'[g][i].from]
      BY <1>4 DEF Ordered, Numbered
    <2>2. \A i \in 1..Len(chan'[f]) : chan'[f][i].n <= sent[chan'[f][i].from]
      BY <1>6 DEF Ordered, Numbered
    <2> QED BY <2>1, <2>2
  <1>9. \A g \in Feeds, q \in Publishers : seen'[g][q] <= sent[q]
    BY <1>4, <1>5, <1>7 DEF Ordered, Numbered
  <1>10. ASSUME NEW q \in Publishers, NEW g \in Feeds, Pending(q, g)
         PROVE  /\ seen'[g][q] < sent[q]
                /\ \A i \in 1..Len(chan'[g]) : chan'[g][i].from = q => chan'[g][i].n < sent[q]
    <2>1. /\ seen[g][q] < sent[q]
          /\ \A i \in 1..Len(chan[g]) : chan[g][i].from = q => chan[g][i].n < sent[q]
      BY <1>10 DEF Ordered, Numbered
    <2>2. CASE g # f
      BY <2>1, <2>2, <1>4
    <2>3. CASE g = f
      <3>1. seen'[f][q] < sent[q]
        BY <2>1, <2>3, <1>2, <1>5
      <3>2. \A i \in 1..Len(chan'[f]) : chan'[f][i].from = q => chan'[f][i].n < sent[q]
        BY <2>1, <2>3, <1>6
      <3> QED BY <2>3, <3>1, <3>2
    <2> QED BY <2>2, <2>3
  <1>11. InOrder'
    <2>1. ASSUME NEW i \in 1..Len(chan'[f])
          PROVE  /\ chan'[f][i].n > seen'[f][chan'[f][i].from]
                 /\ \A j \in (i + 1)..Len(chan'[f]) :
                      chan'[f][j].from = chan'[f][i].from => chan'[f][j].n > chan'[f][i].n
      <3>1. chan'[f][i] = chan[f][i + 1] /\ i + 1 \in 2..Len(chan[f])
        BY <1>6, <1>2
      <3>2. /\ chan[f][i + 1].n > seen[f][chan[f][i + 1].from]
            /\ \A j \in (i + 2)..Len(chan[f]) :
                 chan[f][j].from = chan[f][i + 1].from => chan[f][j].n > chan[f][i + 1].n
        BY <3>1, <1>2 DEF Ordered, InOrder
      <3>3. chan'[f][i].n > seen'[f][chan'[f][i].from]
        <4>1. chan[f][i + 1].from \in Publishers
          BY <3>1, <1>2, MessageTyped
        <4>2. CASE chan[f][i + 1].from = m.from
          BY <4>2, <3>1, <1>5, <1>7
        <4>3. CASE chan[f][i + 1].from # m.from
          BY <4>1, <4>3, <3>1, <3>2, <1>5
        <4> QED BY <4>2, <4>3
      <3>4. ASSUME NEW j \in (i + 1)..Len(chan'[f]), chan'[f][j].from = chan'[f][i].from
            PROVE  chan'[f][j].n > chan'[f][i].n
        <4>1. j \in 1..Len(chan'[f]) /\ j + 1 \in (i + 2)..Len(chan[f])
          BY <1>2, <1>6, <2>1
        <4>2. chan'[f][j] = chan[f][j + 1]
          BY <4>1, <1>6
        <4> QED BY <4>1, <4>2, <3>1, <3>2, <3>4
      <3> QED BY <3>3, <3>4
    <2> QED BY <2>1, <1>4 DEF Ordered, InOrder
  <1> QED BY <1>1, <1>8, <1>9, <1>10, <1>11 DEF Ordered, Numbered, Pending

\* Every step keeps the order.
LEMMA OrderedStep == ASSUME Typed, Subscribed, Ordered, [Next]_vars PROVE Ordered'
  <1> USE DEF sessionVars, busVars, feedVars
  <1>1. ASSUME UNCHANGED <<chan, seen, sent, pub>> PROVE Ordered'
    BY <1>1 DEF Ordered, Numbered, InOrder, Pending
  <1>2. CASE Acts
    <2>1. UNCHANGED <<chan, seen>>
      BY <1>2, ActsTell DEF Typed
    <2>2. CASE UNCHANGED <<pub, sent>>
      BY <1>1, <2>1, <2>2
    <2>3. CASE News
      BY <2>1, <2>3, BeginOrdered DEF News
    <2> QED BY <1>2, <2>2, <2>3, ActsTell DEF Typed
  <1>3. ASSUME NEW s \in Sessions, Elapse(s) PROVE Ordered'
    BY <1>1, <1>3 DEF Elapse
  <1>5. ASSUME NEW p \in Publishers, Throttle(p) PROVE Ordered'
    <2>1. pub[p] \in [stage : {"throttle", "send"}, msg : Message]
      BY <1>5, StageTells DEF Throttle, Typed
    <2>2. \/ pub'[p].stage = "idle"
          \/ pub'[p].stage = "send" /\ pub'[p].msg = pub[p].msg
      BY <1>5, <2>1 DEF Throttle, NoPub, Typed
    <2>3. \A q \in Publishers \ {p} : pub'[q] = pub[q]
      BY <1>5 DEF Throttle, Typed
    <2>4. pub[p].stage = "throttle" /\ UNCHANGED <<chan, seen, sent>>
      BY <1>5 DEF Throttle
    <2>5. \A q \in Publishers : pub'[q].stage # "idle" => pub[q].stage # "idle" /\ pub'[q].msg = pub[q].msg
      BY <2>2, <2>3, <2>4
    <2>6. \A q \in Publishers, f \in Feeds : Pending(q, f)' => Pending(q, f)
      BY <2>2, <2>3, <2>4 DEF Pending
    <2> QED BY <2>4, <2>5, <2>6, KeepsOrdered
  <1>6. ASSUME NEW p \in Publishers, FanOut(p) PROVE Ordered'
    <2>1. \/ pub'[p].stage = "idle"
          \/ pub'[p].stage = "fan" /\ pub'[p].msg = pub[p].msg
      BY <1>6 DEF FanOut, Fan, NoPub, Typed
    <2>2. \A q \in Publishers \ {p} : pub'[q] = pub[q]
      BY <1>6 DEF FanOut, Fan, Typed
    <2>3. pub[p].stage = "send" /\ UNCHANGED <<chan, seen, sent>>
      BY <1>6 DEF FanOut
    <2>4. \A q \in Publishers : pub'[q].stage # "idle" => pub[q].stage # "idle" /\ pub'[q].msg = pub[q].msg
      BY <2>1, <2>2, <2>3
    <2>5. \A q \in Publishers, f \in Feeds : Pending(q, f)' => Pending(q, f)
      BY <2>1, <2>2, <2>3 DEF Pending
    <2> QED BY <2>3, <2>4, <2>5, KeepsOrdered
  <1>7. ASSUME NEW f \in Feeds, Serve(f) PROVE Ordered'
    <2>1. CASE Receive(f)
      BY <2>1, ReceiveOrdered
    <2>2. CASE ~Receive(f)
      BY <1>1, <1>7, <2>2 DEF Serve, Subscribe, Live, SnapshotSession, SnapshotSent, EndWrite,
                              PingPanics, SeeDone, Unsubscribe
    <2> QED BY <2>1, <2>2
  <1>8. CASE UNCHANGED vars
    BY <1>1, <1>8 DEF vars
  <1> QED BY <1>2, <1>3, <1>5, <1>6, <1>7, <1>8, SendOrdered DEF Next, Publish, Acts

(***************************************************************************)
(* Every feed gets the messages of a goroutine in the order in which they  *)
(* were published, at most once each, for any number of goroutines that    *)
(* publish at the same time.                                               *)
(***************************************************************************)
THEOREM DeliversInOrder == Spec => []InOrder
  <1>1. Ordered => InOrder
    BY DEF Ordered
  <1> QED BY <1>1, TypedInit, TypedStep, SubscribedInit, SubscribedStep, OrderedInit, OrderedStep,
             PTL DEF Spec

-----------------------------------------------------------------------------
(***************************************************************************)
(* What a feed shows.  The two properties speak of a feed whose snapshot   *)
(* is written; the invariant follows a session from the goroutines that    *)
(* act on it through the publication and the channel to the feed.          *)
(***************************************************************************)
\* Closing a session: one goroutine does it, and until it does the session has
\* not ended.  A session that is closed in the usual course has been announced.
Closes ==
  /\ \A p \in Publishers : at[p] \in {"closing", "closed"} => once[about[p]] = "busy"
  /\ \A p, q \in Publishers :
       (/\ at[p] \in {"closing", "closed"} /\ at[q] \in {"closing", "closed"}
        /\ about[p] = about[q]) => p = q
  /\ \A s \in Sessions : once[s] = "new" => s \notin ended
  /\ \A s \in Sessions \ crossed : once[s] # "new" => s \in ended /\ Announced(s)

\* A session's goroutine is concerned with itself, and does what handlers do not.
Placed ==
  /\ \A s \in Sessions : about[s] = s /\ at[s] \notin Requests \union {"idle"}
  /\ \A a \in Admins : at[a] \in Requests \union {"idle", "closing", "closed"}

\* A feed is subscribed from its first step to its last, and a connection that
\* has not begun has been told nothing.
Attended ==
  \A f \in Feeds :
    /\ feed[f] \in {"joined", "snapshot", "loop", "leaving"} => f \in subs
    /\ feed[f] = "off" => known[f] = {} /\ chan[f] = <<>>
    /\ f \in writing => feed[f] = "loop"

\* A session's creation is published by its own goroutine, its closing after Close
\* has begun, and in the usual course no creation follows a closing.
OwnNews ==
  /\ \A p \in Publishers : pub[p].stage # "idle" =>
       /\ pub[p].stage = "throttle" => pub[p].msg.type = "chunk"
       /\ pub[p].msg.type = "created" => pub[p].msg.session = p
       /\ pub[p].msg.type = "closed" => once[pub[p].msg.session] # "new"
  /\ \A f \in Feeds : \A i \in 1..Len(chan[f]) : chan[f][i].type = "closed" =>
       /\ once[chan[f][i].session] # "new"
       /\ chan[f][i].session \in crossed
            \/ \A j \in (i + 1)..Len(chan[f]) :
                 chan[f][j].type = "created" => chan[f][j].session # chan[f][i].session

\* FeedKnowsOpen, from the moment the table is read.
Shown ==
  \A f \in Feeds, s \in Sessions :
    (feed[f] \in {"snapshot", "loop"} /\ s \in live /\ once[s] = "new" /\ s \notin missed[f]) =>
      \/ s \in known[f] \/ at[s] = "announce" \/ Coming(f, "created", s)
      \/ feed[f] = "snapshot" /\ s \in toRead[f]

\* FeedForgetsEnded, from the subscription on, and for what is still to be told.
Unshown ==
  \A f \in Feeds, s \in Sessions :
    (/\ feed[f] \in {"joined", "snapshot", "loop"}
     /\ s \in known[f] \/ Coming(f, "created", s)
     /\ once[s] # "new" /\ s \notin missed[f] \union crossed) =>
      ClosingOwed(s) \/ Coming(f, "closed", s)

\* What the feeds keep is of the expected kind.
Filled == {known, toRead, missed} \subseteq [Feeds -> SUBSET Sessions]

\* At the start nothing is known.
LEMMA FilledInit == ASSUME Init PROVE Filled
  BY DEF Init, Filled

\* No step puts anything else where these are kept.
LEMMA FilledStep == ASSUME Typed, Filled, [Next]_vars PROVE Filled'
  <1>1. CASE Acts
    BY <1>1, ActsTell DEF Filled, feedVars, Typed
  <1>2. ASSUME NEW s \in Sessions, Elapse(s) PROVE Filled'
    BY <1>2 DEF Elapse, Filled, sessionVars, feedVars
  <1>4. ASSUME NEW p \in Publishers, Throttle(p) \/ FanOut(p) PROVE Filled'
    BY <1>4 DEF Throttle, FanOut, Filled, sessionVars, feedVars
  <1>5. ASSUME NEW p \in Publishers, NEW f \in Feeds, Send(p, f) PROVE Filled'
    <2>1. pub[p].msg \in Message
      BY <1>5, StageTells DEF Send, Typed
    <2>2. missed' \in [Feeds -> SUBSET Sessions]
      BY <1>5, <2>1 DEF Send, Filled, Message
    <2> QED BY <1>5, <2>2 DEF Send, Filled, sessionVars, feedVars
  <1>6. ASSUME NEW f \in Feeds, Receive(f) PROVE Filled'
    <2>1. chan[f] \in Seq(Message) /\ chan[f] # <<>>
      BY <1>6 DEF Receive, Typed
    <2>2. Head(chan[f]) \in Message
      BY <2>1
    <2>3. Told(f, Head(chan[f])) \subseteq Sessions
      BY <2>2 DEF Told, Filled, Message
    <2>4. known' \in [Feeds -> SUBSET Sessions]
      BY <1>6, <2>3 DEF Receive, Filled
    <2> QED BY <1>6, <2>4 DEF Receive, Filled, sessionVars, busVars
  <1>7. ASSUME NEW f \in Feeds, Live(f) PROVE Filled'
    BY <1>7 DEF Live, Filled, sessionVars, busVars, Typed, TypeOK
  <1>8. ASSUME NEW f \in Feeds, SnapshotSession(f) PROVE Filled'
    <2>1. PICK s \in toRead[f] :
            /\ toRead' = [toRead EXCEPT ![f] = @ \ {s}]
            /\ known' = [known EXCEPT ![f] = @ \union ({s} \ ended)]
      BY <1>8 DEF SnapshotSession
    <2>2. s \in Sessions
      BY DEF Filled
    <2> QED BY <1>8, <2>1, <2>2 DEF SnapshotSession, Filled, sessionVars, busVars
  <1>9. ASSUME NEW f \in Feeds, Subscribe(f) \/ SnapshotSent(f) \/ EndWrite(f) \/ PingPanics(f)
                                \/ SeeDone(f) \/ Unsubscribe(f)
        PROVE  Filled'
    BY <1>9 DEF Subscribe, SnapshotSent, EndWrite, PingPanics, SeeDone, Unsubscribe, Filled,
                sessionVars, busVars, feedVars
  <1>10. CASE UNCHANGED vars
    BY <1>10 DEF vars, Filled, sessionVars, busVars, feedVars
  <1> QED BY <1>1, <1>2, <1>4, <1>5, <1>6, <1>7, <1>8, <1>9, <1>10 DEF Next, Acts, Publish, Serve

\* The bus and the feeds leave goroutines and sessions alone.
LEMMA OthersTell ==
  ASSUME [Next]_vars, ~Acts
  PROVE  UNCHANGED sessionVars
  <1> USE DEF sessionVars
  <1>1. ASSUME NEW s \in Sessions, Elapse(s) PROVE UNCHANGED sessionVars
    BY <1>1 DEF Elapse
  <1>2. ASSUME NEW p \in Publishers, Publish(p) PROVE UNCHANGED sessionVars
    BY <1>2 DEF Publish, Throttle, FanOut, Send
  <1>3. ASSUME NEW f \in Feeds, Serve(f) PROVE UNCHANGED sessionVars
    BY <1>3 DEF Serve, Subscribe, Live, SnapshotSession, SnapshotSent, Receive, EndWrite,
                PingPanics, SeeDone, Unsubscribe
  <1>4. CASE UNCHANGED vars
    BY <1>4 DEF vars
  <1> QED BY <1>1, <1>2, <1>3, <1>4 DEF Next, Acts

\* Everybody is where he belongs.
LEMMA PlacedStep == ASSUME Typed, Placed, [Next]_vars PROVE Placed'
  <1>1. at \in [Publishers -> Places] /\ about \in [Publishers -> Sessions]
    BY DEF Typed, TypeOK
  <1>2. Sessions \intersect Admins = {} /\ Sessions \subseteq Publishers /\ Admins \subseteq Publishers
    BY FeedAssumption DEF Publishers
  <1>3. ASSUME UNCHANGED about, NEW s \in Sessions, NEW from,
               NEW to, to \notin Requests \union {"idle"}, Steps(s, from, to)
        PROVE  Placed'
    BY <1>1, <1>2, <1>3 DEF Steps, Placed
  <1>4. ASSUME NEW a \in Admins, NEW from, NEW to \in Requests \union {"idle", "closing", "closed"},
               Steps(a, from, to), \A s \in Sessions : about'[s] = about[s]
        PROVE  Placed'
    BY <1>1, <1>2, <1>4 DEF Steps, Placed
  <1>5. ASSUME NEW s \in Sessions, Register(s) \/ Chunk(s) \/ Unregister(s) \/ NeedNotClose(s)
        PROVE  Placed'
    BY <1>3, <1>5 DEF Register, Chunk, Unregister, NeedNotClose, Requests
  <1>6. ASSUME NEW a \in Admins, LookUp(a) PROVE Placed'
    BY <1>4, <1>6 DEF LookUp
  <1>7. ASSUME NEW a \in Admins, Turn(a) PROVE Placed'
    <2>1. PICK order \in orders[a] :
            Steps(a, {"idle"}, order[1]) /\ about' = [about EXCEPT ![a] = order[2]]
      BY <1>7 DEF Turn
    <2>2. order[1] \in Requests
      BY DEF Typed, TypeOK
    <2>3. \A s \in Sessions : about'[s] = about[s]
      BY <1>1, <1>2, <2>1
    <2> QED BY <1>4, <2>1, <2>2, <2>3
  <1>8. ASSUME NEW p \in Sessions, SetState(p) \/ PublishState(p) \/ Close(p) PROVE Placed'
    <2>1. AfterClose(p) \notin Requests \union {"idle"}
      BY <1>2 DEF AfterClose, Requests
    <2>2. SetState(p) \/ PublishState(p) => Steps(p, {"run"}, "run") /\ UNCHANGED about
      BY <1>2 DEF SetState, PublishState
    <2> QED BY <1>3, <1>8, <2>1, <2>2 DEF Close, CloseFirst, CloseTells, CloseReturns, CloseAgain,
                                          Requests
  <1>9. ASSUME NEW p \in Admins, SetState(p) \/ PublishState(p) \/ Close(p) PROVE Placed'
    <2>1. AfterClose(p) = "idle"
      BY DEF AfterClose
    <2> QED BY <1>2, <1>4, <1>9, <2>1 DEF SetState, PublishState, Close, CloseFirst, CloseTells,
                                          CloseReturns, CloseAgain, Requests
  <1>10. CASE UNCHANGED <<at, about>>
    BY <1>10 DEF Placed
  <1> QED BY <1>5, <1>6, <1>7, <1>8, <1>9, <1>10, OthersTell DEF Acts, Publishers, sessionVars

\* Where the step leaves the goroutine that makes it, and nobody else.
LEMMA StepsTell ==
  ASSUME TypeOK, NEW p \in Publishers, NEW from, NEW to, Steps(p, from, to)
  PROVE  /\ Idle(p) /\ at[p] \in from /\ at'[p] = to
         /\ \A q \in Publishers \ {p} : at'[q] = at[q]
  BY DEF Steps, TypeOK

\* The start of a publication in one view.
LEMMA BeginTells ==
  ASSUME Typed, NEW p \in Publishers, NEW type \in Types, NEW s, Begin(p, type, s)
  PROVE  /\ pub'[p].stage = (IF type = "chunk" THEN "throttle" ELSE "send")
         /\ pub'[p].msg.type = type /\ pub'[p].msg.session = s
         /\ \A q \in Publishers \ {p} : pub'[q] = pub[q]
  <1> DEFINE start == [stage |-> IF type = "chunk" THEN "throttle" ELSE "send",
                       msg |-> [type |-> type, session |-> s, from |-> p, n |-> sent[p] + 1]]
  <1>1. pub' = [pub EXCEPT ![p] = start]
    BY DEF Begin
  <1>2. /\ start.stage = (IF type = "chunk" THEN "throttle" ELSE "send")
        /\ start.msg.type = type /\ start.msg.session = s
    OBVIOUS
  <1> HIDE DEF start
  <1> QED BY <1>1, <1>2 DEF Typed

\* A publication that goes on carries the message it began with.
LEMMA PublishTells ==
  ASSUME Typed, NEW p \in Publishers, Publish(p)
  PROVE  /\ pub[p].stage # "idle" /\ \A q \in Publishers \ {p} : pub'[q] = pub[q]
         /\ \/ pub'[p].stage = "idle"
            \/ pub'[p].stage \in {"send", "fan"} /\ pub'[p].msg = pub[p].msg
         /\ UNCHANGED <<sessionVars, sent, subs, feedVars, down>>
  <1>1. CASE Throttle(p)
    <2>1. pub[p] \in [stage : {"throttle", "send"}, msg : Message]
      BY <1>1, StageTells DEF Throttle, Typed
    <2> QED BY <1>1, <2>1 DEF Throttle, NoPub, Typed
  <1>2. CASE FanOut(p)
    BY <1>2 DEF FanOut, Fan, NoPub, Typed
  <1>3. CASE \E f \in Feeds : Send(p, f)
    BY <1>3 DEF Send, Fan, NoPub, Typed
  <1> QED BY <1>1, <1>2, <1>3 DEF Publish

\* Places where it matters to others that a goroutine is there.
Marked == {"register", "announce", "closing", "closed"}

\* A step that neither registers nor closes: it may set a state.
Elsewhere(p) ==
  /\ at[p] \notin Marked /\ at'[p] \notin Marked
  /\ \A q \in Publishers \ {p} : at'[q] = at[q] /\ about'[q] = about[q]
  /\ live' \subseteq live /\ UNCHANGED once
  /\ \/ UNCHANGED <<ended, crossed>>
     \/ /\ ended' = ended \ {about[p]}
        /\ crossed' = IF once[about[p]] = "new" THEN crossed ELSE crossed \union {about[p]}

\* Most steps are of that sort.
LEMMA ActsSort ==
  ASSUME Typed, Placed, Acts
  PROVE  \/ \E s \in Sessions : Register(s)
         \/ \E p \in Publishers : Elsewhere(p) \/ CloseFirst(p) \/ CloseTells(p) \/ CloseReturns(p)
  <1>1. TypeOK
    BY DEF Typed
  <1>2. Sessions \intersect Admins = {} /\ Sessions \subseteq Publishers /\ Admins \subseteq Publishers
    BY FeedAssumption DEF Publishers
  <1>3. ASSUME NEW p \in Publishers, NEW from, NEW to, Steps(p, from, to),
               from \intersect Marked = {}, to \notin Marked,
               UNCHANGED <<about, ended, once, live, crossed>>
        PROVE  Elsewhere(p)
    BY <1>1, <1>3, StepsTell DEF Elsewhere
  <1>4. ASSUME NEW s \in Sessions, Chunk(s) \/ NeedNotClose(s) PROVE Elsewhere(s)
    BY <1>2, <1>3, <1>4 DEF Chunk, NeedNotClose, Marked
  <1>5. ASSUME NEW s \in Sessions, Unregister(s) PROVE Elsewhere(s)
    <2>1. at[s] \in {"run", "unregister"} /\ at'[s] = "gone" /\ \A q \in Publishers \ {s} : at'[q] = at[q]
      BY <1>1, <1>2, <1>5, StepsTell DEF Unregister
    <2> QED BY <1>5, <2>1 DEF Unregister, Elsewhere, Marked
  <1>6. ASSUME NEW a \in Admins, LookUp(a) PROVE Elsewhere(a)
    BY <1>2, <1>3, <1>6 DEF LookUp, Marked
  <1>7. ASSUME NEW a \in Admins, Turn(a) PROVE Elsewhere(a)
    <2>1. PICK order \in orders[a] :
            Steps(a, {"idle"}, order[1]) /\ about' = [about EXCEPT ![a] = order[2]]
      BY <1>7 DEF Turn
    <2>2. order[1] \in Requests
      BY <1>1 DEF TypeOK
    <2>3. at[a] = "idle" /\ at'[a] = order[1] /\ \A q \in Publishers \ {a} : at'[q] = at[q]
      BY <1>1, <1>2, <2>1, StepsTell
    <2>4. \A q \in Publishers \ {a} : about'[q] = about[q]
      BY <1>1, <2>1 DEF TypeOK
    <2> QED BY <1>7, <2>2, <2>3, <2>4 DEF Turn, Elsewhere, Marked, Requests
  <1>8. ASSUME NEW p \in Publishers, SetState(p) PROVE Elsewhere(p)
    <2>1. PICK from \in {{"run"}, {"set"}}, to \in {"run", "tell", "idle"} : Steps(p, from, to)
      BY <1>8 DEF SetState
    <2>2. at[p] \notin Marked /\ at'[p] \notin Marked /\ \A q \in Publishers \ {p} : at'[q] = at[q]
      BY <1>1, <2>1, StepsTell DEF Marked
    <2> QED BY <1>8, <2>2 DEF SetState, Elsewhere
  <1>9. ASSUME NEW p \in Publishers, PublishState(p) PROVE Elsewhere(p)
    BY <1>3, <1>9 DEF PublishState, Marked
  <1>10. ASSUME NEW p \in Publishers, CloseAgain(p) PROVE Elsewhere(p)
    <2>1. Closers(p) \intersect Marked = {} /\ AfterClose(p) \notin Marked
      BY <1>2 DEF Closers, AfterClose, Marked, Publishers
    <2> QED BY <1>3, <1>10, <2>1 DEF CloseAgain
  <1> QED BY <1>2, <1>4, <1>5, <1>6, <1>7, <1>8, <1>9, <1>10 DEF Acts, Close

\* Once a creation has been published, it is not published again.
LEMMA AnnouncedKept ==
  ASSUME Typed, Placed, [Next]_vars, NEW s \in Sessions, Announced(s)
  PROVE  Announced(s)'
  <1> USE DEF Announced, Idle
  <1>0. s \in Publishers /\ TypeOK
    BY DEF Publishers, Typed
  <1>1. ASSUME Acts PROVE Announced(s)'
    <2>1. at'[s] \notin {"register", "announce"}
      <3>1. ASSUME NEW r \in Sessions, Register(r) PROVE at'[s] \notin {"register", "announce"}
        <4>1. r \in Publishers
          BY DEF Publishers
        <4>2. at[r] \in {"register", "announce"} /\ \A q \in Publishers \ {r} : at'[q] = at[q]
          BY <1>0, <3>1, <4>1, StepsTell DEF Register
        <4> QED BY <1>0, <4>2
      <3>2. ASSUME NEW p \in Publishers, Elsewhere(p) PROVE at'[s] \notin {"register", "announce"}
        BY <1>0, <3>2 DEF Elsewhere, Marked
      <3>3. ASSUME NEW p \in Publishers, CloseFirst(p) \/ CloseTells(p) \/ CloseReturns(p)
            PROVE  at'[s] \notin {"register", "announce"}
        <4>1. AfterClose(p) \notin {"register", "announce"}
          BY DEF AfterClose
        <4> QED BY <1>0, <3>3, <4>1, StepsTell DEF CloseFirst, CloseTells, CloseReturns
      <3> QED BY <1>1, <3>1, <3>2, <3>3, ActsSort
    <2>2. CASE UNCHANGED pub
      BY <2>1, <2>2
    <2>3. CASE News
      <3>1. PICK p \in Publishers, type \in Types, r \in Sessions :
              /\ Begin(p, type, r)
              /\ type = "created" => p = r /\ at[r] = "announce"
        BY <2>3 DEF News
      <3>2. Begin(p, type, r)
        BY <3>1
      <3>3. /\ pub'[p].stage = (IF type = "chunk" THEN "throttle" ELSE "send")
            /\ pub'[p].msg.type = type /\ pub'[p].msg.session = r
            /\ \A q \in Publishers \ {p} : pub'[q] = pub[q]
        BY <3>2, BeginTells
      <3>4. CASE p = s
        BY <2>1, <3>1, <3>3, <3>4
      <3>5. CASE p # s
        BY <1>0, <2>1, <3>3, <3>5
      <3> QED BY <3>4, <3>5
    <2> QED BY <1>0, <1>1, <2>2, <2>3, ActsTell
  <1>2. ASSUME NEW p \in Publishers, Publish(p) PROVE Announced(s)'
    BY <1>0, <1>2, PublishTells DEF sessionVars
  <1>3. ASSUME UNCHANGED <<at, pub>> PROVE Announced(s)'
    BY <1>3
  <1>4. ASSUME NEW r \in Sessions, Elapse(r) PROVE Announced(s)'
    BY <1>3, <1>4 DEF Elapse, sessionVars
  <1>5. ASSUME NEW f \in Feeds, Serve(f) PROVE Announced(s)'
    BY <1>3, <1>5 DEF Serve, Subscribe, Live, SnapshotSession, SnapshotSent, Receive, EndWrite,
                      PingPanics, SeeDone, Unsubscribe, sessionVars, busVars
  <1>6. CASE UNCHANGED vars
    BY <1>3, <1>6 DEF vars, sessionVars, busVars
  <1> QED BY <1>1, <1>2, <1>4, <1>5, <1>6 DEF Next, Acts

\* At first nobody closes anything.
LEMMA ClosesInit == ASSUME Init PROVE Closes /\ Placed
  <1>1. Sessions \intersect Admins = {} /\ Sessions \subseteq Publishers /\ Admins \subseteq Publishers
    BY FeedAssumption DEF Publishers
  <1> QED BY <1>1 DEF Init, Closes, Placed, Requests

\* Close is begun once, by one.
LEMMA ClosesStep == ASSUME Typed, Placed, Closes, [Next]_vars PROVE Closes'
  <1>0. TypeOK /\ at \in [Publishers -> Places] /\ about \in [Publishers -> Sessions]
        /\ once \in [Sessions -> {"new", "busy", "over"}]
    BY DEF Typed, TypeOK
  <1>1. ASSUME UNCHANGED <<at, about, once, ended, crossed>> PROVE Closes'
    BY <1>1, AnnouncedKept DEF Closes
  <1>2. ASSUME NEW s \in Sessions, Register(s) PROVE Closes'
    <2>1. /\ UNCHANGED <<about, once, ended, crossed>>
          /\ at'[s] \notin {"closing", "closed"} /\ \A q \in Publishers \ {s} : at'[q] = at[q]
      BY <1>0, <1>2, StepsTell DEF Register, Publishers
    <2>2. s \in Publishers
      BY DEF Publishers
    <2> QED BY <2>1, <2>2, AnnouncedKept DEF Closes
  <1>3. ASSUME NEW p \in Publishers, Elsewhere(p) PROVE Closes'
    <2>1. \A q \in Publishers : at'[q] \in {"closing", "closed"} => at[q] = at'[q] /\ about'[q] = about[q]
      BY <1>3 DEF Elsewhere, Marked
    <2>2. UNCHANGED once
      BY <1>3 DEF Elsewhere
    <2>3. ended' \subseteq ended /\ crossed \subseteq crossed'
          /\ \A s \in Sessions : s \in ended /\ s \notin ended' /\ once[s] # "new" => s \in crossed'
      BY <1>3 DEF Elsewhere
    <2>4. /\ \A q \in Publishers : at'[q] \in {"closing", "closed"} => once'[about'[q]] = "busy"
          /\ \A q, r \in Publishers :
               (/\ at'[q] \in {"closing", "closed"} /\ at'[r] \in {"closing", "closed"}
                /\ about'[q] = about'[r]) => q = r
      BY <2>1, <2>2 DEF Closes
    <2>5. /\ \A s \in Sessions : once'[s] = "new" => s \notin ended'
          /\ \A s \in Sessions \ crossed' : once'[s] # "new" => s \in ended' /\ Announced(s)'
      BY <2>2, <2>3, AnnouncedKept DEF Closes
    <2> QED BY <2>4, <2>5 DEF Closes
  <1>4. ASSUME NEW p \in Publishers, CloseFirst(p) PROVE Closes'
    <2> DEFINE t == about[p]
    <2>1. /\ t \in Sessions /\ once[t] = "new" /\ UNCHANGED about
          /\ once' = [once EXCEPT ![t] = "busy"] /\ ended' = ended \union {t}
          /\ crossed' = IF Announced(t) THEN crossed ELSE crossed \union {t}
      BY <1>0, <1>4 DEF CloseFirst
    <2>2. at'[p] = "closing" /\ \A q \in Publishers \ {p} : at'[q] = at[q]
      BY <1>0, <1>4, StepsTell DEF CloseFirst
    <2>3. once'[t] = "busy" /\ \A s \in Sessions \ {t} : once'[s] = once[s]
      BY <1>0, <2>1
    <2>4. \A q \in Publishers \ {p} : at[q] \in {"closing", "closed"} => about[q] # t
      BY <2>1 DEF Closes
    <2> HIDE DEF t
    <2>5. about[p] = t
      BY DEF t
    <2>6. /\ \A q \in Publishers : at'[q] \in {"closing", "closed"} => once'[about'[q]] = "busy"
          /\ \A q, r \in Publishers :
               (/\ at'[q] \in {"closing", "closed"} /\ at'[r] \in {"closing", "closed"}
                /\ about'[q] = about'[r]) => q = r
      BY <1>0, <2>1, <2>2, <2>3, <2>4, <2>5 DEF Closes
    <2>7. /\ \A s \in Sessions : once'[s] = "new" => s \notin ended'
          /\ \A s \in Sessions \ crossed' : once'[s] # "new" => s \in ended' /\ Announced(s)'
      BY <2>1, <2>3, AnnouncedKept DEF Closes
    <2> QED BY <2>6, <2>7 DEF Closes
  <1>5. ASSUME NEW p \in Publishers, CloseTells(p) PROVE Closes'
    <2>1. /\ at[p] = "closing" /\ at'[p] = "closed" /\ \A q \in Publishers \ {p} : at'[q] = at[q]
          /\ UNCHANGED <<about, once, ended, crossed>>
      BY <1>0, <1>5, StepsTell DEF CloseTells
    <2> QED BY <2>1, AnnouncedKept DEF Closes
  <1>6. ASSUME NEW p \in Publishers, CloseReturns(p) PROVE Closes'
    <2>1. AfterClose(p) \notin {"closing", "closed"}
      BY DEF AfterClose
    <2>2. /\ at[p] = "closed" /\ at'[p] \notin {"closing", "closed"}
          /\ \A q \in Publishers \ {p} : at'[q] = at[q]
          /\ UNCHANGED <<about, ended, crossed>> /\ once' = [once EXCEPT ![about[p]] = "over"]
      BY <1>0, <1>6, <2>1, StepsTell DEF CloseReturns
    <2>3. /\ once'[about[p]] = "over" /\ about[p] \in Sessions /\ once[about[p]] = "busy"
          /\ \A s \in Sessions \ {about[p]} : once'[s] = once[s]
      BY <1>0, <2>2 DEF Closes
    <2>4. \A q \in Publishers \ {p} : at[q] \in {"closing", "closed"} => about[q] # about[p]
      BY <2>2 DEF Closes
    <2>5. /\ \A q \in Publishers : at'[q] \in {"closing", "closed"} => once'[about'[q]] = "busy"
          /\ \A q, r \in Publishers :
               (/\ at'[q] \in {"closing", "closed"} /\ at'[r] \in {"closing", "closed"}
                /\ about'[q] = about'[r]) => q = r
      BY <1>0, <2>2, <2>3, <2>4 DEF Closes
    <2>6. /\ \A s \in Sessions : once'[s] = "new" => s \notin ended'
          /\ \A s \in Sessions \ crossed' : once'[s] # "new" => s \in ended' /\ Announced(s)'
      BY <2>2, <2>3, AnnouncedKept DEF Closes
    <2> QED BY <2>5, <2>6 DEF Closes
  <1>7. CASE Acts
    BY <1>2, <1>3, <1>4, <1>5, <1>6, <1>7, ActsSort
  <1>8. CASE ~Acts
    BY <1>1, <1>8, OthersTell DEF sessionVars
  <1> QED BY <1>7, <1>8

\* A feed that has not begun is not subscribed, so nothing is sent to it.
LEMMA AttendedStep ==
  ASSUME Typed, Subscribed, Filled, Attended, [Next]_vars PROVE Attended'
  <1> USE DEF Attended, sessionVars, busVars, feedVars
  <1>1. ASSUME UNCHANGED <<feed, subs, known, chan>>, writing' \subseteq writing PROVE Attended'
    BY <1>1
  <1>2. CASE Acts
    BY <1>1, <1>2, ActsTell DEF Typed
  <1>3. ASSUME NEW s \in Sessions, Elapse(s) PROVE Attended'
    BY <1>1, <1>3 DEF Elapse
  <1>4. ASSUME NEW p \in Publishers, Throttle(p) \/ FanOut(p) PROVE Attended'
    BY <1>1, <1>4 DEF Throttle, FanOut
  <1>5. ASSUME NEW p \in Publishers, NEW f \in Feeds, Send(p, f) PROVE Attended'
    <2>1. feed[f] # "off"
      BY <1>5 DEF Send, Subscribed
    <2>2. \A g \in Feeds \ {f} : chan'[g] = chan[g]
      BY <1>5 DEF Send, Typed
    <2> QED BY <1>5, <2>1, <2>2 DEF Send
  <1>6. ASSUME NEW f \in Feeds, Serve(f) PROVE Attended'
    <2>1. feed \in [Feeds -> {"off", "joined", "snapshot", "loop", "leaving", "closed"}]
      BY DEF Typed, TypeOK
    <2>2. CASE Subscribe(f)
      BY <2>1, <2>2 DEF Subscribe
    <2>3. CASE Live(f) \/ SnapshotSent(f) \/ SeeDone(f)
      BY <2>1, <2>3 DEF Live, SnapshotSent, SeeDone
    <2>4. CASE SnapshotSession(f)
      <3>1. PICK s \in toRead[f] : known' = [known EXCEPT ![f] = @ \union ({s} \ ended)]
        BY <2>4 DEF SnapshotSession
      <3>2. \A g \in Feeds \ {f} : known'[g] = known[g]
        BY <3>1 DEF Filled
      <3> QED BY <2>4, <3>2 DEF SnapshotSession
    <2>5. CASE Receive(f)
      <3>1. \A g \in Feeds \ {f} : known'[g] = known[g] /\ chan'[g] = chan[g]
        BY <2>5 DEF Receive, Filled, Typed
      <3> QED BY <2>5, <3>1 DEF Receive
    <2>6. CASE EndWrite(f)
      <3>1. feed'[f] \in {"loop", "leaving"} /\ \A g \in Feeds \ {f} : feed'[g] = feed[g]
        BY <2>1, <2>6 DEF EndWrite
      <3> QED BY <2>6, <3>1 DEF EndWrite
    <2>7. CASE PingPanics(f)
      BY <1>1, <2>7 DEF PingPanics
    <2>8. CASE Unsubscribe(f)
      BY <2>1, <2>8 DEF Unsubscribe
    <2> QED BY <1>6, <2>2, <2>3, <2>4, <2>5, <2>6, <2>7, <2>8 DEF Serve
  <1>7. CASE UNCHANGED vars
    BY <1>1, <1>7 DEF vars
  <1> QED BY <1>2, <1>3, <1>4, <1>5, <1>6, <1>7 DEF Next, Publish, Acts

\* The two places where a message can be on its way.
Queued(f, type, s) ==
  \E i \in 1..Len(chan[f]) : chan[f][i].type = type /\ chan[f][i].session = s

Carried(p, f, type, s) ==
  /\ pub[p].stage \in {"send", "fan"} /\ pub[p].msg.type = type /\ pub[p].msg.session = s
  /\ pub[p].stage = "fan" => f \in pub[p].to

\* What sending does to the messages on their way to a subscriber: the one being
\* published arrives or is dropped, nothing else is touched.
LEMMA PublishComing ==
  ASSUME Typed, Filled, OwnNews, NEW p \in Publishers, Publish(p),
         NEW f \in subs, NEW type \in {"created", "closed"}, NEW s \in Sessions
  PROVE  /\ missed[f] \subseteq missed'[f]
         /\ Coming(f, type, s) => Coming(f, type, s)' \/ s \in missed'[f]
         /\ Coming(f, type, s)' => Coming(f, type, s)
  <1>1. /\ Coming(f, type, s) <=> Queued(f, type, s) \/ \E q \in Publishers : Carried(q, f, type, s)
        /\ Coming(f, type, s)' <=>
             Queued(f, type, s)' \/ \E q \in Publishers : Carried(q, f, type, s)'
    BY DEF Coming, Queued, Carried
  <1>2. \A q \in Publishers \ {p} : Carried(q, f, type, s)' <=> Carried(q, f, type, s)
    BY PublishTells DEF Carried
  <1>3. f \in Feeds
    BY DEF Typed, TypeOK
  <1>4. CASE Throttle(p)
    <2>1. UNCHANGED <<chan, missed>> /\ pub[p].stage = "throttle" /\ pub[p].msg.type = "chunk"
      BY <1>4 DEF Throttle, OwnNews
    <2>2. ~Carried(p, f, type, s) /\ ~Carried(p, f, type, s)'
      BY <2>1, PublishTells DEF Carried
    <2> QED BY <1>1, <1>2, <2>1, <2>2 DEF Queued
  <1>5. CASE FanOut(p)
    <2>1. /\ UNCHANGED <<chan, missed>> /\ pub[p].stage = "send" /\ pub'[p].stage = "fan"
          /\ pub'[p].msg = pub[p].msg /\ pub'[p].to = subs
      BY <1>5 DEF FanOut, Fan, Typed
    <2>2. Carried(p, f, type, s)' <=> Carried(p, f, type, s)
      BY <2>1 DEF Carried
    <2> QED BY <1>1, <1>2, <2>1, <2>2 DEF Queued
  <1>6. ASSUME NEW g \in Feeds, Send(p, g), g # f
        PROVE  /\ missed'[f] = missed[f]
               /\ Coming(f, type, s) <=> Coming(f, type, s)'
    <2>1. chan'[f] = chan[f] /\ missed'[f] = missed[f]
      BY <1>3, <1>6 DEF Send, Typed, Filled
    <2>2. /\ pub[p].stage = "fan"
          /\ IF pub[p].to \ {g} = {} THEN pub'[p].stage = "idle"
             ELSE pub'[p].stage = "fan" /\ pub'[p].msg = pub[p].msg /\ pub'[p].to = pub[p].to \ {g}
      BY <1>6 DEF Send, Fan, NoPub, Typed
    <2>3. Carried(p, f, type, s)' <=> Carried(p, f, type, s)
      BY <1>6, <2>2 DEF Carried
    <2> QED BY <1>1, <1>2, <2>1, <2>3 DEF Queued
  <1>7. CASE Send(p, f)
    <2> DEFINE m == pub[p].msg
    <2>1. /\ pub[p].stage = "fan" /\ f \in pub[p].to
          /\ \/ pub'[p].stage = "idle"
             \/ pub'[p].stage = "fan" /\ f \notin pub'[p].to
      <3>1. pub[p].stage = "fan" /\ f \in pub[p].to /\ Fan(p, pub[p].to \ {f})
        BY <1>7 DEF Send
      <3>2. IF pub[p].to \ {f} = {} THEN pub'[p].stage = "idle"
            ELSE pub'[p].stage = "fan" /\ pub'[p].to = pub[p].to \ {f}
        BY <3>1 DEF Fan, NoPub, Typed
      <3> QED BY <3>1, <3>2
    <2>2. ~Carried(p, f, type, s)'
      BY <2>1 DEF Carried
    <2>3. Carried(p, f, type, s) <=> m.type = type /\ m.session = s
      BY <2>1 DEF Carried
    <2>4. chan[f] \in Seq(Message) /\ m \in Message
      BY <1>3, <2>1, StageTells DEF Typed
    <2> HIDE DEF m
    <2>5. CASE Len(chan[f]) < ChanCap
      <3>1. chan'[f] = Append(chan[f], m) /\ UNCHANGED missed
        BY <1>3, <1>7, <2>5 DEF Send, Typed, m
      <3>2. /\ Len(chan'[f]) = Len(chan[f]) + 1 /\ Len(chan[f]) \in Nat
            /\ \A i \in 1..Len(chan[f]) : chan'[f][i] = chan[f][i]
            /\ chan'[f][Len(chan[f]) + 1] = m
        BY <2>4, <3>1
      <3>3. Queued(f, type, s)' <=> Queued(f, type, s) \/ (m.type = type /\ m.session = s)
        BY <3>2 DEF Queued
      <3> QED BY <1>1, <1>2, <2>2, <2>3, <3>1, <3>3
    <2>6. CASE ~(Len(chan[f]) < ChanCap)
      <3>1. UNCHANGED chan /\ missed'[f] = missed[f] \union {m.session}
        BY <1>3, <1>7, <2>6 DEF Send, Filled, m
      <3>2. Queued(f, type, s)' <=> Queued(f, type, s)
        BY <3>1 DEF Queued
      <3> QED BY <1>1, <1>2, <2>2, <2>3, <3>1, <3>2
    <2> QED BY <2>5, <2>6
  <1> QED BY <1>4, <1>5, <1>6, <1>7 DEF Publish

\* A new publication adds its own message, and no other.
LEMMA BeginComing ==
  ASSUME Typed, NEW p \in Publishers, NEW type \in Types, NEW s, Idle(p), Begin(p, type, s),
         UNCHANGED chan, NEW f \in Feeds, NEW t, NEW r
  PROVE  /\ Coming(f, t, r) => Coming(f, t, r)'
         /\ Coming(f, t, r)' => Coming(f, t, r) \/ (t = type /\ r = s)
         /\ type # "chunk" => Coming(f, type, s)'
  <1>1. /\ pub'[p].stage = (IF type = "chunk" THEN "throttle" ELSE "send")
        /\ pub'[p].msg.type = type /\ pub'[p].msg.session = s
        /\ \A q \in Publishers \ {p} : pub'[q] = pub[q]
    BY BeginTells
  <1>2. pub[p].stage = "idle"
    BY DEF Idle
  <1>3. Coming(f, t, r) => Coming(f, t, r)'
    BY <1>1, <1>2 DEF Coming
  <1>4. Coming(f, t, r)' => Coming(f, t, r) \/ (t = type /\ r = s)
    BY <1>1, <1>2 DEF Coming
  <1>5. type # "chunk" => Coming(f, type, s)'
    BY <1>1 DEF Coming
  <1> QED BY <1>3, <1>4, <1>5

\* The loop takes one message, and the others stay on their way.
LEMMA ReceiveComing ==
  ASSUME Typed, NEW f \in Feeds, Receive(f), NEW type, NEW s
  PROVE  /\ chan[f] # <<>> /\ 1 \in 1..Len(chan[f]) /\ Head(chan[f]) = chan[f][1]
         /\ Coming(f, type, s)' => Coming(f, type, s)
         /\ Coming(f, type, s) => \/ Coming(f, type, s)'
                                  \/ chan[f][1].type = type /\ chan[f][1].session = s
         /\ Coming(f, type, s)' =>
              \/ \E i \in 2..Len(chan[f]) : chan[f][i].type = type /\ chan[f][i].session = s
              \/ \E p \in Publishers : Carried(p, f, type, s)
  <1>1. /\ chan[f] \in Seq(Message) /\ chan[f] # <<>> /\ UNCHANGED pub
        /\ chan'[f] = Tail(chan[f])
    BY DEF Receive, Typed, busVars
  <1>2. /\ Len(chan[f]) \in Nat /\ Len(chan[f]) >= 1 /\ Head(chan[f]) = chan[f][1]
        /\ Len(chan'[f]) = Len(chan[f]) - 1
        /\ \A i \in 1..Len(chan'[f]) : chan'[f][i] = chan[f][i + 1]
    BY <1>1
  <1>3. /\ Coming(f, type, s) <=> Queued(f, type, s) \/ \E q \in Publishers : Carried(q, f, type, s)
        /\ Coming(f, type, s)' <=>
             Queued(f, type, s)' \/ \E q \in Publishers : Carried(q, f, type, s)
    BY <1>1 DEF Coming, Queued, Carried
  <1>4. Queued(f, type, s)' <=>
          \E i \in 2..Len(chan[f]) : chan[f][i].type = type /\ chan[f][i].session = s
    <2>1. ASSUME NEW i \in 1..Len(chan'[f])
          PROVE  i + 1 \in 2..Len(chan[f]) /\ chan'[f][i] = chan[f][i + 1]
      BY <1>2
    <2>2. ASSUME NEW i \in 2..Len(chan[f])
          PROVE  i - 1 \in 1..Len(chan'[f]) /\ chan'[f][i - 1] = chan[f][i]
      BY <1>2
    <2>3. Queued(f, type, s)' <=>
            \E i \in 1..Len(chan'[f]) : chan'[f][i].type = type /\ chan'[f][i].session = s
      BY ONLY DEF Queued
    <2>4. ASSUME NEW i \in 1..Len(chan'[f]), chan'[f][i].type = type /\ chan'[f][i].session = s
          PROVE  \E j \in 2..Len(chan[f]) : chan[f][j].type = type /\ chan[f][j].session = s
      BY ONLY <2>1, <2>4
    <2>5. ASSUME NEW i \in 2..Len(chan[f]), chan[f][i].type = type /\ chan[f][i].session = s
          PROVE  \E j \in 1..Len(chan'[f]) : chan'[f][j].type = type /\ chan'[f][j].session = s
      BY ONLY <2>2, <2>5
    <2> QED BY ONLY <2>3, <2>4, <2>5
  <1>5. Queued(f, type, s) <=>
          \/ chan[f][1].type = type /\ chan[f][1].session = s
          \/ \E i \in 2..Len(chan[f]) : chan[f][i].type = type /\ chan[f][i].session = s
    BY ONLY <1>2 DEF Queued
  <1> QED BY <1>1, <1>2, <1>3, <1>4, <1>5

\* What the steps of goroutines keep, and what they announce before they do it.
LEMMA ActsKeep ==
  ASSUME Typed, Placed, Closes, Acts
  PROVE  /\ crossed \subseteq crossed'
         /\ \A r \in Sessions :
              /\ once[r] # "new" => once'[r] # "new"
              /\ once[r] = "new" /\ once'[r] # "new" => ClosingOwed(r)'
              /\ r \in live' => r \in live \/ at'[r] = "announce"
              /\ at[r] = "announce" => at'[r] = "announce" \/ (Idle(r) /\ Begin(r, "created", r))
              /\ ClosingOwed(r) =>
                   ClosingOwed(r)' \/ \E p \in Publishers : Idle(p) /\ Begin(p, "closed", r)
  <1>0. /\ TypeOK /\ Sessions \subseteq Publishers
        /\ once \in [Sessions -> {"new", "busy", "over"}] /\ about \in [Publishers -> Sessions]
    BY DEF Typed, TypeOK, Publishers
  <1>1. CASE \E s \in Sessions : Register(s)
    <2>1. PICK s \in Sessions : Register(s)
      BY <1>1
    <2>2. UNCHANGED <<about, once, crossed>>
      BY <2>1 DEF Register
    <2>3. /\ at[s] \in {"register", "announce"} /\ \A q \in Publishers \ {s} : at'[q] = at[q]
          /\ \/ at[s] = "register" /\ at'[s] = "announce" /\ live' = live \union {s}
             \/ at[s] = "announce" /\ Idle(s) /\ Begin(s, "created", s) /\ live' = live
      BY <1>0, <2>1, StepsTell DEF Register
    <2>4. ASSUME NEW r \in Sessions, ClosingOwed(r) PROVE ClosingOwed(r)'
      <3>1. PICK p \in Publishers : at[p] = "closing" /\ about[p] = r
        BY <2>4 DEF ClosingOwed
      <3>2. at'[p] = "closing" /\ about'[p] = r
        BY <2>2, <2>3, <3>1
      <3> QED BY <3>2 DEF ClosingOwed
    <2> QED BY <1>0, <2>2, <2>3, <2>4
  <1>2. CASE \E p \in Publishers : Elsewhere(p)
    <2>1. PICK p \in Publishers : Elsewhere(p)
      BY <1>2
    <2>2. crossed \subseteq crossed' /\ UNCHANGED once /\ live' \subseteq live
      BY <2>1 DEF Elsewhere
    <2>3. \A q \in Publishers : at[q] \in {"announce", "closing"} => at'[q] = at[q] /\ about'[q] = about[q]
      BY <2>1 DEF Elsewhere, Marked
    <2>4. ASSUME NEW r \in Sessions, ClosingOwed(r) PROVE ClosingOwed(r)'
      BY <2>3, <2>4 DEF ClosingOwed
    <2> QED BY <1>0, <2>2, <2>3, <2>4
  <1>3. CASE \E p \in Publishers : CloseFirst(p) \/ CloseTells(p) \/ CloseReturns(p)
    <2>1. PICK p \in Publishers : CloseFirst(p) \/ CloseTells(p) \/ CloseReturns(p)
      BY <1>3
    <2>2. UNCHANGED <<about, live>> /\ crossed \subseteq crossed'
      BY <2>1 DEF CloseFirst, CloseTells, CloseReturns
    <2>3. /\ at[p] # "announce" /\ \A q \in Publishers \ {p} : at'[q] = at[q]
          /\ \/ CloseFirst(p) /\ at[p] # "closing" /\ at'[p] = "closing"
             \/ CloseTells(p) /\ at[p] = "closing" /\ Idle(p)
             \/ CloseReturns(p) /\ at[p] = "closed"
      <3>1. Closers(p) \subseteq {"close", "run", "gone"}
        BY DEF Closers
      <3> QED BY <1>0, <2>1, <3>1, StepsTell DEF CloseFirst, CloseTells, CloseReturns
    <2>4. ASSUME NEW r \in Sessions, ClosingOwed(r)
          PROVE  ClosingOwed(r)' \/ \E q \in Publishers : Idle(q) /\ Begin(q, "closed", r)
      <3>1. PICK q \in Publishers : at[q] = "closing" /\ about[q] = r
        BY <2>4 DEF ClosingOwed
      <3>2. CASE q # p
        BY <2>2, <2>3, <3>1, <3>2 DEF ClosingOwed
      <3>3. CASE q = p
        BY <2>3, <3>1, <3>3 DEF CloseTells
      <3> QED BY <3>2, <3>3
    <2>5. ASSUME NEW r \in Sessions
          PROVE  /\ once[r] # "new" => once'[r] # "new"
                 /\ once[r] = "new" /\ once'[r] # "new" => ClosingOwed(r)'
      <3>1. CASE CloseFirst(p)
        <4>1. at'[p] = "closing" /\ once' = [once EXCEPT ![about[p]] = "busy"]
          BY <1>0, <3>1, StepsTell DEF CloseFirst
        <4> QED BY <1>0, <2>2, <4>1 DEF ClosingOwed
      <3>2. CASE CloseTells(p)
        BY <3>2 DEF CloseTells
      <3>3. CASE CloseReturns(p)
        <4>1. at[p] = "closed" /\ once' = [once EXCEPT ![about[p]] = "over"]
          BY <1>0, <3>3, StepsTell DEF CloseReturns
        <4>2. once[about[p]] = "busy"
          BY <4>1 DEF Closes
        <4> QED BY <1>0, <4>1, <4>2
      <3> QED BY <2>1, <3>1, <3>2, <3>3
    <2> QED BY <1>0, <2>2, <2>3, <2>4, <2>5
  <1> QED BY <1>1, <1>2, <1>3, ActsSort

\* A creation that is being published is that of a session not yet announced.
LEMMA CreationOnce ==
  ASSUME Closes, OwnNews, NEW p \in Publishers, pub[p].stage # "idle", pub[p].msg.type = "created",
         pub[p].msg.session \in Sessions \ crossed
  PROVE  once[pub[p].msg.session] = "new"
  <1>1. pub[p].msg.session = p
    BY DEF OwnNews
  <1>2. ~Announced(p)
    BY DEF Announced, Idle
  <1> QED BY <1>1, <1>2 DEF Closes

\* The creation is published before the closing.
LEMMA OwnNewsStep ==
  ASSUME Typed, Filled, Placed, Closes, OwnNews, [Next]_vars PROVE OwnNews'
  <1> USE DEF sessionVars, busVars, feedVars
  <1>0. \A f \in Feeds : \A i \in 1..Len(chan[f]) : chan[f][i].session \in Sessions
    <2>1. \A f \in Feeds : \A i \in 1..Len(chan[f]) : chan[f][i] \in Message
      BY DEF Typed
    <2> QED BY <2>1 DEF Message
  <1>1. ASSUME UNCHANGED <<pub, once, crossed, chan>> PROVE OwnNews'
    BY <1>1 DEF OwnNews
  <1>2. ASSUME Acts PROVE OwnNews'
    <2>1. /\ UNCHANGED chan /\ crossed \subseteq crossed'
          /\ \A r \in Sessions : once[r] # "new" => once'[r] # "new"
      BY <1>2, ActsTell, ActsKeep DEF Typed
    <2>2. \A q \in Publishers : pub'[q].stage # "idle" =>
            /\ pub'[q].stage = "throttle" => pub'[q].msg.type = "chunk"
            /\ pub'[q].msg.type = "created" => pub'[q].msg.session = q
            /\ pub'[q].msg.type = "closed" => once'[pub'[q].msg.session] # "new"
      <3>1. ASSUME NEW q \in Publishers, pub'[q] = pub[q], pub[q].stage # "idle"
            PROVE  /\ pub'[q].stage = "throttle" => pub'[q].msg.type = "chunk"
                   /\ pub'[q].msg.type = "created" => pub'[q].msg.session = q
                   /\ pub'[q].msg.type = "closed" => once'[pub'[q].msg.session] # "new"
        <4>1. pub[q].msg.session \in Sessions
          BY <3>1, StageTells DEF Typed, Message
        <4> QED BY <2>1, <3>1, <4>1 DEF OwnNews
      <3>2. CASE UNCHANGED pub
        BY <3>1, <3>2
      <3>3. CASE News
        <4>1. PICK p \in Publishers, type \in Types, r \in Sessions :
                /\ Begin(p, type, r)
                /\ type = "created" => p = r
                /\ type = "closed" => at[p] = "closing" /\ about[p] = r
          BY <3>3 DEF News
        <4>2. Begin(p, type, r)
          BY <4>1
        <4>3. /\ pub'[p].stage = (IF type = "chunk" THEN "throttle" ELSE "send")
              /\ pub'[p].msg.type = type /\ pub'[p].msg.session = r
              /\ \A q \in Publishers \ {p} : pub'[q] = pub[q]
          BY <4>2, BeginTells
        <4>4. type = "closed" => once'[r] # "new"
          BY <2>1, <4>1 DEF Closes
        <4> QED BY <3>1, <4>1, <4>3, <4>4
      <3> QED BY <1>2, <3>2, <3>3, ActsTell DEF Typed
    <2> QED BY <1>0, <2>1, <2>2 DEF OwnNews
  <1>3. ASSUME NEW s \in Sessions, Elapse(s) PROVE OwnNews'
    BY <1>1, <1>3 DEF Elapse
  <1>5. ASSUME NEW p \in Publishers, Publish(p) PROVE OwnNews'
    <2>1. UNCHANGED <<once, crossed>>
      BY <1>5, PublishTells
    <2>2. \A q \in Publishers : pub'[q].stage # "idle" =>
            /\ pub'[q].stage = "throttle" => pub'[q].msg.type = "chunk"
            /\ pub'[q].msg.type = "created" => pub'[q].msg.session = q
            /\ pub'[q].msg.type = "closed" => once[pub'[q].msg.session] # "new"
      BY <1>5, PublishTells DEF OwnNews
    <2>3. ASSUME UNCHANGED chan PROVE OwnNews'
      BY <2>1, <2>2, <2>3 DEF OwnNews
    <2>4. ASSUME NEW f \in Feeds, Send(p, f), Len(chan[f]) < ChanCap PROVE OwnNews'
      <3> DEFINE m == pub[p].msg
      <3>1. /\ chan[f] \in Seq(Message) /\ m \in Message
            /\ m.type = "closed" => once[m.session] # "new"
            /\ m.type = "created" => once[m.session] = "new" \/ m.session \in crossed
        <4>1. pub[p].stage = "fan"
          BY <2>4 DEF Send
        <4>2. m \in Message
          BY <4>1, StageTells DEF Typed
        <4>3. m.session \in Sessions
          BY <4>2 DEF Message
        <4> QED BY <4>1, <4>2, <4>3, CreationOnce DEF Typed, OwnNews
      <3>2. chan'[f] = Append(chan[f], m) /\ \A g \in Feeds \ {f} : chan'[g] = chan[g]
        BY <2>4 DEF Send, Typed
      <3> HIDE DEF m
      <3>3. /\ Len(chan'[f]) = Len(chan[f]) + 1 /\ Len(chan[f]) \in Nat
            /\ \A i \in 1..Len(chan[f]) : chan'[f][i] = chan[f][i]
            /\ chan'[f][Len(chan[f]) + 1] = m
        BY <3>1, <3>2
      <3>4. ASSUME NEW i \in 1..Len(chan'[f]), chan'[f][i].type = "closed"
            PROVE  /\ once[chan'[f][i].session] # "new"
                   /\ chan'[f][i].session \in crossed
                        \/ \A j \in (i + 1)..Len(chan'[f]) :
                             chan'[f][j].type = "created" => chan'[f][j].session # chan'[f][i].session
        <4>1. CASE i = Len(chan[f]) + 1
          BY <3>1, <3>3, <3>4, <4>1
        <4>2. CASE i \in 1..Len(chan[f])
          <5>1. /\ chan'[f][i] = chan[f][i] /\ once[chan[f][i].session] # "new"
                /\ chan[f][i].session \in crossed
                     \/ \A j \in (i + 1)..Len(chan[f]) :
                          chan[f][j].type = "created" => chan[f][j].session # chan[f][i].session
            BY <3>3, <3>4, <4>2 DEF OwnNews
          <5>2. ASSUME chan[f][i].session \notin crossed,
                       NEW j \in (i + 1)..Len(chan'[f]), chan'[f][j].type = "created"
                PROVE  chan'[f][j].session # chan'[f][i].session
            <6>1. CASE j = Len(chan[f]) + 1
              BY <3>1, <3>3, <5>1, <5>2, <6>1
            <6>2. CASE j \in (i + 1)..Len(chan[f])
              BY <3>3, <4>2, <5>1, <5>2, <6>2
            <6> QED BY <3>3, <4>2, <6>1, <6>2
          <5> QED BY <5>1, <5>2
        <4> QED BY <3>3, <4>1, <4>2
      <3>5. ASSUME NEW g \in Feeds \ {f}, NEW i \in 1..Len(chan'[g]), chan'[g][i].type = "closed"
            PROVE  /\ once[chan'[g][i].session] # "new"
                   /\ chan'[g][i].session \in crossed
                        \/ \A j \in (i + 1)..Len(chan'[g]) :
                             chan'[g][j].type = "created" => chan'[g][j].session # chan'[g][i].session
        BY <3>2, <3>5 DEF OwnNews
      <3> QED BY <2>1, <2>2, <3>4, <3>5 DEF OwnNews
    <2>5. UNCHANGED chan \/ \E f \in Feeds : Send(p, f) /\ Len(chan[f]) < ChanCap
      BY <1>5 DEF Publish, Throttle, FanOut, Send
    <2> QED BY <2>3, <2>4, <2>5
  <1>6. ASSUME NEW f \in Feeds, Receive(f) PROVE OwnNews'
    <2>1. /\ chan[f] \in Seq(Message) /\ chan[f] # <<>> /\ UNCHANGED <<pub, once, crossed>>
          /\ chan'[f] = Tail(chan[f]) /\ \A g \in Feeds \ {f} : chan'[g] = chan[g]
      BY <1>6 DEF Receive, Typed
    <2>2. /\ Len(chan[f]) \in Nat /\ Len(chan'[f]) = Len(chan[f]) - 1
          /\ \A i \in 1..Len(chan'[f]) : chan'[f][i] = chan[f][i + 1]
      BY <2>1
    <2>3. ASSUME NEW i \in 1..Len(chan'[f]), chan'[f][i].type = "closed"
          PROVE  /\ once[chan'[f][i].session] # "new"
                 /\ chan'[f][i].session \in crossed
                      \/ \A j \in (i + 1)..Len(chan'[f]) :
                           chan'[f][j].type = "created" => chan'[f][j].session # chan'[f][i].session
      <3>1. i + 1 \in 1..Len(chan[f]) /\ chan'[f][i] = chan[f][i + 1]
        BY <2>2
      <3>2. /\ once[chan[f][i + 1].session] # "new"
            /\ chan[f][i + 1].session \in crossed
                 \/ \A j \in ((i + 1) + 1)..Len(chan[f]) :
                      chan[f][j].type = "created" => chan[f][j].session # chan[f][i + 1].session
        BY <2>3, <3>1 DEF OwnNews
      <3>3. ASSUME chan'[f][i].session \notin crossed,
                   NEW j \in (i + 1)..Len(chan'[f]), chan'[f][j].type = "created"
            PROVE  chan'[f][j].session # chan'[f][i].session
        <4>1. /\ j + 1 \in ((i + 1) + 1)..Len(chan[f]) /\ j \in 1..Len(chan'[f])
          BY <2>2
        <4> QED BY <2>2, <3>1, <3>2, <3>3, <4>1
      <3> QED BY <3>1, <3>2, <3>3
    <2>4. ASSUME NEW g \in Feeds \ {f}, NEW i \in 1..Len(chan'[g]), chan'[g][i].type = "closed"
          PROVE  /\ once[chan'[g][i].session] # "new"
                 /\ chan'[g][i].session \in crossed
                      \/ \A j \in (i + 1)..Len(chan'[g]) :
                           chan'[g][j].type = "created" => chan'[g][j].session # chan'[g][i].session
      BY <2>1, <2>4 DEF OwnNews
    <2>5. \A q \in Publishers : pub'[q].stage # "idle" =>
            /\ pub'[q].stage = "throttle" => pub'[q].msg.type = "chunk"
            /\ pub'[q].msg.type = "created" => pub'[q].msg.session = q
            /\ pub'[q].msg.type = "closed" => once'[pub'[q].msg.session] # "new"
      BY <2>1 DEF OwnNews
    <2>6. ASSUME NEW g \in Feeds, NEW i \in 1..Len(chan'[g]), chan'[g][i].type = "closed"
          PROVE  /\ once'[chan'[g][i].session] # "new"
                 /\ chan'[g][i].session \in crossed'
                      \/ \A j \in (i + 1)..Len(chan'[g]) :
                           chan'[g][j].type = "created" => chan'[g][j].session # chan'[g][i].session
      <3>1. CASE g = f
        BY <2>1, <2>3, <2>6, <3>1
      <3>2. CASE g # f
        BY <2>1, <2>4, <2>6, <3>2
      <3> QED BY <3>1, <3>2
    <2> QED BY <2>5, <2>6 DEF OwnNews
  <1>7. ASSUME NEW f \in Feeds, Serve(f), ~Receive(f) PROVE OwnNews'
    BY <1>1, <1>7 DEF Serve, Subscribe, Live, SnapshotSession, SnapshotSent, EndWrite,
                      PingPanics, SeeDone, Unsubscribe
  <1>8. CASE UNCHANGED vars
    BY <1>1, <1>8 DEF vars
  <1> QED BY <1>2, <1>3, <1>5, <1>6, <1>7, <1>8 DEF Next, Acts

\* A step of the bus, and the end of a feed, lose no message untold and drop none
\* that is not counted.
LEMMA Steady ==
  ASSUME Attended, Shown, Unshown, UNCHANGED <<at, about, once, live, crossed, known, toRead>>,
         \A f \in Feeds : feed'[f] = feed[f] \/ feed'[f] \notin {"joined", "snapshot", "loop"},
         \A f \in subs, s \in Sessions, type \in {"created", "closed"} :
           /\ missed[f] \subseteq missed'[f]
           /\ Coming(f, type, s) => Coming(f, type, s)' \/ s \in missed'[f]
           /\ Coming(f, type, s)' => Coming(f, type, s)
  PROVE  Shown' /\ Unshown'
  <1>1. ASSUME NEW f \in Feeds, NEW s \in Sessions,
               feed'[f] \in {"joined", "snapshot", "loop"}, s \notin missed'[f]
        PROVE  /\ feed[f] = feed'[f] /\ s \notin missed[f]
               /\ Coming(f, "created", s) <=> Coming(f, "created", s)'
               /\ Coming(f, "closed", s) <=> Coming(f, "closed", s)'
    BY <1>1 DEF Attended
  <1>2. Shown'
    BY <1>1 DEF Shown
  <1>3. \A s \in Sessions : ClosingOwed(s)' <=> ClosingOwed(s)
    BY DEF ClosingOwed
  <1>4. Unshown'
    BY <1>1, <1>3 DEF Unshown
  <1> QED BY <1>2, <1>4

\* A session comes into the table before its creation is published, and whoever
\* closes it announces that.
LEMMA ActsShown ==
  ASSUME Typed, Placed, Closes, Shown, Unshown, Acts
  PROVE  Shown' /\ Unshown'
  <1>1. UNCHANGED <<known, toRead, feed, missed, chan>> /\ (UNCHANGED pub \/ News)
    BY ActsTell DEF Typed, feedVars
  <1>2. ASSUME NEW f \in Feeds, NEW r \in Sessions
        PROVE  /\ \A t \in {"created", "closed"} : Coming(f, t, r) => Coming(f, t, r)'
               /\ Coming(f, "created", r)' => Coming(f, "created", r) \/ at[r] = "announce"
    <2>1. CASE UNCHANGED pub
      BY <1>1, <2>1 DEF Coming
    <2>2. CASE News
      <3>1. PICK p \in Publishers, type \in Types, s \in Sessions :
              Idle(p) /\ Begin(p, type, s) /\ (type = "created" => at[s] = "announce")
        BY <2>2 DEF News
      <3>2. ASSUME NEW t PROVE /\ Coming(f, t, r) => Coming(f, t, r)'
                               /\ Coming(f, t, r)' => Coming(f, t, r) \/ (t = type /\ r = s)
        BY <1>1, <3>1, BeginComing
      <3> QED BY <3>1, <3>2
    <2> QED BY <1>1, <2>1, <2>2
  <1>3. ASSUME NEW f \in Feeds, NEW r \in Sessions, NEW p \in Publishers,
               NEW t \in {"created", "closed"}, Idle(p), Begin(p, t, r)
        PROVE  Coming(f, t, r)'
    BY <1>1, <1>3, BeginComing DEF Types
  <1>4. /\ crossed \subseteq crossed'
        /\ \A r \in Sessions :
             /\ once[r] # "new" => once'[r] # "new"
             /\ once[r] = "new" /\ once'[r] # "new" => ClosingOwed(r)'
             /\ r \in live' => r \in live \/ at'[r] = "announce"
             /\ at[r] = "announce" => at'[r] = "announce" \/ (Idle(r) /\ Begin(r, "created", r))
             /\ ClosingOwed(r) =>
                  ClosingOwed(r)' \/ \E p \in Publishers : Idle(p) /\ Begin(p, "closed", r)
    BY ActsKeep
  <1>5. Sessions \subseteq Publishers
    BY DEF Publishers
  <1>6. Shown'
    <2> SUFFICES ASSUME NEW f \in Feeds, NEW r \in Sessions,
                        feed[f] \in {"snapshot", "loop"}, r \in live', once'[r] = "new",
                        r \notin missed[f]
                 PROVE  \/ r \in known[f] \/ at'[r] = "announce" \/ Coming(f, "created", r)'
                        \/ feed[f] = "snapshot" /\ r \in toRead[f]
      BY <1>1 DEF Shown
    <2>1. once[r] = "new" /\ (r \in live \/ at'[r] = "announce")
      BY <1>4
    <2>2. r \in live => \/ r \in known[f] \/ at[r] = "announce" \/ Coming(f, "created", r)
                        \/ feed[f] = "snapshot" /\ r \in toRead[f]
      BY <2>1 DEF Shown
    <2>3. at[r] = "announce" => at'[r] = "announce" \/ Coming(f, "created", r)'
      BY <1>3, <1>4, <1>5
    <2> QED BY <1>2, <2>1, <2>2, <2>3
  <1>7. Unshown'
    <2> SUFFICES ASSUME NEW f \in Feeds, NEW r \in Sessions,
                        feed[f] \in {"joined", "snapshot", "loop"},
                        r \in known[f] \/ Coming(f, "created", r)',
                        once'[r] # "new", r \notin missed[f], r \notin crossed'
                 PROVE  ClosingOwed(r)' \/ Coming(f, "closed", r)'
      BY <1>1 DEF Unshown
    <2>1. CASE once[r] = "new"
      BY <1>4, <2>1
    <2>2. CASE once[r] # "new"
      <3>1. r \notin crossed /\ at[r] # "announce"
        BY <1>4, <2>2 DEF Closes, Announced
      <3>2. ClosingOwed(r) \/ Coming(f, "closed", r)
        BY <1>2, <2>2, <3>1 DEF Unshown
      <3> QED BY <1>2, <1>3, <1>4, <3>2
    <2> QED BY <2>1, <2>2
  <1> QED BY <1>6, <1>7

\* The table is read after the subscription, and a session that ends meanwhile is
\* either read as ended or reported in the channel.
LEMMA SnapshotShown ==
  ASSUME Typed, Filled, Closes, Attended, OwnNews, Shown, Unshown, NEW f \in Feeds,
         Subscribe(f) \/ Live(f) \/ SnapshotSession(f) \/ SnapshotSent(f)
  PROVE  Shown' /\ Unshown'
  <1>1. /\ UNCHANGED <<at, about, ended, once, live, crossed, pub, missed, chan>>
        /\ \A g \in Feeds \ {f} : feed'[g] = feed[g] /\ known'[g] = known[g] /\ toRead'[g] = toRead[g]
        /\ f \in subs \/ Subscribe(f)
    <2>1. feed \in [Feeds -> {"off", "joined", "snapshot", "loop", "leaving", "closed"}]
      BY DEF Typed, TypeOK
    <2> QED BY <2>1 DEF Subscribe, Live, SnapshotSession, SnapshotSent, Filled, Attended,
                        sessionVars, busVars, feedVars
  <1>2. \A g \in Feeds : \A t, r : Coming(g, t, r)' <=> Coming(g, t, r)
    BY <1>1 DEF Coming
  <1>3. \A r : ClosingOwed(r)' <=> ClosingOwed(r)
    BY <1>1 DEF ClosingOwed
  <1>4. ASSUME \A r \in Sessions :
                 /\ (/\ feed'[f] \in {"snapshot", "loop"} /\ r \in live /\ once[r] = "new"
                     /\ r \notin missed[f]) =>
                      \/ r \in known'[f] \/ at[r] = "announce" \/ Coming(f, "created", r)
                      \/ feed'[f] = "snapshot" /\ r \in toRead'[f]
                 /\ (/\ feed'[f] \in {"joined", "snapshot", "loop"}
                     /\ r \in known'[f] \/ Coming(f, "created", r)
                     /\ once[r] # "new" /\ r \notin missed[f] \union crossed) =>
                      ClosingOwed(r) \/ Coming(f, "closed", r)
        PROVE  Shown' /\ Unshown'
    <2>1. Shown'
      BY <1>1, <1>2, <1>4 DEF Shown
    <2>2. Unshown'
      BY <1>1, <1>2, <1>3, <1>4 DEF Unshown
    <2> QED BY <2>1, <2>2
  <1>5. feed \in [Feeds -> {"off", "joined", "snapshot", "loop", "leaving", "closed"}]
    BY DEF Typed, TypeOK
  <1>6. CASE Subscribe(f)
    <2>1. feed'[f] = "joined" /\ known'[f] = {} /\ chan[f] = <<>>
      BY <1>5, <1>6 DEF Subscribe, Attended
    <2>2. ASSUME NEW r \in Sessions \ crossed, Coming(f, "created", r) PROVE once[r] = "new"
      <3>1. PICK p \in Publishers : /\ pub[p].stage \in {"send", "fan"}
                                    /\ pub[p].msg.type = "created" /\ pub[p].msg.session = r
        BY <2>1, <2>2 DEF Coming
      <3> QED BY <3>1, CreationOnce
    <2> QED BY <1>4, <2>1, <2>2
  <1>7. CASE Live(f)
    <2>1. feed[f] = "joined" /\ feed'[f] = "snapshot" /\ toRead'[f] = live /\ known'[f] = known[f]
      BY <1>5, <1>7 DEF Live, Filled
    <2> QED BY <1>4, <2>1 DEF Unshown
  <1>8. CASE SnapshotSession(f)
    <2>1. PICK s \in toRead[f] :
            /\ toRead' = [toRead EXCEPT ![f] = @ \ {s}]
            /\ known' = [known EXCEPT ![f] = @ \union ({s} \ ended)]
      BY <1>8 DEF SnapshotSession
    <2>2. feed[f] = "snapshot" /\ feed'[f] = "snapshot"
      BY <1>8 DEF SnapshotSession
    <2>3. toRead'[f] = toRead[f] \ {s} /\ known'[f] = known[f] \union ({s} \ ended) /\ s \in Sessions
      BY <2>1 DEF Filled
    <2>4. /\ once[s] = "new" => s \notin ended
          /\ once[s] # "new" /\ s \notin crossed => s \in ended
      BY <2>3 DEF Closes
    <2> QED BY <1>4, <2>2, <2>3, <2>4 DEF Shown, Unshown
  <1>9. CASE SnapshotSent(f)
    <2>1. /\ feed[f] = "snapshot" /\ feed'[f] = "loop" /\ toRead[f] = {}
          /\ known'[f] = known[f] /\ toRead'[f] = toRead[f]
      BY <1>5, <1>9 DEF SnapshotSent
    <2> QED BY <1>4, <2>1 DEF Shown, Unshown
  <1> QED BY <1>6, <1>7, <1>8, <1>9

\* A message that is taken out of the channel has been told.
LEMMA ReceiveShown ==
  ASSUME Typed, Filled, Closes, Attended, OwnNews, Shown, Unshown, NEW f \in Feeds, Receive(f)
  PROVE  Shown' /\ Unshown'
  <1> DEFINE m == chan[f][1]
  <1>1. /\ UNCHANGED <<at, about, once, live, crossed, pub, missed, feed, toRead>> /\ feed[f] = "loop"
        /\ known'[f] = Told(f, m)
        /\ \A g \in Feeds \ {f} : known'[g] = known[g] /\ chan'[g] = chan[g]
    <2>1. m = Head(chan[f])
      BY ReceiveComing
    <2> QED BY <2>1 DEF Receive, Filled, Typed, sessionVars, busVars
  <1>2. 1 \in 1..Len(chan[f]) /\ m \in Message /\ Len(chan[f]) \in Nat
    <2>1. chan[f] \in Seq(Message) /\ 1 \in 1..Len(chan[f])
      BY ReceiveComing DEF Typed
    <2> QED BY <2>1
  <1>3. \A g \in Feeds \ {f} : \A t, r : Coming(g, t, r)' <=> Coming(g, t, r)
    BY <1>1 DEF Coming
  <1>4. \A r : ClosingOwed(r)' <=> ClosingOwed(r)
    BY <1>1 DEF ClosingOwed
  <1>5. /\ m.type = "created" => known'[f] = known[f] \union {m.session}
        /\ m.type = "closed" => known'[f] = known[f] \ {m.session}
        /\ m.type \notin {"created", "closed"} => known'[f] = known[f]
    BY <1>1 DEF Told
  <1>6. m.type = "closed" =>
          /\ once[m.session] # "new"
          /\ m.session \in crossed
               \/ \A j \in 2..Len(chan[f]) :
                    chan[f][j].type = "created" => chan[f][j].session # m.session
    <2>1. m.type = "closed" =>
            /\ once[m.session] # "new"
            /\ m.session \in crossed
                 \/ \A j \in (1 + 1)..Len(chan[f]) :
                      chan[f][j].type = "created" => chan[f][j].session # m.session
      BY <1>2 DEF OwnNews
    <2> QED BY <2>1
  <1>7. \A t, r : /\ Coming(f, t, r)' => Coming(f, t, r)
                  /\ Coming(f, t, r) => Coming(f, t, r)' \/ (m.type = t /\ m.session = r)
                  /\ Coming(f, t, r)' =>
                       \/ \E i \in 2..Len(chan[f]) : chan[f][i].type = t /\ chan[f][i].session = r
                       \/ \E p \in Publishers : Carried(p, f, t, r)
    BY ReceiveComing
  <1>8. m.type \in {"created", "closed"} => Coming(f, m.type, m.session)
    BY <1>2 DEF Coming
  <1> HIDE DEF m
  <1>9. Shown'
    <2>1. ASSUME NEW s \in Sessions, s \in live, once[s] = "new", s \notin missed[f]
          PROVE  s \in known'[f] \/ at[s] = "announce" \/ Coming(f, "created", s)'
      <3>1. s \in known[f] \/ at[s] = "announce" \/ Coming(f, "created", s)
        BY <1>1, <2>1 DEF Shown
      <3>2. s \in known[f] => s \in known'[f]
        BY <1>5, <1>6, <2>1
      <3>3. Coming(f, "created", s) => s \in known'[f] \/ Coming(f, "created", s)'
        BY <1>5, <1>7
      <3> QED BY <3>1, <3>2, <3>3
    <2> QED BY <2>1, <1>1, <1>3 DEF Shown
  <1>10. Unshown'
    <2>1. ASSUME NEW s \in Sessions, s \in known'[f] \/ Coming(f, "created", s)',
                 once[s] # "new", s \notin missed[f], s \notin crossed
          PROVE  ClosingOwed(s) \/ Coming(f, "closed", s)'
      <3>1. ~(m.type = "closed" /\ m.session = s)
        <4> SUFFICES ASSUME m.type = "closed", m.session = s PROVE FALSE
          OBVIOUS
        <4>1. s \notin known'[f]
          BY <1>5
        <4>2. PICK p \in Publishers : Carried(p, f, "created", s)
          BY <1>6, <1>7, <2>1, <4>1
        <4> QED BY <2>1, <4>2, CreationOnce DEF Carried
      <3>2. s \in known[f] \/ Coming(f, "created", s)
        BY <1>5, <1>7, <1>8, <2>1
      <3>3. ClosingOwed(s) \/ Coming(f, "closed", s)
        BY <1>1, <2>1, <3>2 DEF Unshown
      <3> QED BY <1>7, <3>1, <3>3
    <2> QED BY <2>1, <1>1, <1>3, <1>4 DEF Unshown
  <1> QED BY <1>9, <1>10

\* The invariant of what a feed shows.
Reported == Filled /\ Placed /\ Closes /\ Attended /\ OwnNews /\ Shown /\ Unshown

\* At the start no feed is open and nothing is published.
LEMMA ReportedInit == ASSUME Init PROVE Reported
  <1>1. Attended /\ OwnNews
    BY DEF Init, Attended, OwnNews, NoPub
  <1>2. Shown /\ Unshown
    BY DEF Init, Shown, Unshown
  <1> QED BY <1>1, <1>2, FilledInit, ClosesInit DEF Reported

\* Every step keeps it.
LEMMA ReportedStep ==
  ASSUME Typed, Subscribed, Reported, [Next]_vars PROVE Reported'
  <1> USE DEF sessionVars, busVars, feedVars
  <1>1. Filled' /\ Placed' /\ Closes' /\ Attended' /\ OwnNews'
    BY FilledStep, PlacedStep, ClosesStep, AttendedStep, OwnNewsStep DEF Reported
  <1>2. ASSUME UNCHANGED <<at, about, once, live, crossed, known, toRead, pub, chan, missed>>,
               \A f \in Feeds : feed'[f] = feed[f] \/ feed'[f] \notin {"joined", "snapshot", "loop"}
        PROVE  Shown' /\ Unshown'
    <2>1. \A f \in Feeds : \A t, s : Coming(f, t, s)' <=> Coming(f, t, s)
      BY <1>2 DEF Coming
    <2>2. subs \subseteq Feeds
      BY DEF Typed, TypeOK
    <2> QED BY <1>2, <2>1, <2>2, Steady DEF Reported
  <1>3. ASSUME Acts PROVE Shown' /\ Unshown'
    BY <1>3, ActsShown DEF Reported
  <1>4. ASSUME NEW s \in Sessions, Elapse(s) PROVE Shown' /\ Unshown'
    BY <1>2, <1>4 DEF Elapse
  <1>5. ASSUME NEW p \in Publishers, Publish(p) PROVE Shown' /\ Unshown'
    BY <1>5, PublishTells, PublishComing, Steady DEF Reported
  <1>6. ASSUME NEW f \in Feeds, Serve(f) PROVE Shown' /\ Unshown'
    <2>1. CASE Subscribe(f) \/ Live(f) \/ SnapshotSession(f) \/ SnapshotSent(f)
      BY <2>1, SnapshotShown DEF Reported
    <2>2. CASE Receive(f)
      BY <2>2, ReceiveShown DEF Reported
    <2>3. CASE EndWrite(f) \/ SeeDone(f) \/ Unsubscribe(f) \/ PingPanics(f)
      <3>1. feed \in [Feeds -> {"off", "joined", "snapshot", "loop", "leaving", "closed"}]
        BY DEF Typed, TypeOK
      <3>2. \A g \in Feeds : feed'[g] = feed[g] \/ feed'[g] \notin {"joined", "snapshot", "loop"}
        BY <2>3, <3>1 DEF EndWrite, SeeDone, Unsubscribe, PingPanics
      <3> QED BY <1>2, <2>3, <3>2 DEF EndWrite, SeeDone, Unsubscribe, PingPanics
    <2> QED BY <1>6, <2>1, <2>2, <2>3 DEF Serve
  <1>7. ASSUME UNCHANGED vars PROVE Shown' /\ Unshown'
    BY <1>2, <1>7 DEF vars
  <1>8. Shown' /\ Unshown'
    BY <1>3, <1>4, <1>5, <1>6, <1>7 DEF Next, Acts
  <1> QED BY <1>1, <1>8 DEF Reported

(***************************************************************************)
(* A connection whose snapshot is written misses no session of the table   *)
(* whose Close nobody has begun: it is shown, or its creation is still to  *)
(* come, unless the bus dropped one of its messages.  For any number of    *)
(* sessions that come and go while the handler subscribes and reads, and   *)
(* of administrators who delete sessions and set their states.             *)
(***************************************************************************)
THEOREM KnowsOpen == Spec => []FeedKnowsOpen
  <1>1. Reported => FeedKnowsOpen
    BY DEF Reported, Shown, FeedKnowsOpen
  <1> QED BY <1>1, TypedInit, TypedStep, SubscribedInit, SubscribedStep, ReportedInit, ReportedStep,
             PTL DEF Spec

(***************************************************************************)
(* No connection shows for good a session that its goroutine or an         *)
(* administrator has closed: the closing is still to come, whatever the    *)
(* order in which the snapshot, the creation and the end reached it.  The  *)
(* sessions of which this fails are those deleted before their creation    *)
(* was published and those whose state was set after the closing.          *)
(***************************************************************************)
THEOREM ForgetsEnded == Spec => []FeedForgetsEnded
  <1>1. Reported => FeedForgetsEnded
    BY DEF Reported, Unshown, FeedForgetsEnded
  <1> QED BY <1>1, TypedInit, TypedStep, SubscribedInit, SubscribedStep, ReportedInit, ReportedStep,
             PTL DEF Spec

=============================================================================
