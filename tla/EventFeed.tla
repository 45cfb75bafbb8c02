------------------------------ MODULE EventFeed ------------------------------
(***************************************************************************)
(* The event bus (events.Bus) between the goroutines that publish session  *)
(* events and the administrators' WebSocket feeds (handleWS).  Publishing  *)
(* takes several critical sections; a feed subscribes, then reads the      *)
(* table of live sessions, then passes on what the bus put in its channel, *)
(* while a ping goroutine writes to the same connection.                   *)
(*                                                                         *)
(* The ring of recent messages is left out: nothing reads it.              *)
(***************************************************************************)
EXTENDS Naturals, Sequences

CONSTANTS
  Sessions,   \* sessions, each with the goroutine that runs it
  Admins,     \* handlers that control sessions, one request after another
  Feeds,      \* WebSocket connections, each opened once
  ChanCap,    \* capacity of a subscriber's channel, 512 in the code
  MaxNews,    \* bound: changes and chunks a session's goroutine publishes
  MaxRequests \* bound: messages a handler has published when it takes a last request

ASSUME FeedAssumption ==
  /\ ChanCap \in Nat \ {0} /\ MaxNews \in Nat /\ MaxRequests \in Nat
  /\ Sessions \intersect Admins = {}

VARIABLES
  at,       \* what each goroutine does next
  about,    \* the session that a goroutine is concerned with
  orders,   \* what a handler still has to do, with the sessions it looked up
  ended,    \* sessions whose state is ENDED or CLIENT_DISCONNECTED
  once,     \* closeOnce of each session: new, busy or over
  live,     \* Manager.live
  pub,      \* the message a goroutine is publishing and how far it got
  sent,     \* how many messages a goroutine has published
  throttle, \* sessions whose last accepted chunk is less than 100 ms old
  subs,     \* the subscribers
  chan,     \* each subscriber's channel
  feed,     \* where each handleWS is
  toRead,   \* live sessions whose state the snapshot has still to read
  known,    \* sessions the connection has reported as open
  seen,     \* number of the last message delivered of each publisher
  missed,   \* history: sessions of which a message to the feed was dropped
  crossed,  \* history: sessions closed before their creation was published, or
            \* whose state was set to another after that
  writing,  \* connections whose event loop is inside conn.WriteMessage
  down      \* a concurrent write has panicked and ended the process

sessionVars == <<at, about, orders, ended, once, live, crossed>>
busVars == <<pub, sent, throttle, subs, missed>>
feedVars == <<feed, toRead, known, seen, writing>>
vars == <<sessionVars, busVars, chan, feedVars, down>>

Publishers == Sessions \union Admins
Types == {"created", "updated", "chunk", "closed"}
Message == [type : Types, session : Sessions, from : Publishers, n : Nat]

NoPub == [stage |-> "idle"]

\* What a handler is asked to do to a session: Close it (a deletion), set its
\* state (pause, resume, take over, return, finish, inject), or something else.
Requests == {"close", "set", "tell"}

Init ==
  /\ at = [p \in Publishers |-> IF p \in Sessions THEN "register" ELSE "idle"]
  /\ about \in {to \in [Publishers -> Sessions] : \A s \in Sessions : to[s] = s}
  /\ orders = [a \in Admins |-> {}]
  /\ ended = {} /\ once = [s \in Sessions |-> "new"] /\ live = {} /\ crossed = {}
  /\ pub = [p \in Publishers |-> NoPub] /\ sent = [p \in Publishers |-> 0]
  /\ throttle = {} /\ subs = {} /\ chan = [f \in Feeds |-> <<>>]
  /\ feed = [f \in Feeds |-> "off"] /\ toRead = [f \in Feeds |-> {}]
  /\ known = [f \in Feeds |-> {}] /\ seen = [f \in Feeds |-> [p \in Publishers |-> 0]]
  /\ missed = [f \in Feeds |-> {}] /\ writing = {} /\ down = FALSE

-----------------------------------------------------------------------------
(***************************************************************************)
(* Publish.  b.mu is held for reading from the first send to the last.     *)
(***************************************************************************)
Idle(p) == pub[p].stage = "idle"
Unlocked == \A p \in Publishers : pub[p].stage # "fan"

\* A throttled chunk is dropped for every subscriber.
Begin(p, type, s) ==
  /\ pub' = [pub EXCEPT ![p] =
       [stage |-> IF type = "chunk" THEN "throttle" ELSE "send",
        msg |-> [type |-> type, session |-> s, from |-> p, n |-> sent[p] + 1]]]
  /\ sent' = [sent EXCEPT ![p] = @ + 1]

Throttle(p) ==
  /\ pub[p].stage = "throttle" /\ Unlocked
  /\ LET s == pub[p].msg.session IN
     IF s \in throttle
     THEN pub' = [pub EXCEPT ![p] = NoPub] /\ UNCHANGED throttle
     ELSE pub' = [pub EXCEPT ![p].stage = "send"] /\ throttle' = throttle \union {s}
  /\ UNCHANGED <<sessionVars, sent, subs, missed, chan, feedVars, down>>

Elapse(s) ==
  /\ s \in throttle /\ throttle' = throttle \ {s}
  /\ UNCHANGED <<sessionVars, pub, sent, subs, missed, chan, feedVars, down>>

\* The map of subscribers is ranged over under the read lock, which is given
\* back after the last of them.
Fan(p, to) ==
  pub' = [pub EXCEPT ![p] = IF to = {} THEN NoPub
                            ELSE [stage |-> "fan", msg |-> @.msg, to |-> to]]

FanOut(p) ==
  /\ pub[p].stage = "send"
  /\ Fan(p, subs)
  /\ UNCHANGED <<sessionVars, sent, throttle, subs, missed, chan, feedVars, down>>

\* Mutant of Send: wait for room instead of dropping.
SendWaiting(p, f) ==
  /\ pub[p].stage = "fan" /\ f \in pub[p].to /\ Len(chan[f]) < ChanCap
  /\ chan' = [chan EXCEPT ![f] = Append(@, pub[p].msg)]
  /\ Fan(p, pub[p].to \ {f})
  /\ UNCHANGED <<sessionVars, sent, throttle, subs, missed, feedVars, down>>

\* Mutant of Send: the channel grows without bound.
SendUnbounded(p, f) ==
  /\ pub[p].stage = "fan" /\ f \in pub[p].to
  /\ chan' = [chan EXCEPT ![f] = Append(@, pub[p].msg)]
  /\ Fan(p, pub[p].to \ {f})
  /\ UNCHANGED <<sessionVars, sent, throttle, subs, missed, feedVars, down>>

Send(p, f) ==
  /\ pub[p].stage = "fan" /\ f \in pub[p].to
  /\ IF Len(chan[f]) < ChanCap
     THEN chan' = [chan EXCEPT ![f] = Append(@, pub[p].msg)] /\ UNCHANGED missed
     ELSE missed' = [missed EXCEPT ![f] = @ \union {pub[p].msg.session}] /\ UNCHANGED chan
  /\ Fan(p, pub[p].to \ {f})
  /\ UNCHANGED <<sessionVars, sent, throttle, subs, feedVars, down>>

-----------------------------------------------------------------------------
(***************************************************************************)
(* A session's goroutine, and handlers that act on a session they found in *)
(* the table.  Run's goroutine that publishes the state every second does  *)
(* nothing that a handler does not.                                        *)
(***************************************************************************)
Steps(p, from, to) ==
  /\ Idle(p) /\ at[p] \in from
  /\ at' = [at EXCEPT ![p] = to]

\* Nothing is published in this step.
Silent == UNCHANGED <<pub, sent, throttle, subs, missed, chan, feedVars, down>>
Publishing == UNCHANGED <<throttle, subs, missed, chan, feedVars, down>>

\* Mutant of Register: the creation is published before the session is in the table.
RegisterAnnouncing(s) ==
  \/ /\ Steps(s, {"register"}, "announce") /\ Begin(s, "created", s)
     /\ UNCHANGED <<about, orders, ended, once, live, crossed>> /\ Publishing
  \/ /\ Steps(s, {"announce"}, "run") /\ live' = live \union {s}
     /\ UNCHANGED <<about, orders, ended, once, crossed>> /\ Silent

\* Into the table, then the publication.
Register(s) ==
  \/ /\ Steps(s, {"register"}, "announce") /\ live' = live \union {s}
     /\ UNCHANGED <<about, orders, ended, once, crossed>> /\ Silent
  \/ /\ Steps(s, {"announce"}, "run") /\ Begin(s, "created", s)
     /\ UNCHANGED <<about, orders, ended, once, live, crossed>> /\ Publishing

\* A unit is written.
Chunk(s) ==
  /\ Steps(s, {"run"}, "run") /\ sent[s] < MaxNews
  /\ Begin(s, "chunk", s)
  /\ UNCHANGED <<about, orders, ended, once, live, crossed>> /\ Publishing

\* Manager.Get, or Manager.Live when the request is for all sessions.
LookUp(a) ==
  /\ Steps(a, {"idle"}, "idle") /\ orders[a] = {} /\ sent[a] < MaxRequests
  /\ \E request \in Requests, found \in {live} \union {{s} : s \in live} :
       orders' = [orders EXCEPT ![a] = {request} \X found]
  /\ UNCHANGED <<about, ended, once, live, crossed>> /\ Silent

\* The next of the sessions found, whatever has become of it.
Turn(a) ==
  /\ \E order \in orders[a] :
       /\ Steps(a, {"idle"}, order[1]) /\ about' = [about EXCEPT ![a] = order[2]]
       /\ orders' = [orders EXCEPT ![a] = @ \ {order}]
  /\ UNCHANGED <<ended, once, live, crossed>> /\ Silent

\* SetState: a handler's, of what it was asked to do, or the runner's own.  It
\* does not ask whether the session is closed.
SetState(p) ==
  LET s == about[p] IN
  /\ \/ p \in Sessions /\ Steps(p, {"run"}, "run")
     \/ p \in Admins /\ \E next \in {"tell", "idle"} : Steps(p, {"set"}, next)
  /\ ended' = ended \ {s}
  /\ crossed' = IF once[s] = "new" THEN crossed ELSE crossed \union {s}
  /\ UNCHANGED <<about, orders, once, live>> /\ Silent

PublishState(p) ==
  /\ \/ p \in Sessions /\ Steps(p, {"run"}, "run") /\ sent[p] < MaxNews
     \/ p \in Admins /\ Steps(p, {"tell"}, "idle")
  /\ Begin(p, "updated", about[p])
  /\ UNCHANGED <<about, orders, ended, once, live, crossed>> /\ Publishing

-----------------------------------------------------------------------------
(***************************************************************************)
(* Close, by the session's goroutine or by a handler.  Whoever comes while *)
(* it is being done waits for that.                                        *)
(***************************************************************************)
\* Run closes in its loop and unregisters then, or the other way round.
Closers(p) ==
  CASE p \in Admins -> {"close"}
    [] p \in Sessions /\ p \in ended -> {"run"}
    [] OTHER -> {"run", "gone"}
AfterClose(p) ==
  IF p \in Admins THEN "idle" ELSE IF p \in live THEN "unregister" ELSE "done"

\* The creation has been published to all.
Announced(s) ==
  /\ at[s] \notin {"register", "announce"}
  /\ Idle(s) \/ pub[s].msg.type # "created"

CloseFirst(p) ==
  LET s == about[p] IN
  /\ Steps(p, Closers(p), "closing") /\ once[s] = "new"
  /\ once' = [once EXCEPT ![s] = "busy"] /\ ended' = ended \union {s}
  /\ crossed' = IF Announced(s) THEN crossed ELSE crossed \union {s}
  /\ UNCHANGED <<about, orders, live>> /\ Silent

CloseTells(p) ==
  /\ Steps(p, {"closing"}, "closed")
  /\ Begin(p, "closed", about[p])
  /\ UNCHANGED <<about, orders, ended, once, live, crossed>> /\ Publishing

CloseReturns(p) ==
  /\ Steps(p, {"closed"}, AfterClose(p))
  /\ once' = [once EXCEPT ![about[p]] = "over"]
  /\ UNCHANGED <<about, orders, ended, live, crossed>> /\ Silent

CloseAgain(p) ==
  /\ Steps(p, Closers(p), AfterClose(p)) /\ once[about[p]] = "over"
  /\ UNCHANGED <<about, orders, ended, once, live, crossed>> /\ Silent

Unregister(s) ==
  /\ Steps(s, {"run", "unregister"}, "gone")
  /\ live' = live \ {s}
  /\ UNCHANGED <<about, orders, ended, once, crossed>> /\ Silent

\* Run does not call Close when the state says that the session has ended.
NeedNotClose(s) ==
  /\ s \in ended /\ Steps(s, {"gone"}, "done")
  /\ UNCHANGED <<about, orders, ended, once, live, crossed>> /\ Silent

-----------------------------------------------------------------------------
(***************************************************************************)
(* handleWS.                                                               *)
(***************************************************************************)
Subscribe(f) ==
  /\ feed[f] = "off" /\ Unlocked
  /\ subs' = subs \union {f}
  /\ feed' = [feed EXCEPT ![f] = "joined"]
  /\ UNCHANGED <<sessionVars, pub, sent, throttle, missed, chan, toRead, known, seen,
                 writing, down>>

\* Manager.Live under the manager's lock, then each session's own snapshot.
Live(f) ==
  /\ feed[f] = "joined"
  /\ toRead' = [toRead EXCEPT ![f] = live]
  /\ feed' = [feed EXCEPT ![f] = "snapshot"]
  /\ UNCHANGED <<sessionVars, busVars, chan, known, seen, writing, down>>

\* Mutant of SnapshotSession: every session of the table counts as open.
SnapshotOfTable(f) ==
  /\ feed[f] = "snapshot"
  /\ \E s \in toRead[f] :
       /\ toRead' = [toRead EXCEPT ![f] = @ \ {s}]
       /\ known' = [known EXCEPT ![f] = @ \union {s}]
  /\ UNCHANGED <<sessionVars, busVars, chan, feed, seen, writing, down>>

SnapshotSession(f) ==
  /\ feed[f] = "snapshot"
  /\ \E s \in toRead[f] :
       /\ toRead' = [toRead EXCEPT ![f] = @ \ {s}]
       /\ known' = [known EXCEPT ![f] = @ \union ({s} \ ended)]
  /\ UNCHANGED <<sessionVars, busVars, chan, feed, seen, writing, down>>

SnapshotSent(f) ==
  /\ feed[f] = "snapshot" /\ toRead[f] = {}
  /\ feed' = [feed EXCEPT ![f] = "loop"]
  /\ UNCHANGED <<sessionVars, busVars, chan, toRead, known, seen, writing, down>>

\* What the message tells the client about the session.
Told(f, msg) ==
  CASE msg.type = "created" -> known[f] \union {msg.session}
    [] msg.type = "closed" -> known[f] \ {msg.session}
    [] OTHER -> known[f]

\* Mutant of Receive: the message is taken out only by the next one.
ReceivePeeking(f) ==
  /\ feed[f] = "loop" /\ f \notin writing /\ chan[f] # <<>>
  /\ LET msg == Head(chan[f]) IN
       /\ known' = [known EXCEPT ![f] = Told(f, msg)]
       /\ seen' = [seen EXCEPT ![f][msg.from] = msg.n]
  /\ writing' = writing \union {f}
  /\ UNCHANGED <<sessionVars, busVars, chan, feed, toRead, down>>

Receive(f) ==
  /\ feed[f] = "loop" /\ f \notin writing /\ chan[f] # <<>>
  /\ LET msg == Head(chan[f]) IN
       /\ chan' = [chan EXCEPT ![f] = Tail(@)]
       /\ known' = [known EXCEPT ![f] = Told(f, msg)]
       /\ seen' = [seen EXCEPT ![f][msg.from] = msg.n]
  /\ writing' = writing \union {f}
  /\ UNCHANGED <<sessionVars, busVars, feed, toRead, down>>

\* A write fails once the client has gone; the loop then returns.
EndWrite(f) ==
  /\ f \in writing /\ writing' = writing \ {f}
  /\ UNCHANGED feed \/ feed' = [feed EXCEPT ![f] = "leaving"]
  /\ UNCHANGED <<sessionVars, busVars, chan, toRead, known, seen, down>>

\* A ping in the middle of the loop's write: gorilla panics when it sees that
\* the connection is being written, and nobody recovers; a ping that comes too
\* early for that garbles the frames, any other changes nothing.
PingPanics(f) ==
  /\ f \in writing /\ down' = TRUE
  /\ UNCHANGED <<sessionVars, busVars, chan, feedVars>>

\* The client has gone, at any time, and the reader goroutine has closed done.
SeeDone(f) ==
  /\ feed[f] = "loop" /\ f \notin writing
  /\ feed' = [feed EXCEPT ![f] = "leaving"]
  /\ UNCHANGED <<sessionVars, busVars, chan, toRead, known, seen, writing, down>>

\* Mutant of Unsubscribe: the channel is closed without the bus's lock.
UnsubscribeUnlocked(f) ==
  /\ feed[f] = "leaving"
  /\ subs' = subs \ {f}
  /\ feed' = [feed EXCEPT ![f] = "closed"]
  /\ UNCHANGED <<sessionVars, pub, sent, throttle, missed, chan, toRead, known, seen,
                 writing, down>>

\* Deferred; under the lock the channel is closed.
Unsubscribe(f) ==
  /\ feed[f] = "leaving" /\ Unlocked
  /\ subs' = subs \ {f}
  /\ feed' = [feed EXCEPT ![f] = "closed"]
  /\ UNCHANGED <<sessionVars, pub, sent, throttle, missed, chan, toRead, known, seen,
                 writing, down>>

-----------------------------------------------------------------------------
Close(p) == CloseFirst(p) \/ CloseTells(p) \/ CloseReturns(p) \/ CloseAgain(p)

Publish(p) == Throttle(p) \/ FanOut(p) \/ (\E f \in Feeds : Send(p, f))

Serve(f) ==
  \/ Subscribe(f) \/ Live(f) \/ SnapshotSession(f) \/ SnapshotSent(f) \/ Receive(f)
  \/ EndWrite(f) \/ PingPanics(f) \/ SeeDone(f) \/ Unsubscribe(f)

Next ==
  /\ ~down
  /\ \/ \E s \in Sessions : Register(s) \/ Chunk(s) \/ Unregister(s) \/ NeedNotClose(s) \/ Elapse(s)
     \/ \E a \in Admins : LookUp(a) \/ Turn(a)
     \/ \E p \in Publishers : SetState(p) \/ PublishState(p) \/ Close(p) \/ Publish(p)
     \/ \E f \in Feeds : Serve(f)

Spec == Init /\ [][Next]_vars

\* Goroutines that publish run on.  Throttle waits for the write lock, which
\* a Go RWMutex does not let readers hold off for ever.  No feed need move.
Fairness ==
  \A p \in Publishers : /\ WF_vars(~down /\ Publish(p))
                        /\ SF_vars(~down /\ Throttle(p))

FairSpec == Spec /\ Fairness

-----------------------------------------------------------------------------
Places ==
  {"register", "announce", "run", "unregister", "gone", "done", "idle", "closing", "closed"}
    \union Requests

TypeOK ==
  /\ at \in [Publishers -> Places] /\ about \in [Publishers -> Sessions]
  /\ orders \in [Admins -> SUBSET (Requests \X Sessions)]
  /\ once \in [Sessions -> {"new", "busy", "over"}]
  /\ ended \subseteq Sessions /\ live \subseteq Sessions
  /\ \A p \in Publishers : pub[p].stage \in {"idle", "throttle", "send", "fan"}
  /\ throttle \subseteq Sessions /\ subs \subseteq Feeds /\ writing \subseteq Feeds
  /\ \A f \in Feeds : chan[f] \in Seq(Message) /\ Len(chan[f]) <= ChanCap
  /\ feed \in [Feeds -> {"off", "joined", "snapshot", "loop", "leaving", "closed"}]
  /\ down \in BOOLEAN

\* Messages about the session that are on their way to the feed.
Coming(f, type, s) ==
  \/ \E i \in 1..Len(chan[f]) : chan[f][i].type = type /\ chan[f][i].session = s
  \/ \E p \in Publishers : /\ pub[p].stage \in {"send", "fan"}
                           /\ pub[p].msg.type = type /\ pub[p].msg.session = s
                           /\ pub[p].stage = "fan" => f \in pub[p].to

\* Somebody is inside Close, about to publish.
ClosingOwed(s) == \E p \in Publishers : at[p] = "closing" /\ about[p] = s

(***************************************************************************)
(* An administrator's page shows every open session: once the snapshot is  *)
(* written, a session in the table whose Close nobody has begun was in it  *)
(* or its creation is on its way, whatever states handlers set, unless the *)
(* bus dropped a message of the session for this slow feed.  handleWS      *)
(* subscribes before it reads the table, and Register adds to the table    *)
(* before it publishes; either order reversed would lose sessions.         *)
(***************************************************************************)
FeedKnowsOpen ==
  \A f \in Feeds, s \in Sessions :
    (feed[f] = "loop" /\ s \in live /\ once[s] = "new" /\ s \notin missed[f]) =>
      s \in known[f] \/ at[s] = "announce" \/ Coming(f, "created", s)

(***************************************************************************)
(* No ghosts: a session that is closed, by its own goroutine or by an      *)
(* administrator, is not shown as open for good; the snapshot found it     *)
(* ended or its closing is on its way.  Exempt are two kinds of sessions   *)
(* that may be shown for ever: one that an administrator deletes before    *)
(* Register has published its creation, for the closing then comes first,  *)
(* and one whose state is set after it was closed (session.go:469), for a  *)
(* snapshot then takes it for open.                                        *)
(***************************************************************************)
FeedForgetsEnded ==
  \A f \in Feeds, s \in Sessions :
    (feed[f] = "loop" /\ s \in known[f] /\ once[s] # "new" /\ s \notin missed[f] \union crossed) =>
      ClosingOwed(s) \/ Coming(f, "closed", s)

(***************************************************************************)
(* A feed has the messages of one goroutine in the order it published      *)
(* them, each at most once, whatever was dropped between.                  *)
(***************************************************************************)
InOrder ==
  \A f \in Feeds : \A i \in 1..Len(chan[f]) :
    LET p == chan[f][i].from IN
    /\ chan[f][i].n > seen[f][p]
    /\ \A j \in (i + 1)..Len(chan[f]) : chan[f][j].from = p => chan[f][j].n > chan[f][i].n

(***************************************************************************)
(* Nothing is sent on a closed channel, which would panic: Unsubscribe     *)
(* closes it only when no goroutine is between two sends.                  *)
(***************************************************************************)
NoSendOnClosed ==
  \A p \in Publishers, f \in Feeds :
    (pub[p].stage = "fan" /\ f \in pub[p].to) => feed[f] # "closed"

(***************************************************************************)
(* "drop instead of blocking the engine" (bus.go:127): a goroutine that    *)
(* publishes goes on, even if no feed ever takes a message.                *)
(***************************************************************************)
NeverBlocksEngine == \A p \in Publishers : ~Idle(p) ~> (Idle(p) \/ down)

=============================================================================
