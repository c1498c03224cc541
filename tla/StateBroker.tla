----------------------------- MODULE StateBroker -----------------------------
(***************************************************************************)
(* The in-process broker behind GET /op/state and /op/state/sse, with its  *)
(* callers: requests that probe the database and publish the snapshot, job *)
(* runs that publish their transitions, and SSE requests, which publish a  *)
(* snapshot, subscribe and then forward what their channel yields.         *)
(*                                                                         *)
(* Two locks: publishMu guards the cached snapshot only, and the RWMutex   *)
(* the map of subscribers.  A publisher holds the read side while it sends *)
(* to one channel after another; Subscribe and cancel take the write side  *)
(* for one map operation, so those are single steps that wait for readers. *)
(***************************************************************************)
EXTENDS Naturals, Sequences, FiniteSets, SequencesExt

CONSTANTS Subscribers,    \* GET /op/state/sse requests
          Probers,        \* GET /op/state requests
          Runs,           \* job runs, each publishing its start and its end
          Cap             \* capacity of a subscriber's channel (32 in the code)

ASSUME BrokerAssumption ==
    /\ Cap \in Nat \ {0}
    /\ Subscribers \cap Probers = {}
    /\ Runs \cap (Subscribers \cup Probers) = {}

Procs == Subscribers \cup Probers \cup Runs

VARIABLES
    db,           \* whether the database answers a ping
    last,         \* the state in Broker.last
    pc,           \* where each request or run is
    snap,         \* the state in the snapshot it has in hand
    ev,           \* the event it is publishing
    left,         \* the channels its fan-out has not visited yet
    subscribed,   \* Broker.subscribers
    chan,         \* the buffered channel of each subscriber
    closed,       \* the channels that are closed
    gone,         \* the SSE requests whose context is done
    frames,       \* history: the events written to a subscriber as SSE frames
    due,          \* history: the events published while it was subscribed
    missed        \* history: those dropped because its channel was full

brokerVars == <<last, subscribed, chan, closed>>
histVars == <<frames, due, missed>>
streamVars == <<db, pc, snap, ev, left, gone, brokerVars, histVars>>

States == {"starting", "available", "unavailable"}
Events == [kind : {"snapshot", "changed", "job"}, src : Procs,
           state : States \cup {"running", "ended"}]
StateEvent(kind, p, s) == [kind |-> kind, src |-> p, state |-> s]
JobEvent(p, what) == [kind |-> "job", src |-> p, state |-> what]

PCs == {"probe", "cache", "lock", "fanout", "register", "replay", "send", "loop", "end"}

StreamTypeOK ==
    /\ db \in BOOLEAN
    /\ last \in States
    /\ pc \in [Procs -> PCs]
    /\ snap \in [Procs -> States]
    /\ ev \in [Procs -> Events]
    /\ left \in [Procs -> SUBSET Subscribers]
    /\ subscribed \subseteq Subscribers
    /\ chan \in [Subscribers -> Seq(Events)]
    /\ closed \subseteq Subscribers
    /\ gone \subseteq Subscribers
    /\ frames \in [Subscribers -> Seq(Events)]
    /\ due \in [Subscribers -> SUBSET Events]
    /\ missed \in [Subscribers -> SUBSET Events]

StreamInit ==
    /\ db = TRUE
    /\ last = "starting"
    /\ pc = [p \in Procs |-> IF p \in Runs THEN "lock" ELSE "probe"]
    /\ snap = [p \in Procs |-> "starting"]
    /\ ev = [p \in Procs |-> JobEvent(p, "running")]
    /\ left = [p \in Procs |-> {}]
    /\ subscribed = {}
    /\ chan = [s \in Subscribers |-> <<>>]
    /\ closed = {}
    /\ gone = {}
    /\ frames = [s \in Subscribers |-> <<>>]
    /\ due = [s \in Subscribers |-> {}]
    /\ missed = [s \in Subscribers |-> {}]

Goto(p, here, there) == pc[p] = here /\ pc' = [pc EXCEPT ![p] = there]

-----------------------------------------------------------------------------
(* The surroundings.                                                       *)

DatabaseChange ==
    /\ db' = ~db
    /\ UNCHANGED <<pc, snap, ev, left, gone, brokerVars, histVars>>

\* The client of an SSE request goes away: its context is cancelled.
ClientGone(s) ==
    /\ s \notin gone
    /\ gone' = gone \cup {s}
    /\ UNCHANGED <<db, pc, snap, ev, left, brokerVars, histVars>>

-----------------------------------------------------------------------------
(* Publishing.                                                             *)

\* currentSnapshot.  (It keeps the `since` of the cached snapshot, whatever
\* the state: that field and the list of dependencies are left out.)
Probe(p) ==
    /\ Goto(p, "probe", "cache")
    /\ snap' = [snap EXCEPT ![p] = IF db THEN "available" ELSE "unavailable"]
    /\ UNCHANGED <<db, ev, left, gone, brokerVars, histVars>>

\* Where a caller goes after its publication.
After(p) == IF p \in Subscribers THEN "register" ELSE "end"

\* PublishSnapshot, under publishMu; the change is announced after the unlock.
CacheSame(p) ==
    /\ last = snap[p]
    /\ Goto(p, "cache", After(p))
    /\ last' = snap[p]
    /\ UNCHANGED <<db, snap, ev, left, gone, subscribed, chan, closed, histVars>>

CacheChanged(p) ==
    /\ last # snap[p]
    /\ Goto(p, "cache", "lock")
    /\ last' = snap[p]
    /\ ev' = [ev EXCEPT ![p] = StateEvent("changed", p, snap[p])]
    /\ UNCHANGED <<db, snap, left, gone, subscribed, chan, closed, histVars>>

\* Publish: RLock and range over the subscribers ...
RLock(p) ==
    /\ Goto(p, "lock", "fanout")
    /\ left' = [left EXCEPT ![p] = subscribed]
    /\ due' = [s \in Subscribers |->
                 IF s \in subscribed THEN due[s] \cup {ev[p]} ELSE due[s]]
    /\ UNCHANGED <<db, snap, ev, gone, brokerVars, frames, missed>>

\* Mutant of Deliver: the send waits for room in the channel.
DeliverWaits(p, s) ==
    /\ pc[p] = "fanout" /\ s \in left[p]
    /\ Len(chan[s]) < Cap
    /\ left' = [left EXCEPT ![p] = @ \ {s}]
    /\ chan' = [chan EXCEPT ![s] = Append(@, ev[p])]
    /\ UNCHANGED <<db, pc, snap, ev, gone, last, subscribed, closed, frames, due, missed>>

\* Mutant of Deliver: a channel may be visited again.
DeliverAgain(p, s) ==
    /\ pc[p] = "fanout" /\ s \in left[p]
    /\ Len(chan[s]) < Cap
    /\ chan' = [chan EXCEPT ![s] = Append(@, ev[p])]
    /\ UNCHANGED <<db, pc, snap, ev, left, gone, last, subscribed, closed, frames, due, missed>>

\* ... with a send that never blocks: a full channel misses the event.
Deliver(p, s) ==
    /\ pc[p] = "fanout" /\ s \in left[p]
    /\ left' = [left EXCEPT ![p] = @ \ {s}]
    /\ \/ /\ Len(chan[s]) < Cap
          /\ chan' = [chan EXCEPT ![s] = Append(@, ev[p])]
          /\ UNCHANGED missed
       \/ /\ Len(chan[s]) >= Cap
          /\ missed' = [missed EXCEPT ![s] = @ \cup {ev[p]}]
          /\ UNCHANGED chan
    /\ UNCHANGED <<db, pc, snap, ev, gone, last, subscribed, closed, frames, due>>

\* Mutant of RUnlock: the fan-out ends before every channel was visited.
RUnlockEarly(p) ==
    /\ p \in Runs /\ ev[p].state = "running"
    /\ Goto(p, "fanout", "lock")
    /\ ev' = [ev EXCEPT ![p] = JobEvent(p, "ended")]
    /\ UNCHANGED <<db, snap, left, gone, brokerVars, histVars>>

\* A run goes on to publish its end.
RUnlock(p) ==
    /\ left[p] = {}
    /\ \/ /\ p \in Runs /\ ev[p].state = "running"
          /\ Goto(p, "fanout", "lock")
          /\ ev' = [ev EXCEPT ![p] = JobEvent(p, "ended")]
       \/ /\ ~(p \in Runs /\ ev[p].state = "running")
          /\ Goto(p, "fanout", After(p))
          /\ UNCHANGED ev
    /\ UNCHANGED <<db, snap, left, gone, brokerVars, histVars>>

Publish(p) ==
    \/ Probe(p) \/ CacheSame(p) \/ CacheChanged(p)
    \/ RLock(p) \/ RUnlock(p)
    \/ \E s \in Subscribers : Deliver(p, s)

-----------------------------------------------------------------------------
(* Subscribing.                                                            *)

\* The write lock of the map waits until no publisher holds the read lock.
NoReader == \A p \in Procs : pc[p] # "fanout"

Register(s) ==
    /\ NoReader
    /\ Goto(s, "register", "replay")
    /\ subscribed' = subscribed \cup {s}
    /\ UNCHANGED <<db, snap, ev, left, gone, last, chan, closed, histVars>>

\* The operand of the send: LastSnapshot, under publishMu.
Replay(s) ==
    /\ Goto(s, "replay", "send")
    /\ snap' = [snap EXCEPT ![s] = last]
    /\ UNCHANGED <<db, ev, left, gone, brokerVars, histVars>>

\* This send blocks while the channel is full; the goroutine that watches
\* the context is started after it.
SendSnapshot(s) ==
    /\ Len(chan[s]) < Cap
    /\ Goto(s, "send", "loop")
    /\ chan' = [chan EXCEPT ![s] = Append(@, StateEvent("snapshot", s, snap[s]))]
    /\ UNCHANGED <<db, snap, ev, left, gone, last, subscribed, closed, histVars>>

\* The handler takes an event from the channel and writes it as a frame.
WriteFrame(s) ==
    /\ chan[s] # <<>>
    /\ chan' = [chan EXCEPT ![s] = Tail(@)]
    /\ frames' = [frames EXCEPT ![s] = Append(@, Head(chan[s]))]

Receive(s) ==
    /\ pc[s] = "loop"
    /\ WriteFrame(s)
    /\ UNCHANGED <<db, pc, snap, ev, left, gone, last, subscribed, closed, due, missed>>

\* Mutant of Cancel: the map is changed without the write lock.
CancelUnlocked(s) ==
    /\ subscribed' = subscribed \ {s}
    /\ closed' = IF s \in subscribed THEN closed \cup {s} ELSE closed

\* cancel is idempotent: the second call finds no entry in the map.
Cancel(s) ==
    /\ NoReader
    /\ subscribed' = subscribed \ {s}
    /\ closed' = IF s \in subscribed THEN closed \cup {s} ELSE closed

\* The goroutine started by Subscribe calls cancel when the context is done.
Watch(s) ==
    /\ pc[s] = "loop" /\ s \in gone /\ s \in subscribed
    /\ Cancel(s)
    /\ UNCHANGED <<db, pc, snap, ev, left, gone, last, chan, histVars>>

\* The handler returns: its context is done, or the channel closed and empty;
\* its deferred cancel runs.
Leave(s) ==
    /\ s \in gone \/ (s \in closed /\ chan[s] = <<>>)
    /\ Goto(s, "loop", "end")
    /\ Cancel(s)
    /\ UNCHANGED <<db, snap, ev, left, gone, last, chan, histVars>>

\* A write to the client fails, of a frame or of a keep-alive: the handler
\* returns too, and the context ends with the request.
FailWrite(s) ==
    /\ Goto(s, "loop", "end")
    /\ WriteFrame(s) \/ UNCHANGED <<chan, frames>>
    /\ Cancel(s)
    /\ gone' = gone \cup {s}
    /\ UNCHANGED <<db, snap, ev, left, last, due, missed>>

Subscribe(s) == Register(s) \/ Replay(s) \/ SendSnapshot(s)

StreamNext ==
    \/ DatabaseChange
    \/ \E p \in Procs : Publish(p)
    \/ \E s \in Subscribers :
          \/ Subscribe(s) \/ Receive(s) \/ Watch(s) \/ Leave(s)
          \/ FailWrite(s) \/ ClientGone(s)

StreamSpec == StreamInit /\ [][StreamNext]_streamVars

\* Goroutines that can run do.  Nothing is assumed of Receive, which waits
\* for the network, nor of clients, of the database or of the clock.
FairStreamSpec ==
    /\ StreamSpec
    /\ \A p \in Procs : WF_streamVars(Publish(p))
    /\ \A s \in Subscribers : WF_streamVars(Subscribe(s)) /\ WF_streamVars(Watch(s))

-----------------------------------------------------------------------------
(* Correctness.                                                            *)

\* Nobody sends on a closed channel, which would end the process: neither a
\* publisher in the middle of its fan-out nor Subscribe with the snapshot.
NoSendOnClosed ==
    /\ \A p \in Procs : pc[p] = "fanout" => left[p] \cap closed = {}
    /\ \A s \in Subscribers : pc[s] = "send" => s \notin closed

\* Everything published while a subscriber is in the map is on its way to
\* it, or was dropped because its channel was full; nothing is lost otherwise.
DeliveredUnlessFull ==
    \A s \in subscribed :
       due[s] = missed[s]
                \cup {e \in ToSet(frames[s] \o chan[s]) : e.kind # "snapshot"}
                \cup {ev[p] : p \in {q \in Procs : pc[q] = "fanout" /\ s \in left[q]}}

\* A subscriber sees no event twice, and the end of a run after its start.
RunsInOrder ==
    \A s \in Subscribers :
       LET seen == frames[s] \o chan[s] IN
       \A m, n \in 1..Len(seen) : m < n =>
          /\ seen[m] # seen[n]
          /\ seen[m].src = seen[n].src => seen[m].state # "ended"

\* A publisher is never held up by subscribers, however slow they are.
PublishersFinish ==
    \A p \in Probers \cup Runs : pc[p] = "lock" ~> pc[p] = "end"
=============================================================================
