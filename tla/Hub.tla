-------------------------------- MODULE Hub ---------------------------------
(***************************************************************************)
(* The WebSocket hub of the API server (internal/core/ranking/websocket.go) *)
(* and one contest's room.  Every board the ranker stores is published on  *)
(* a Redis channel; the hub's subscriber forwards it to the Run loop, which *)
(* puts it into the send channel of every connection in the room.  ServeWS *)
(* registers a connection, waits for the stored board and starts the two   *)
(* pumps.                                                                  *)
(*                                                                         *)
(* A board is its version number; 0 is "no board stored yet".  Rooms of    *)
(* different contests share nothing but the channels, so one is modelled.  *)
(* A browser that reconnects is another member of Conns.                   *)
(***************************************************************************)
EXTENDS Integers, Sequences, FiniteSets, SequencesExt

CONSTANTS
    Conns,          \* the WebSocket connections
    SendBufSize,    \* capacity of a client's send channel
    RegisterCap,    \* capacity of the register and the unregister channel
    BroadcastCap,   \* capacity of the broadcast channel
    MaxBoards,      \* how many boards the ranker stores
    Faults, MaxFaults

ASSUME HubAssumption ==
    /\ {SendBufSize, RegisterCap, BroadcastCap} \subseteq Nat \ {0}
    /\ {MaxBoards, MaxFaults} \subseteq Nat

VARIABLES
    stored,     \* Redis: version of the stored board
    publishing, \* the ranker has stored a board and not yet published it
    sub,        \* the hub's Redis subscription: "on" or "off"
    inbox,      \* boards delivered to the subscription, not yet dispatched
    hub,        \* the Run loop: "running" or "stopped"
    register, unregister, broadcast,    \* the hub's channels
    rooms,      \* the connections in the room
    serve,      \* serve[c]: where ServeWS of c is
    fetch,      \* fetch[c]: the goroutine that reads the snapshot for c
    snap,       \* snap[c]: the board in c's snapshotCh
    send,       \* send[c]: the boards in c's send channel
    closes,     \* closes[c]: how often c's send channel has been closed
    reader, writer,     \* the pumps of c
    conn,       \* conn[c]: "open", "lost" (the peer is gone) or "closed"
    received,   \* history: the newest board written to c's connection
    lost,       \* history: the boards that never reached the Run loop
    budget      \* faults left

redisVars == <<stored, publishing, sub, inbox>>

chanVars == <<register, unregister, broadcast>>

serveVars == <<serve, fetch, snap>>

pumpVars == <<reader, writer, conn, received>>

vars == <<redisVars, hub, chanVars, rooms, serveVars, send, closes, pumpVars,
          lost, budget>>

Fault(kind) == kind \in Faults /\ budget > 0 /\ budget' = budget - 1

Running == hub = "running"

Closed(c) == closes[c] > 0

-----------------------------------------------------------------------------
\* The ranker: rebuildSnapshot stores a board, publishSnapshot publishes it.
StoreBoard ==
    /\ ~publishing
    /\ stored < MaxBoards
    /\ stored' = stored + 1
    /\ publishing' = TRUE
    /\ UNCHANGED <<sub, inbox, hub, chanVars, rooms, serveVars, send, closes,
                   pumpVars, lost, budget>>

\* Redis hands the board to whoever is subscribed at this moment; a failed
\* PUBLISH is only logged.
PublishBoard ==
    /\ publishing
    /\ publishing' = FALSE
    /\ \/ /\ sub = "on"
          /\ inbox' = Append(inbox, stored)
          /\ UNCHANGED <<lost, budget>>
       \/ /\ sub = "off"
          /\ lost' = lost \cup {stored}
          /\ UNCHANGED <<inbox, budget>>
       \/ /\ Fault("publish")
          /\ lost' = lost \cup {stored}
          /\ UNCHANGED inbox
    /\ UNCHANGED <<stored, sub, hub, chanVars, rooms, serveVars, send, closes,
                   pumpVars>>

-----------------------------------------------------------------------------
\* redisPubSubLoop, runPubSubOnce and dispatchPubSubMsg.

PSubscribe ==
    /\ Running
    /\ sub = "off"
    /\ sub' = "on"
    /\ UNCHANGED <<stored, publishing, inbox, hub, chanVars, rooms, serveVars,
                   send, closes, pumpVars, lost, budget>>

\* The subscription breaks, and what it had buffered is gone.
SubscriptionBreaks ==
    /\ sub = "on"
    /\ Fault("redis")
    /\ sub' = "off"
    /\ inbox' = <<>>
    /\ lost' = lost \cup ToSet(inbox)
    /\ UNCHANGED <<stored, publishing, hub, chanVars, rooms, serveVars, send,
                   closes, pumpVars>>

\* The send to the broadcast channel never blocks: a full channel drops the board.
DispatchPubSubMsg ==
    /\ Running
    /\ inbox # <<>>
    /\ inbox' = Tail(inbox)
    /\ \/ /\ Len(broadcast) < BroadcastCap
          /\ broadcast' = Append(broadcast, Head(inbox))
          /\ UNCHANGED lost
       \/ /\ Len(broadcast) = BroadcastCap
          /\ lost' = lost \cup {Head(inbox)}
          /\ UNCHANGED broadcast
    /\ UNCHANGED <<stored, publishing, sub, hub, register, unregister, rooms,
                   serveVars, send, closes, pumpVars, budget>>

-----------------------------------------------------------------------------
\* ServeWS.

\* The upgrade succeeds; the request waits for room in the register channel.
Upgrade(c) ==
    /\ serve[c] = "idle"
    /\ serve' = [serve EXCEPT ![c] = "register"]
    /\ conn' = [conn EXCEPT ![c] = "open"]
    /\ UNCHANGED <<redisVars, hub, chanVars, rooms, fetch, snap, send, closes,
                   reader, writer, received, lost, budget>>

SendRegister(c) ==
    /\ serve[c] = "register"
    /\ Len(register) < RegisterCap
    /\ register' = Append(register, c)
    /\ serve' = [serve EXCEPT ![c] = "await"]
    /\ UNCHANGED <<redisVars, hub, unregister, broadcast, rooms, fetch, snap,
                   send, closes, pumpVars, lost, budget>>

\* go client.writePump(); go client.readPump()
StartPumps(c) ==
    /\ serve' = [serve EXCEPT ![c] = "served"]
    /\ reader' = [reader EXCEPT ![c] = "running"]
    /\ writer' = [writer EXCEPT ![c] = "running"]

\* The snapshot has arrived, or its channel was closed without one.
AwaitSnapshot(c) ==
    /\ serve[c] = "await"
    /\ fetch[c] \in {"done", "failed"}
    /\ \/ /\ snap[c] > 0
          /\ serve' = [serve EXCEPT ![c] = "put"]
          /\ UNCHANGED <<reader, writer>>
       \/ snap[c] = 0 /\ StartPumps(c)
    /\ UNCHANGED <<redisVars, hub, chanVars, rooms, fetch, snap, send, closes,
                   conn, received, lost, budget>>

\* client.send <- snapshot: waits while the channel is full.
PutSnapshot(c) ==
    /\ serve[c] = "put"
    /\ ~Closed(c)
    /\ Len(send[c]) < SendBufSize
    /\ send' = [send EXCEPT ![c] = Append(@, snap[c])]
    /\ StartPumps(c)
    /\ UNCHANGED <<redisVars, hub, chanVars, rooms, fetch, snap, closes, conn,
                   received, lost, budget>>

\* A send on a closed channel panics, before or while it waits; the HTTP server
\* recovers, and the connection keeps neither pump.
PutPanics(c) ==
    /\ serve[c] = "put"
    /\ Closed(c)
    /\ serve' = [serve EXCEPT ![c] = "panicked"]
    /\ UNCHANGED <<redisVars, hub, chanVars, rooms, fetch, snap, send, closes,
                   pumpVars, lost, budget>>

-----------------------------------------------------------------------------
\* Run: the cases of its select.

\* Mutant: the snapshot is read before the client joins the room.
HandleRegisterReadFirst ==
    /\ Running
    /\ register # <<>>
    /\ LET c == Head(register)
       IN  \/ /\ fetch[c] = "none"
              /\ fetch' = [fetch EXCEPT ![c] = "reading"]
              /\ UNCHANGED <<rooms, register>>
           \/ /\ fetch[c] \in {"done", "failed"}
              /\ rooms' = rooms \cup {c}
              /\ register' = Tail(register)
              /\ UNCHANGED fetch
    /\ UNCHANGED <<redisVars, hub, unregister, broadcast, serve, snap, send,
                   closes, pumpVars, lost, budget>>

\* The client joins the room, then a goroutine reads the snapshot for it.
HandleRegister ==
    /\ Running
    /\ register # <<>>
    /\ register' = Tail(register)
    /\ rooms' = rooms \cup {Head(register)}
    /\ fetch' = [fetch EXCEPT ![Head(register)] = "reading"]
    /\ UNCHANGED <<redisVars, hub, unregister, broadcast, serve, snap, send,
                   closes, pumpVars, lost, budget>>

\* Mutant: a failed GET returns without closing snapshotCh.
FetchSnapshotUnclosed(c) ==
    /\ fetch[c] = "reading"
    /\ \/ /\ snap' = [snap EXCEPT ![c] = stored]
          /\ fetch' = [fetch EXCEPT ![c] = "done"]
          /\ UNCHANGED budget
       \/ /\ Fault("redis")
          /\ fetch' = [fetch EXCEPT ![c] = "none"]
          /\ UNCHANGED snap
    /\ UNCHANGED <<redisVars, hub, chanVars, rooms, serve, send, closes,
                   pumpVars, lost>>

\* The goroutine of handleRegister: GET and close(snapshotCh).  The request's
\* context ends with the hub's, and a failed GET delivers nothing.
FetchSnapshot(c) ==
    /\ fetch[c] = "reading"
    /\ \/ /\ Running
          /\ snap' = [snap EXCEPT ![c] = stored]
          /\ fetch' = [fetch EXCEPT ![c] = "done"]
          /\ UNCHANGED budget
       \/ /\ Fault("redis") \/ (~Running /\ UNCHANGED budget)
          /\ fetch' = [fetch EXCEPT ![c] = "failed"]
          /\ UNCHANGED snap
    /\ UNCHANGED <<redisVars, hub, chanVars, rooms, serve, send, closes,
                   pumpVars, lost>>

\* Mutant: no test whether the client is still in the room.
HandleUnregisterAlways ==
    /\ Running
    /\ unregister # <<>>
    /\ unregister' = Tail(unregister)
    /\ rooms' = rooms \ {Head(unregister)}
    /\ closes' = [closes EXCEPT ![Head(unregister)] = @ + 1]
    /\ UNCHANGED <<redisVars, hub, register, broadcast, serveVars, send,
                   pumpVars, lost, budget>>

\* The channel is closed only if the client is still in the room.
HandleUnregister ==
    /\ Running
    /\ unregister # <<>>
    /\ unregister' = Tail(unregister)
    /\ LET c == Head(unregister)
       IN  \/ /\ c \in rooms
              /\ rooms' = rooms \ {c}
              /\ closes' = [closes EXCEPT ![c] = @ + 1]
           \/ c \notin rooms /\ UNCHANGED <<rooms, closes>>
    /\ UNCHANGED <<redisVars, hub, register, broadcast, serveVars, send,
                   pumpVars, lost, budget>>

\* Mutant: a full channel does not stop the send.
HandleBroadcastUnbounded ==
    /\ Running
    /\ broadcast # <<>>
    /\ broadcast' = Tail(broadcast)
    /\ send' = [c \in Conns |->
                   IF c \in rooms THEN Append(send[c], Head(broadcast)) ELSE send[c]]
    /\ UNCHANGED <<redisVars, hub, register, unregister, rooms, serveVars, closes,
                   pumpVars, lost, budget>>

\* A client whose channel is full is evicted and its channel closed.
HandleBroadcast ==
    /\ Running
    /\ broadcast # <<>>
    /\ broadcast' = Tail(broadcast)
    /\ LET slow == {c \in rooms : Len(send[c]) = SendBufSize}
       IN  /\ send' = [c \in Conns |->
                          IF c \in rooms \ slow THEN Append(send[c], Head(broadcast))
                          ELSE send[c]]
           /\ rooms' = rooms \ slow
           /\ closes' = [c \in Conns |-> closes[c] + (IF c \in slow THEN 1 ELSE 0)]
    /\ UNCHANGED <<redisVars, hub, register, unregister, serveVars, pumpVars,
                   lost, budget>>

\* ctx.Done: shutdownAllClients; the subscriber ends with the same context.
Shutdown ==
    /\ Running
    /\ Fault("shutdown")
    /\ hub' = "stopped"
    /\ closes' = [c \in Conns |-> closes[c] + (IF c \in rooms THEN 1 ELSE 0)]
    /\ rooms' = {}
    /\ sub' = "off"
    /\ inbox' = <<>>
    /\ UNCHANGED <<stored, publishing, chanVars, serveVars, send, pumpVars, lost>>

-----------------------------------------------------------------------------
\* writePump and readPump.

\* writePump ends: conn.Close().
WriterReturns(c) ==
    /\ writer' = [writer EXCEPT ![c] = "done"]
    /\ conn' = [conn EXCEPT ![c] = "closed"]

\* Everything queued goes into one frame, board after board.  Written to a peer that is gone it
\* vanishes, or the write fails.
WriteFrame(c) ==
    /\ writer[c] = "running"
    /\ send[c] # <<>>
    /\ send' = [send EXCEPT ![c] = <<>>]
    /\ \/ /\ conn[c] = "open"
          /\ received' = [received EXCEPT ![c] = Max({@} \cup ToSet(send[c]))]
          /\ UNCHANGED <<writer, conn>>
       \/ conn[c] = "lost" /\ UNCHANGED <<writer, conn, received>>
       \/ conn[c] = "lost" /\ WriterReturns(c) /\ UNCHANGED received
    /\ UNCHANGED <<redisVars, hub, chanVars, rooms, serveVars, closes, reader,
                   lost, budget>>

\* The channel is closed and drained, or a Ping cannot be written.
WriterEnds(c) ==
    /\ writer[c] = "running"
    /\ \/ Closed(c) /\ send[c] = <<>>
       \/ conn[c] = "lost"
    /\ WriterReturns(c)
    /\ UNCHANGED <<redisVars, hub, chanVars, rooms, serveVars, send, closes,
                   reader, received, lost, budget>>

\* ReadMessage fails: the connection is gone, or no Pong came in time.
ReadFails(c) ==
    /\ reader[c] = "running"
    /\ \/ conn[c] # "open" /\ UNCHANGED budget
       \/ conn[c] = "open" /\ Fault("pong")
    /\ reader' = [reader EXCEPT ![c] = "leaving"]
    /\ UNCHANGED <<redisVars, hub, chanVars, rooms, serveVars, send, closes,
                   writer, conn, received, lost>>

\* Mutant: the send does not wait for room in the channel.
SendUnregisterDropped(c) ==
    /\ reader[c] = "leaving"
    /\ unregister' = IF unregister = <<>> THEN <<c>> ELSE unregister
    /\ reader' = [reader EXCEPT ![c] = "done"]
    /\ UNCHANGED <<redisVars, hub, register, broadcast, rooms, serveVars, send,
                   closes, writer, conn, received, lost, budget>>

\* The deferred send to the unregister channel, when there is room in it.
SendUnregister(c) ==
    /\ reader[c] = "leaving"
    /\ Len(unregister) < RegisterCap
    /\ unregister' = Append(unregister, c)
    /\ reader' = [reader EXCEPT ![c] = "done"]
    /\ UNCHANGED <<redisVars, hub, register, broadcast, rooms, serveVars, send,
                   closes, writer, conn, received, lost, budget>>

\* The browser goes away.
PeerLeaves(c) ==
    /\ conn[c] = "open"
    /\ Fault("leave")
    /\ conn' = [conn EXCEPT ![c] = "lost"]
    /\ UNCHANGED <<redisVars, hub, chanVars, rooms, serveVars, send, closes,
                   reader, writer, received, lost>>

-----------------------------------------------------------------------------
Init ==
    /\ stored = 0 /\ publishing = FALSE
    /\ sub = "off" /\ inbox = <<>>
    /\ hub = "running"
    /\ register = <<>> /\ unregister = <<>> /\ broadcast = <<>>
    /\ rooms = {}
    /\ serve = [c \in Conns |-> "idle"]
    /\ fetch = [c \in Conns |-> "none"]
    /\ snap = [c \in Conns |-> 0]
    /\ send = [c \in Conns |-> <<>>]
    /\ closes = [c \in Conns |-> 0]
    /\ reader = [c \in Conns |-> "none"]
    /\ writer = [c \in Conns |-> "none"]
    /\ conn = [c \in Conns |-> "none"]
    /\ received = [c \in Conns |-> 0]
    /\ lost = {}
    /\ budget = MaxFaults

ServeWS(c) ==
    \/ Upgrade(c) \/ SendRegister(c) \/ AwaitSnapshot(c) \/ PutSnapshot(c)
    \/ PutPanics(c)

Run == HandleRegister \/ HandleUnregister \/ HandleBroadcast \/ Shutdown

Pumps(c) == WriteFrame(c) \/ WriterEnds(c) \/ ReadFails(c) \/ SendUnregister(c)

Next ==
    \/ StoreBoard \/ PublishBoard
    \/ PSubscribe \/ SubscriptionBreaks \/ DispatchPubSubMsg
    \/ Run
    \/ \E c \in Conns : ServeWS(c) \/ FetchSnapshot(c) \/ Pumps(c) \/ PeerLeaves(c)

Spec == Init /\ [][Next]_vars

\* Every goroutine that can take a step takes one: Run's select picks among the
\* ready cases at random, ReadMessage has a deadline of pongWait, writePump a
\* ticker.  Nothing is assumed of the browser, the ranker or the operator.
FairSpec ==
    /\ Spec
    /\ WF_vars(HandleRegister) /\ WF_vars(HandleUnregister) /\ WF_vars(HandleBroadcast)
    /\ \A c \in Conns :
          /\ WF_vars(SendRegister(c)) /\ WF_vars(AwaitSnapshot(c))
          /\ WF_vars(PutSnapshot(c) \/ PutPanics(c)) /\ WF_vars(FetchSnapshot(c))
          /\ WF_vars(WriteFrame(c) \/ WriterEnds(c))
          /\ WF_vars(ReadFails(c) /\ conn[c] # "open") /\ WF_vars(SendUnregister(c))

-----------------------------------------------------------------------------
\* Properties.

RedisTypeOK ==
    /\ stored \in 0 .. MaxBoards
    /\ publishing \in BOOLEAN
    /\ sub \in {"on", "off"}
    /\ inbox \in Seq(1 .. MaxBoards)
    /\ lost \subseteq 1 .. MaxBoards
    /\ budget \in 0 .. MaxFaults

ChannelsTypeOK ==
    /\ hub \in {"running", "stopped"}
    /\ register \in Seq(Conns) /\ Len(register) <= RegisterCap
    /\ unregister \in Seq(Conns) /\ Len(unregister) <= RegisterCap
    /\ broadcast \in Seq(1 .. MaxBoards) /\ Len(broadcast) <= BroadcastCap
    /\ rooms \subseteq Conns
    /\ send \in [Conns -> Seq(1 .. MaxBoards)]
    /\ \A c \in Conns : Len(send[c]) <= SendBufSize
    /\ closes \in [Conns -> Nat]

ClientsTypeOK ==
    /\ serve \in [Conns -> {"idle", "register", "await", "put", "served", "panicked"}]
    /\ fetch \in [Conns -> {"none", "reading", "done", "failed"}]
    /\ snap \in [Conns -> 0 .. MaxBoards]
    /\ reader \in [Conns -> {"none", "running", "leaving", "done"}]
    /\ writer \in [Conns -> {"none", "running", "done"}]
    /\ conn \in [Conns -> {"none", "open", "lost", "closed"}]
    /\ received \in [Conns -> 0 .. MaxBoards]

\* Every variable keeps its type, and no channel holds more than its capacity.
TypeOK == RedisTypeOK /\ ChannelsTypeOK /\ ClientsTypeOK

\* The Run loop never panics: a connection in the room has an open channel, and
\* no channel is closed twice, whatever the order in which a slow client is
\* evicted, its pumps leave and the hub shuts down.
ChannelClosedOnce ==
    \A c \in Conns : closes[c] <= (IF c \in rooms THEN 0 ELSE 1)

Quiet ==
    /\ ~publishing /\ sub = "on" /\ Running
    /\ inbox = <<>> /\ broadcast = <<>> /\ unregister = <<>>

\* No board falls into the gap between the snapshot and the room: when nothing is
\* under way, a served connection has been sent the newest board, unless it was
\* lost before it reached the hub or the snapshot could not be read.
NoBoardMissed ==
    Quiet =>
        \A c \in rooms :
            /\ serve[c] = "served" /\ writer[c] = "running"
            /\ conn[c] = "open" /\ send[c] = <<>>
            /\ fetch[c] = "done"
            /\ stored \notin lost
            => received[c] = stored

\* A browser that is gone does not stay in the room, once its pumps run and while
\* the hub does.
GoneLeavesRoom ==
    \A c \in Conns :
        reader[c] = "running" /\ conn[c] # "open" ~> c \notin rooms \/ ~Running

\* ServeWS does not wait for ever: it starts the pumps or panics, unless the hub
\* has stopped or the send channel is full before anyone drains it.
ServeWSReturns ==
    \A c \in Conns :
        serve[c] \in {"register", "await", "put"} ~>
            \/ serve[c] \in {"served", "panicked"}
            \/ ~Running
            \/ Len(send[c]) = SendBufSize
=============================================================================
