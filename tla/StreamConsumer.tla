--------------------------- MODULE StreamConsumer ---------------------------
(***************************************************************************)
(* One Redis stream read by one consumer group through                     *)
(* internal/mq/redis/stream.go: Publish, Subscribe, drainPending, dispatch *)
(* and the parts of Redis Streams they rely on.                            *)
(*                                                                         *)
(* The module has no Next of its own.  The components that call Subscribe  *)
(* (the judger's scheduler, the API server's result writer, the ranking    *)
(* service) instantiate it with their goroutines as Procs and put their    *)
(* handler between the delivery and the acknowledgement of a message.      *)
(*                                                                         *)
(* A message is named by its position in the stream: Redis gives out       *)
(* increasing entry IDs, and nothing else of an ID is used.                *)
(***************************************************************************)
EXTENDS Naturals, Sequences, FiniteSets

CONSTANTS
    Procs,         \* the goroutines that call Subscribe on this group
    PendingBatch,  \* pendingBatch: entries XPENDING lists at a time
    StreamMaxLen   \* streamMaxLen: XADD trims no entry while this many remain

VARIABLES
    log,    \* the stream: log.msgs in publication order, trimmed below log.first
    grp,    \* the group: next entry to deliver, Pending Entries List
    at,     \* at[p]: where goroutine p is in Subscribe
    cur,    \* cur[p]: the entry p's handler is working on
    batch,  \* batch[p]: entries p claimed in drainPending, not yet dispatched
    full    \* full[p]: p's last XPENDING listed a full batch

streamVars == <<log, grp, at, cur, batch, full>>

procVars == <<at, cur, batch, full>>

-----------------------------------------------------------------------------
\* Redis (external): the stream and its consumer group.

EmptyLog == [msgs |-> <<>>, first |-> 1]

\* XGROUP CREATE ... "0": a new group starts at the oldest entry.
NewGroup == [next |-> 1, pel |-> {}]

Smallest(S) == CHOOSE i \in S : \A j \in S : i <= j

\* XADD MAXLEN ~ StreamMaxLen: the entry is appended; Redis may drop old
\* entries, read or not, as long as StreamMaxLen entries remain.
XAdd(l, m) ==
    {[msgs |-> Append(l.msgs, m), first |-> f] :
        f \in {l.first} \cup
              {i \in l.first .. Len(l.msgs) + 1 :
                  Len(l.msgs) + 2 - i >= StreamMaxLen}}

\* The entry XREADGROUP ">" returns next; trimmed entries are skipped.
NextEntry == IF grp.next < log.first THEN log.first ELSE grp.next

HasNew == NextEntry <= Len(log.msgs)

\* Mutant: XREADGROUP with NOACK, nothing becomes pending.
DeliverNoAck(c) == grp' = [grp EXCEPT !.next = NextEntry + 1]

\* The entry is delivered to consumer name c and pending for it.
Deliver(c) ==
    grp' = [next |-> NextEntry + 1,
            pel  |-> grp.pel \cup {[id |-> NextEntry, owner |-> c]}]

\* Mutant: XPENDING without the consumer's name.
PendingOfAnyone(c) == {e.id : e \in grp.pel}

\* The entries pending for consumer name c.
PendingOf(c) == {e.id : e \in {x \in grp.pel : x.owner = c}}

Unpended(g, ids) == [g EXCEPT !.pel = {e \in g.pel : e.id \notin ids}]

PendingIds(g) == {e.id : e \in g.pel}

\* Delivered at some time and pending for no consumer any more.
Settled == {i \in 1 .. Len(log.msgs) : i < grp.next /\ i \notin PendingIds(grp)}

-----------------------------------------------------------------------------
\* stream.go.

\* Publish: m is appended; what the caller is told is the caller's business.
Publish(m) == log' \in XAdd(log, m)

\* Mutant: Subscribe starts its main loop without drainPending.
EnsureGroupSkipsDrain(p) ==
    /\ at[p] = "subscribe"
    /\ at' = [at EXCEPT ![p] = "poll"]
    /\ UNCHANGED <<log, grp, cur, batch, full>>

\* ensureGroup succeeds (creating the group twice is no error).
EnsureGroup(p) ==
    /\ at[p] = "subscribe"
    /\ at' = [at EXCEPT ![p] = "drain"]
    /\ UNCHANGED <<log, grp, cur, batch, full>>

\* ensureGroup fails: Subscribe returns to its caller.
EnsureGroupFails(p) ==
    /\ at[p] = "subscribe"
    /\ at' = [at EXCEPT ![p] = "returned"]
    /\ UNCHANGED <<log, grp, cur, batch, full>>

\* The dispatch loop of p goes on with the entries b left in its batch: to the
\* oldest one, or back to XPENDING after a full batch, or on to XREADGROUP.
Continue(p, b, again) ==
    IF b # {}
    THEN /\ cur' = [cur EXCEPT ![p] = Smallest(b)]
         /\ batch' = [batch EXCEPT ![p] = b \ {Smallest(b)}]
         /\ full' = [full EXCEPT ![p] = again]
         /\ at' = [at EXCEPT ![p] = "handle"]
    ELSE /\ cur' = [cur EXCEPT ![p] = 0]
         /\ batch' = [batch EXCEPT ![p] = {}]
         /\ full' = [full EXCEPT ![p] = FALSE]
         /\ at' = [at EXCEPT ![p] = IF again THEN "drain" ELSE "poll"]

\* One XPENDING + XCLAIM of drainPending for consumer name c.  XCLAIM returns
\* the bodies of the entries still in the stream and forgets the others.
DrainPending(p, c) ==
    LET listed == {i \in PendingOf(c) :
                      Cardinality({j \in PendingOf(c) : j < i}) < PendingBatch}
        alive  == {i \in listed : i >= log.first}
    IN  /\ at[p] = "drain"
        /\ grp' = Unpended(grp, listed \ alive)
        /\ Continue(p, alive, Cardinality(listed) = PendingBatch)
        /\ UNCHANGED log

\* XPENDING or XCLAIM fails: the error is logged and the main loop starts.
DrainPendingFails(p) ==
    /\ at[p] = "drain"
    /\ Continue(p, {}, FALSE)
    /\ UNCHANGED <<log, grp>>

\* The main loop: one new entry for consumer name c.
XReadGroup(p, c) ==
    /\ at[p] = "poll"
    /\ HasNew
    /\ Deliver(c)
    /\ cur' = [cur EXCEPT ![p] = NextEntry]
    /\ at' = [at EXCEPT ![p] = "handle"]
    /\ UNCHANGED <<log, batch, full>>

\* XREADGROUP fails after Redis served it: the entry is pending for c, whose
\* main loop backs off and polls on without having seen it.
XReadGroupLost(p, c) ==
    /\ at[p] = "poll"
    /\ HasNew
    /\ Deliver(c)
    /\ UNCHANGED <<log, at, cur, batch, full>>

\* The main loop finds its context cancelled.
Return(p) ==
    /\ at[p] = "poll"
    /\ at' = [at EXCEPT ![p] = "returned"]
    /\ UNCHANGED <<log, grp, cur, batch, full>>

\* dispatch: the handler returned nil.
HandlerDone(p) == at' = [at EXCEPT ![p] = "ack"]

\* dispatch: the handler returned an error; the entry stays pending.
HandlerFails(p) ==
    /\ Continue(p, batch[p], full[p])
    /\ UNCHANGED grp

\* dispatch: XACK.
XAck(p) ==
    /\ at[p] = "ack"
    /\ grp' = Unpended(grp, {cur[p]})
    /\ Continue(p, batch[p], full[p])
    /\ UNCHANGED log

\* dispatch: XACK fails; the entry stays pending although it was handled.
XAckFails(p) ==
    /\ at[p] = "ack"
    /\ Continue(p, batch[p], full[p])
    /\ UNCHANGED <<log, grp>>

\* The process of the goroutines P is gone; Redis keeps log and grp.
Die(P) ==
    /\ at' = [p \in Procs |-> IF p \in P THEN "off" ELSE at[p]]
    /\ cur' = [p \in Procs |-> IF p \in P THEN 0 ELSE cur[p]]
    /\ batch' = [p \in Procs |-> IF p \in P THEN {} ELSE batch[p]]
    /\ full' = [p \in Procs |-> IF p \in P THEN FALSE ELSE full[p]]
    /\ UNCHANGED <<log, grp>>

\* A new process starts the goroutines P.
Launch(P) ==
    /\ at' = [p \in Procs |-> IF p \in P THEN "subscribe" ELSE at[p]]
    /\ UNCHANGED <<log, grp, cur, batch, full>>

StreamInit ==
    /\ log = EmptyLog
    /\ grp = NewGroup
    /\ at = [p \in Procs |-> "subscribe"]
    /\ cur = [p \in Procs |-> 0]
    /\ batch = [p \in Procs |-> {}]
    /\ full = [p \in Procs |-> FALSE]

StreamTypeOK(Messages, Names) ==
    /\ log \in [msgs : Seq(Messages), first : Nat]
    /\ grp \in [next : Nat, pel : SUBSET [id : Nat, owner : Names]]
    /\ at \in [Procs -> {"off", "subscribe", "drain", "poll", "handle", "ack",
                         "returned"}]
    /\ cur \in [Procs -> Nat]
    /\ batch \in [Procs -> SUBSET Nat]
    /\ full \in [Procs -> BOOLEAN]
=============================================================================
