----------------------------- MODULE HubProofs ------------------------------
(***************************************************************************)
(* Proofs about Hub for any number of connections, boards and faults and   *)
(* any capacity of the channels.                                           *)
(***************************************************************************)
EXTENDS Hub, WellFoundedInduction, TLAPS

\* A board that is being published has been stored, and a snapshot that is put
\* into the channel exists: no channel ever carries "no board".
BoardsExist ==
    /\ publishing => stored >= 1
    /\ \A c \in Conns : serve[c] = "put" => snap[c] >= 1

\* ServeWS sends a connection through the register channel once, before anyone
\* reads a snapshot for it.
RegisteredOnce ==
    /\ \A i, j \in 1 .. Len(register) : register[i] = register[j] => i = j
    /\ \A i \in 1 .. Len(register) :
          serve[register[i]] = "await" /\ fetch[register[i]] = "none"
    /\ \A c \in Conns :
          /\ serve[c] \in {"idle", "register"} => fetch[c] = "none"
          /\ fetch[c] = "reading" => serve[c] = "await"

TInv == TypeOK /\ BoardsExist /\ RegisteredOnce

\* Nothing was done to the channel of a connection that has not registered.
JoinsOnce ==
    \A c \in Conns : fetch[c] = "none" => c \notin rooms /\ closes[c] = 0

CInv == TInv /\ JoinsOnce /\ ChannelClosedOnce

\* No board is newer than the stored one, wherever it is.
NoneNewer ==
    /\ \A i \in 1 .. Len(inbox) : inbox[i] <= stored
    /\ \A i \in 1 .. Len(broadcast) : broadcast[i] <= stored
    /\ \A c \in Conns :
          /\ snap[c] <= stored /\ received[c] <= stored
          /\ \A i \in 1 .. Len(send[c]) : send[c][i] <= stored

\* The stored board has not reached the room yet.
UnderWay ==
    \/ publishing
    \/ \E i \in 1 .. Len(inbox) : inbox[i] = stored
    \/ \E i \in 1 .. Len(broadcast) : broadcast[i] = stored

\* The stored board has reached the connection, or waits in one of the two places
\* the writer or ServeWS takes it from.
Holds(c) ==
    \/ received[c] = stored
    \/ \E i \in 1 .. Len(send[c]) : send[c][i] = stored
    \/ serve[c] \in {"await", "put"} /\ snap[c] = stored

NoGap ==
    \A c \in rooms :
        conn[c] = "open" /\ fetch[c] = "done" /\ stored \notin lost
            => UnderWay \/ Holds(c)

NInv == CInv /\ NoneNewer /\ NoGap

-----------------------------------------------------------------------------
\* Appending to a channel keeps what it held and adds one message at its end.
LEMMA AppendFacts ==
    ASSUME NEW S, NEW s \in Seq(S), NEW e \in S
    PROVE  /\ Append(s, e) \in Seq(S)
           /\ Len(Append(s, e)) = Len(s) + 1
           /\ \A i \in 1 .. Len(s) : Append(s, e)[i] = s[i]
           /\ Append(s, e)[Len(s) + 1] = e
  OBVIOUS

\* Receiving from a channel takes its first message and keeps the others.
LEMMA TailFacts ==
    ASSUME NEW S, NEW s \in Seq(S), s # <<>>
    PROVE  /\ Len(s) \in Nat /\ Len(s) >= 1
           /\ Head(s) = s[1] /\ Head(s) \in S
           /\ Tail(s) \in Seq(S)
           /\ Len(Tail(s)) = Len(s) - 1
           /\ \A i \in 1 .. Len(s) - 1 : Tail(s)[i] = s[i + 1]
  OBVIOUS

\* The newest of some boards is one of them, and none of them is newer.
LEMMA MaxFacts ==
    ASSUME NEW n \in Nat, NEW S, S \subseteq 0 .. n, S # {}
    PROVE  Max(S) \in S /\ \A y \in S : y <= Max(S)
<1> DEFINE less == {p \in Nat \X Nat : p[1] < p[2]}
           T == {k \in Nat : n - k \in S}
<1>1. IsWellFoundedOn(less, Nat)
  BY NatLessThanWellFounded, Zenon DEF OpToRel
<1>2. T # {}
  <2>1. PICK x \in S : TRUE
    OBVIOUS
  <2>2. n - x \in Nat /\ n - (n - x) = x
    BY <2>1
  <2> QED
    BY <2>1, <2>2
<1>3. PICK k \in T : \A l \in T : ~ (<<l, k>> \in less)
  BY <1>1, <1>2, WFMin
<1>4. n - k \in S /\ k \in Nat
  BY <1>3
<1>5. ASSUME NEW y \in S PROVE n - k >= y
  <2>1. y \in 0 .. n /\ n - y \in Nat /\ n - (n - y) = y
    OBVIOUS
  <2>2. n - y \in T
    BY <2>1
  <2>3. ~ (n - y < k)
    BY <1>3, <1>4, <2>1, <2>2
  <2> QED
    BY <1>4, <2>1, <2>3
<1>6. \A x \in S : x \in Int
  OBVIOUS
<1>7. Max(S) \in S /\ \A y \in S : Max(S) >= y
  BY <1>4, <1>5 DEF Max
<1> QED
  BY <1>6, <1>7

\* After a frame the connection has the newest board of it, and none it did not
\* hold.
LEMMA FrameFacts ==
    ASSUME NEW n \in Nat, NEW r \in 0 .. n, NEW s \in Seq(Nat),
           \A i \in 1 .. Len(s) : s[i] \in 1 .. n
    PROVE  /\ Max({r} \cup ToSet(s)) \in 0 .. n
           /\ Max({r} \cup ToSet(s)) >= r
           /\ \A i \in 1 .. Len(s) : Max({r} \cup ToSet(s)) >= s[i]
<1> DEFINE S == {r} \cup ToSet(s)
<1>1. \A i \in 1 .. Len(s) : s[i] \in 1 .. n /\ s[i] \in ToSet(s)
  BY DEF ToSet
<1>2. S \subseteq 0 .. n
  BY DEF ToSet
<1>3. Max(S) \in S /\ \A y \in S : y <= Max(S)
  BY <1>2, MaxFacts
<1> QED
  BY <1>1, <1>2, <1>3

-----------------------------------------------------------------------------
\* Every capacity is a positive number.
LEMMA Capacities ==
    /\ SendBufSize \in Nat /\ SendBufSize >= 1
    /\ RegisterCap \in Nat /\ RegisterCap >= 1
    /\ BroadcastCap \in Nat /\ BroadcastCap >= 1
    /\ MaxBoards \in Nat /\ MaxFaults \in Nat
  BY HubAssumption

\* The hub starts with empty channels and an empty room.
LEMMA TInvInit == Init => TInv
<1> SUFFICES ASSUME Init PROVE TInv
  OBVIOUS
<1>1. RedisTypeOK
  <2>1. publishing \in BOOLEAN
    BY DEF Init
  <2> QED
    BY <2>1, Capacities DEF Init, RedisTypeOK
<1>2. ChannelsTypeOK
  BY Capacities DEF Init, ChannelsTypeOK
<1>3. ClientsTypeOK
  BY Capacities DEF Init, ClientsTypeOK
<1>4. BoardsExist /\ RegisteredOnce
  BY DEF Init, BoardsExist, RegisteredOnce
<1> QED
  BY <1>1, <1>2, <1>3, <1>4 DEF TInv, TypeOK

\* The ranker and the subscription only move boards that were stored.
LEMMA RedisTypeStep ==
    TInv /\ [Next]_vars => RedisTypeOK'
<1> SUFFICES ASSUME TInv, [Next]_vars PROVE RedisTypeOK'
  OBVIOUS
<1> USE Capacities DEF redisVars, chanVars, serveVars, pumpVars
<1>0. RedisTypeOK /\ ChannelsTypeOK /\ ClientsTypeOK /\ BoardsExist /\ RegisteredOnce
  BY DEF TInv, TypeOK
<1>1. CASE StoreBoard
  BY <1>1, <1>0 DEF StoreBoard, RedisTypeOK
<1>2. CASE PublishBoard
  <2>1. stored \in 1 .. MaxBoards
    BY <1>0, <1>2 DEF PublishBoard, RedisTypeOK, BoardsExist
  <2>2. publishing' \in BOOLEAN
    BY <1>2 DEF PublishBoard
  <2>3. inbox' \in Seq(1 .. MaxBoards)
    <3>1. inbox \in Seq(1 .. MaxBoards) /\ Append(inbox, stored) \in Seq(1 .. MaxBoards)
      BY <1>0, <2>1, AppendFacts DEF RedisTypeOK
    <3>2. inbox' = Append(inbox, stored) \/ inbox' = inbox
      BY <1>2 DEF PublishBoard
    <3> QED
      BY <3>1, <3>2
  <2>4. lost' \subseteq 1 .. MaxBoards
    BY <1>0, <1>2, <2>1 DEF PublishBoard, RedisTypeOK
  <2>5. /\ stored' \in 0 .. MaxBoards
        /\ sub' \in {"on", "off"}
        /\ budget' \in 0 .. MaxFaults
    BY <1>0, <1>2 DEF PublishBoard, Fault, RedisTypeOK
  <2> QED
    BY <2>2, <2>3, <2>4, <2>5 DEF RedisTypeOK
<1>3. CASE PSubscribe
  BY <1>3, <1>0 DEF PSubscribe, RedisTypeOK
<1>4. CASE SubscriptionBreaks
  <2>1. ToSet(inbox) \subseteq 1 .. MaxBoards
    BY <1>0 DEF ToSet, RedisTypeOK
  <2>2. lost' \subseteq 1 .. MaxBoards
    BY <1>0, <1>4, <2>1 DEF SubscriptionBreaks, RedisTypeOK
  <2>3. /\ stored' \in 0 .. MaxBoards
        /\ publishing' \in BOOLEAN
        /\ sub' \in {"on", "off"}
        /\ inbox' \in Seq(1 .. MaxBoards)
        /\ budget' \in 0 .. MaxFaults
    BY <1>0, <1>4 DEF SubscriptionBreaks, Fault, RedisTypeOK
  <2> QED
    BY <2>2, <2>3 DEF RedisTypeOK
<1>5. CASE DispatchPubSubMsg
  <2>1. Head(inbox) \in 1 .. MaxBoards /\ Tail(inbox) \in Seq(1 .. MaxBoards)
    BY <1>0, <1>5, TailFacts DEF DispatchPubSubMsg, RedisTypeOK
  <2> QED
    BY <1>0, <1>5, <2>1 DEF DispatchPubSubMsg, RedisTypeOK
<1>6. CASE HandleRegister
  BY <1>6, <1>0 DEF HandleRegister, RedisTypeOK
<1>7. CASE HandleUnregister
  BY <1>7, <1>0 DEF HandleUnregister, RedisTypeOK
<1>8. CASE HandleBroadcast
  BY <1>8, <1>0 DEF HandleBroadcast, RedisTypeOK
<1>9. CASE Shutdown
  BY <1>9, <1>0 DEF Shutdown, Fault, RedisTypeOK
<1>10. ASSUME NEW c \in Conns, Upgrade(c) PROVE RedisTypeOK'
  BY <1>10, <1>0 DEF Upgrade, RedisTypeOK
<1>11. ASSUME NEW c \in Conns, SendRegister(c) PROVE RedisTypeOK'
  BY <1>11, <1>0 DEF SendRegister, RedisTypeOK
<1>12. ASSUME NEW c \in Conns, AwaitSnapshot(c) PROVE RedisTypeOK'
  BY <1>12, <1>0 DEF AwaitSnapshot, StartPumps, RedisTypeOK
<1>13. ASSUME NEW c \in Conns, PutSnapshot(c) PROVE RedisTypeOK'
  BY <1>13, <1>0 DEF PutSnapshot, StartPumps, RedisTypeOK
<1>14. ASSUME NEW c \in Conns, PutPanics(c) PROVE RedisTypeOK'
  BY <1>14, <1>0 DEF PutPanics, RedisTypeOK
<1>15. ASSUME NEW c \in Conns, FetchSnapshot(c) PROVE RedisTypeOK'
  BY <1>15, <1>0 DEF FetchSnapshot, Fault, RedisTypeOK
<1>16. ASSUME NEW c \in Conns, WriteFrame(c) PROVE RedisTypeOK'
  BY <1>16, <1>0 DEF WriteFrame, WriterReturns, RedisTypeOK
<1>17. ASSUME NEW c \in Conns, WriterEnds(c) PROVE RedisTypeOK'
  BY <1>17, <1>0 DEF WriterEnds, WriterReturns, RedisTypeOK
<1>18. ASSUME NEW c \in Conns, ReadFails(c) PROVE RedisTypeOK'
  BY <1>18, <1>0 DEF ReadFails, Fault, RedisTypeOK
<1>19. ASSUME NEW c \in Conns, SendUnregister(c) PROVE RedisTypeOK'
  BY <1>19, <1>0 DEF SendUnregister, RedisTypeOK
<1>20. ASSUME NEW c \in Conns, PeerLeaves(c) PROVE RedisTypeOK'
  BY <1>20, <1>0 DEF PeerLeaves, Fault, RedisTypeOK
<1>21. CASE UNCHANGED vars
  BY <1>21, <1>0 DEF vars, RedisTypeOK
<1> QED
  BY <1>1, <1>2, <1>3, <1>4, <1>5, <1>6, <1>7, <1>8, <1>9, <1>10, <1>11, <1>12, <1>13,
     <1>14, <1>15, <1>16, <1>17, <1>18, <1>19, <1>20, <1>21 DEF Next, Run, ServeWS,
     Pumps

\* No channel is filled beyond its capacity.
LEMMA ChannelsTypeStep ==
    TInv /\ [Next]_vars => ChannelsTypeOK'
<1> SUFFICES ASSUME TInv, [Next]_vars PROVE ChannelsTypeOK'
  OBVIOUS
<1> USE Capacities DEF redisVars, chanVars, serveVars, pumpVars
<1>0. RedisTypeOK /\ ChannelsTypeOK /\ ClientsTypeOK /\ BoardsExist /\ RegisteredOnce
  BY DEF TInv, TypeOK
<1>1. CASE StoreBoard
  BY <1>1, <1>0 DEF StoreBoard, ChannelsTypeOK
<1>2. CASE PublishBoard
  BY <1>2, <1>0 DEF PublishBoard, Fault, ChannelsTypeOK
<1>3. CASE PSubscribe
  BY <1>3, <1>0 DEF PSubscribe, ChannelsTypeOK
<1>4. CASE SubscriptionBreaks
  BY <1>4, <1>0 DEF SubscriptionBreaks, Fault, ChannelsTypeOK
<1>5. CASE DispatchPubSubMsg
  <2>1. Head(inbox) \in 1 .. MaxBoards
    BY <1>0, <1>5, TailFacts DEF DispatchPubSubMsg, RedisTypeOK
  <2>2. broadcast' \in Seq(1 .. MaxBoards) /\ Len(broadcast') <= BroadcastCap
    <3>1. /\ Append(broadcast, Head(inbox)) \in Seq(1 .. MaxBoards)
          /\ Len(Append(broadcast, Head(inbox))) = Len(broadcast) + 1
          /\ Len(broadcast) \in Nat
      BY <1>0, <2>1, AppendFacts DEF ChannelsTypeOK
    <3>2. broadcast \in Seq(1 .. MaxBoards) /\ Len(broadcast) <= BroadcastCap
      BY <1>0 DEF ChannelsTypeOK
    <3>3. CASE /\ Len(broadcast) < BroadcastCap
               /\ broadcast' = Append(broadcast, Head(inbox))
      BY <3>1, <3>3
    <3>4. CASE broadcast' = broadcast
      BY <3>2, <3>4
    <3> QED
      BY <1>5, <3>3, <3>4 DEF DispatchPubSubMsg
  <2> QED
    BY <1>0, <1>5, <2>2 DEF DispatchPubSubMsg, ChannelsTypeOK
<1>6. CASE HandleRegister
  <2>1. /\ Head(register) \in Conns /\ Tail(register) \in Seq(Conns)
        /\ Len(Tail(register)) <= RegisterCap
    BY <1>0, <1>6, TailFacts DEF HandleRegister, ChannelsTypeOK
  <2> QED
    BY <1>0, <1>6, <2>1 DEF HandleRegister, ChannelsTypeOK
<1>7. CASE HandleUnregister
  <2>1. /\ Head(unregister) \in Conns /\ Tail(unregister) \in Seq(Conns)
        /\ Len(Tail(unregister)) <= RegisterCap
    BY <1>0, <1>7, TailFacts DEF HandleUnregister, ChannelsTypeOK
  <2>2. rooms' \subseteq Conns /\ closes' \in [Conns -> Nat]
    <3>1. CASE /\ rooms' = rooms \ {Head(unregister)}
               /\ closes' = [closes EXCEPT ![Head(unregister)] = @ + 1]
      BY <1>0, <2>1, <3>1 DEF ChannelsTypeOK
    <3>2. CASE rooms' = rooms /\ closes' = closes
      BY <1>0, <3>2 DEF ChannelsTypeOK
    <3> QED
      BY <1>7, <3>1, <3>2 DEF HandleUnregister
  <2> QED
    BY <1>0, <1>7, <2>1, <2>2 DEF HandleUnregister, ChannelsTypeOK
<1>8. CASE HandleBroadcast
  <2>1. /\ Head(broadcast) \in 1 .. MaxBoards /\ Tail(broadcast) \in Seq(1 .. MaxBoards)
        /\ Len(Tail(broadcast)) <= BroadcastCap
    BY <1>0, <1>8, TailFacts DEF HandleBroadcast, ChannelsTypeOK
  <2>2. \A c \in Conns :
            /\ Append(send[c], Head(broadcast)) \in Seq(1 .. MaxBoards)
            /\ Len(Append(send[c], Head(broadcast))) = Len(send[c]) + 1
            /\ Len(send[c]) \in Nat
    BY <1>0, <2>1, AppendFacts DEF ChannelsTypeOK
  <2>3. send' \in [Conns -> Seq(1 .. MaxBoards)]
    BY <1>0, <1>8, <2>2 DEF HandleBroadcast, ChannelsTypeOK
  <2>4. ASSUME NEW c \in Conns PROVE Len(send'[c]) <= SendBufSize
    BY <1>0, <1>8, <2>2 DEF HandleBroadcast, ChannelsTypeOK
  <2>5. rooms' \subseteq Conns /\ closes' \in [Conns -> Nat]
    BY <1>0, <1>8 DEF HandleBroadcast, ChannelsTypeOK
  <2> QED
    BY <1>0, <1>8, <2>1, <2>3, <2>4, <2>5 DEF HandleBroadcast, ChannelsTypeOK
<1>9. CASE Shutdown
  BY <1>9, <1>0 DEF Shutdown, Fault, ChannelsTypeOK
<1>10. ASSUME NEW c \in Conns, Upgrade(c) PROVE ChannelsTypeOK'
  BY <1>10, <1>0 DEF Upgrade, ChannelsTypeOK
<1>11. ASSUME NEW c \in Conns, SendRegister(c) PROVE ChannelsTypeOK'
  BY <1>11, <1>0, AppendFacts DEF SendRegister, ChannelsTypeOK
<1>12. ASSUME NEW c \in Conns, AwaitSnapshot(c) PROVE ChannelsTypeOK'
  BY <1>12, <1>0 DEF AwaitSnapshot, StartPumps, ChannelsTypeOK
<1>13. ASSUME NEW c \in Conns, PutSnapshot(c) PROVE ChannelsTypeOK'
  <2>1. snap[c] \in 1 .. MaxBoards
    BY <1>0, <1>13 DEF PutSnapshot, BoardsExist, ClientsTypeOK
  <2>2. /\ Append(send[c], snap[c]) \in Seq(1 .. MaxBoards)
        /\ Len(Append(send[c], snap[c])) = Len(send[c]) + 1
    BY <1>0, <2>1, AppendFacts DEF ChannelsTypeOK
  <2> QED
    BY <1>0, <1>13, <2>2 DEF PutSnapshot, ChannelsTypeOK
<1>14. ASSUME NEW c \in Conns, PutPanics(c) PROVE ChannelsTypeOK'
  BY <1>14, <1>0 DEF PutPanics, ChannelsTypeOK
<1>15. ASSUME NEW c \in Conns, FetchSnapshot(c) PROVE ChannelsTypeOK'
  BY <1>15, <1>0 DEF FetchSnapshot, Fault, ChannelsTypeOK
<1>16. ASSUME NEW c \in Conns, WriteFrame(c) PROVE ChannelsTypeOK'
  BY <1>16, <1>0 DEF WriteFrame, WriterReturns, ChannelsTypeOK
<1>17. ASSUME NEW c \in Conns, WriterEnds(c) PROVE ChannelsTypeOK'
  BY <1>17, <1>0 DEF WriterEnds, WriterReturns, ChannelsTypeOK
<1>18. ASSUME NEW c \in Conns, ReadFails(c) PROVE ChannelsTypeOK'
  BY <1>18, <1>0 DEF ReadFails, Fault, ChannelsTypeOK
<1>19. ASSUME NEW c \in Conns, SendUnregister(c) PROVE ChannelsTypeOK'
  BY <1>19, <1>0, AppendFacts DEF SendUnregister, ChannelsTypeOK
<1>20. ASSUME NEW c \in Conns, PeerLeaves(c) PROVE ChannelsTypeOK'
  BY <1>20, <1>0 DEF PeerLeaves, Fault, ChannelsTypeOK
<1>21. CASE UNCHANGED vars
  BY <1>21, <1>0 DEF vars, ChannelsTypeOK
<1> QED
  BY <1>1, <1>2, <1>3, <1>4, <1>5, <1>6, <1>7, <1>8, <1>9, <1>10, <1>11, <1>12, <1>13,
     <1>14, <1>15, <1>16, <1>17, <1>18, <1>19, <1>20, <1>21 DEF Next, Run, ServeWS,
     Pumps

\* ServeWS, its goroutine and the pumps keep to their states.
LEMMA ClientsTypeStep ==
    TInv /\ [Next]_vars => ClientsTypeOK'
<1> SUFFICES ASSUME TInv, [Next]_vars PROVE ClientsTypeOK'
  OBVIOUS
<1> USE Capacities DEF redisVars, chanVars, serveVars, pumpVars
<1>0. RedisTypeOK /\ ChannelsTypeOK /\ ClientsTypeOK /\ BoardsExist /\ RegisteredOnce
  BY DEF TInv, TypeOK
<1>1. CASE StoreBoard
  BY <1>1, <1>0 DEF StoreBoard, ClientsTypeOK
<1>2. CASE PublishBoard
  BY <1>2, <1>0 DEF PublishBoard, Fault, ClientsTypeOK
<1>3. CASE PSubscribe
  BY <1>3, <1>0 DEF PSubscribe, ClientsTypeOK
<1>4. CASE SubscriptionBreaks
  BY <1>4, <1>0 DEF SubscriptionBreaks, Fault, ClientsTypeOK
<1>5. CASE DispatchPubSubMsg
  BY <1>5, <1>0 DEF DispatchPubSubMsg, ClientsTypeOK
<1>6. CASE HandleRegister
  BY <1>6, <1>0, TailFacts DEF HandleRegister, ClientsTypeOK, ChannelsTypeOK
<1>7. CASE HandleUnregister
  BY <1>7, <1>0 DEF HandleUnregister, ClientsTypeOK
<1>8. CASE HandleBroadcast
  BY <1>8, <1>0 DEF HandleBroadcast, ClientsTypeOK
<1>9. CASE Shutdown
  BY <1>9, <1>0 DEF Shutdown, Fault, ClientsTypeOK
<1>10. ASSUME NEW c \in Conns, Upgrade(c) PROVE ClientsTypeOK'
  BY <1>10, <1>0 DEF Upgrade, ClientsTypeOK
<1>11. ASSUME NEW c \in Conns, SendRegister(c) PROVE ClientsTypeOK'
  BY <1>11, <1>0 DEF SendRegister, ClientsTypeOK
<1>12. ASSUME NEW c \in Conns, AwaitSnapshot(c) PROVE ClientsTypeOK'
  BY <1>12, <1>0 DEF AwaitSnapshot, StartPumps, ClientsTypeOK
<1>13. ASSUME NEW c \in Conns, PutSnapshot(c) PROVE ClientsTypeOK'
  BY <1>13, <1>0 DEF PutSnapshot, StartPumps, ClientsTypeOK
<1>14. ASSUME NEW c \in Conns, PutPanics(c) PROVE ClientsTypeOK'
  BY <1>14, <1>0 DEF PutPanics, ClientsTypeOK
<1>15. ASSUME NEW c \in Conns, FetchSnapshot(c) PROVE ClientsTypeOK'
  <2>1. snap' \in [Conns -> 0 .. MaxBoards]
    BY <1>0, <1>15 DEF FetchSnapshot, ClientsTypeOK, RedisTypeOK
  <2>2. fetch' \in [Conns -> {"none", "reading", "done", "failed"}]
    BY <1>0, <1>15 DEF FetchSnapshot, ClientsTypeOK
  <2> QED
    BY <1>0, <1>15, <2>1, <2>2 DEF FetchSnapshot, ClientsTypeOK
<1>16. ASSUME NEW c \in Conns, WriteFrame(c) PROVE ClientsTypeOK'
  <2>1. Max({received[c]} \cup ToSet(send[c])) \in 0 .. MaxBoards
    <3>1. /\ received[c] \in 0 .. MaxBoards /\ send[c] \in Seq(Nat)
          /\ \A i \in 1 .. Len(send[c]) : send[c][i] \in 1 .. MaxBoards
      BY <1>0 DEF ChannelsTypeOK, ClientsTypeOK
    <3> QED
      BY <3>1, FrameFacts
  <2> QED
    BY <1>0, <1>16, <2>1 DEF WriteFrame, WriterReturns, ClientsTypeOK
<1>17. ASSUME NEW c \in Conns, WriterEnds(c) PROVE ClientsTypeOK'
  BY <1>17, <1>0 DEF WriterEnds, WriterReturns, ClientsTypeOK
<1>18. ASSUME NEW c \in Conns, ReadFails(c) PROVE ClientsTypeOK'
  BY <1>18, <1>0 DEF ReadFails, Fault, ClientsTypeOK
<1>19. ASSUME NEW c \in Conns, SendUnregister(c) PROVE ClientsTypeOK'
  BY <1>19, <1>0 DEF SendUnregister, ClientsTypeOK
<1>20. ASSUME NEW c \in Conns, PeerLeaves(c) PROVE ClientsTypeOK'
  BY <1>20, <1>0 DEF PeerLeaves, Fault, ClientsTypeOK
<1>21. CASE UNCHANGED vars
  BY <1>21, <1>0 DEF vars, ClientsTypeOK
<1> QED
  BY <1>1, <1>2, <1>3, <1>4, <1>5, <1>6, <1>7, <1>8, <1>9, <1>10, <1>11, <1>12, <1>13,
     <1>14, <1>15, <1>16, <1>17, <1>18, <1>19, <1>20, <1>21 DEF Next, Run, ServeWS,
     Pumps

\* Whatever is published or put into a channel is a board.
LEMMA BoardsExistStep ==
    TInv /\ [Next]_vars => BoardsExist'
<1> SUFFICES ASSUME TInv, [Next]_vars PROVE BoardsExist'
  OBVIOUS
<1> USE Capacities DEF redisVars, chanVars, serveVars, pumpVars
<1>0. RedisTypeOK /\ ChannelsTypeOK /\ ClientsTypeOK /\ BoardsExist /\ RegisteredOnce
  BY DEF TInv, TypeOK
<1>1. CASE StoreBoard
  BY <1>1, <1>0 DEF StoreBoard, BoardsExist, RedisTypeOK
<1>2. CASE PublishBoard
  BY <1>2, <1>0 DEF PublishBoard, Fault, BoardsExist
<1>3. CASE PSubscribe
  BY <1>3, <1>0 DEF PSubscribe, BoardsExist
<1>4. CASE SubscriptionBreaks
  BY <1>4, <1>0 DEF SubscriptionBreaks, Fault, BoardsExist
<1>5. CASE DispatchPubSubMsg
  BY <1>5, <1>0 DEF DispatchPubSubMsg, BoardsExist
<1>6. CASE HandleRegister
  BY <1>6, <1>0 DEF HandleRegister, BoardsExist
<1>7. CASE HandleUnregister
  BY <1>7, <1>0 DEF HandleUnregister, BoardsExist
<1>8. CASE HandleBroadcast
  BY <1>8, <1>0 DEF HandleBroadcast, BoardsExist
<1>9. CASE Shutdown
  BY <1>9, <1>0 DEF Shutdown, Fault, BoardsExist
<1>10. ASSUME NEW c \in Conns, Upgrade(c) PROVE BoardsExist'
  BY <1>10, <1>0 DEF Upgrade, BoardsExist, ClientsTypeOK
<1>11. ASSUME NEW c \in Conns, SendRegister(c) PROVE BoardsExist'
  BY <1>11, <1>0 DEF SendRegister, BoardsExist, ClientsTypeOK
<1>12. ASSUME NEW c \in Conns, AwaitSnapshot(c) PROVE BoardsExist'
  BY <1>12, <1>0 DEF AwaitSnapshot, StartPumps, BoardsExist, ClientsTypeOK
<1>13. ASSUME NEW c \in Conns, PutSnapshot(c) PROVE BoardsExist'
  BY <1>13, <1>0 DEF PutSnapshot, StartPumps, BoardsExist, ClientsTypeOK
<1>14. ASSUME NEW c \in Conns, PutPanics(c) PROVE BoardsExist'
  BY <1>14, <1>0 DEF PutPanics, BoardsExist, ClientsTypeOK
<1>15. ASSUME NEW c \in Conns, FetchSnapshot(c) PROVE BoardsExist'
  BY <1>15, <1>0 DEF FetchSnapshot, Fault, BoardsExist, ClientsTypeOK, RegisteredOnce
<1>16. ASSUME NEW c \in Conns, WriteFrame(c) PROVE BoardsExist'
  BY <1>16, <1>0 DEF WriteFrame, WriterReturns, BoardsExist
<1>17. ASSUME NEW c \in Conns, WriterEnds(c) PROVE BoardsExist'
  BY <1>17, <1>0 DEF WriterEnds, WriterReturns, BoardsExist
<1>18. ASSUME NEW c \in Conns, ReadFails(c) PROVE BoardsExist'
  BY <1>18, <1>0 DEF ReadFails, Fault, BoardsExist
<1>19. ASSUME NEW c \in Conns, SendUnregister(c) PROVE BoardsExist'
  BY <1>19, <1>0 DEF SendUnregister, BoardsExist
<1>20. ASSUME NEW c \in Conns, PeerLeaves(c) PROVE BoardsExist'
  BY <1>20, <1>0 DEF PeerLeaves, Fault, BoardsExist
<1>21. CASE UNCHANGED vars
  BY <1>21, <1>0 DEF vars, BoardsExist
<1> QED
  BY <1>1, <1>2, <1>3, <1>4, <1>5, <1>6, <1>7, <1>8, <1>9, <1>10, <1>11, <1>12, <1>13,
     <1>14, <1>15, <1>16, <1>17, <1>18, <1>19, <1>20, <1>21 DEF Next, Run, ServeWS,
     Pumps

\* No connection enters the register channel twice.
LEMMA RegisteredOnceStep ==
    TInv /\ [Next]_vars => RegisteredOnce'
<1> SUFFICES ASSUME TInv, [Next]_vars PROVE RegisteredOnce'
  OBVIOUS
<1> USE Capacities DEF redisVars, chanVars, serveVars, pumpVars
<1>0. RedisTypeOK /\ ChannelsTypeOK /\ ClientsTypeOK /\ BoardsExist /\ RegisteredOnce
  BY DEF TInv, TypeOK
<1>1. CASE StoreBoard
  BY <1>1, <1>0 DEF StoreBoard, RegisteredOnce
<1>2. CASE PublishBoard
  BY <1>2, <1>0 DEF PublishBoard, Fault, RegisteredOnce
<1>3. CASE PSubscribe
  BY <1>3, <1>0 DEF PSubscribe, RegisteredOnce
<1>4. CASE SubscriptionBreaks
  BY <1>4, <1>0 DEF SubscriptionBreaks, Fault, RegisteredOnce
<1>5. CASE DispatchPubSubMsg
  BY <1>5, <1>0 DEF DispatchPubSubMsg, RegisteredOnce
<1>6. CASE HandleRegister
  <2>1. /\ Head(register) = register[1] /\ Head(register) \in Conns
        /\ Len(register) \in Nat /\ Len(register) >= 1
        /\ Len(Tail(register)) = Len(register) - 1
        /\ \A i \in 1 .. Len(register) - 1 : Tail(register)[i] = register[i + 1]
    BY <1>0, <1>6, TailFacts DEF HandleRegister, ChannelsTypeOK
  <2>2. \A i \in 1 .. Len(register) : register[i] \in Conns
    BY <1>0 DEF ChannelsTypeOK
  <2>3. \A i, j \in 1 .. Len(register') : register'[i] = register'[j] => i = j
    BY <1>0, <1>6, <2>1 DEF HandleRegister, RegisteredOnce
  <2>4. ASSUME NEW i \in 1 .. Len(register')
        PROVE  serve'[register'[i]] = "await" /\ fetch'[register'[i]] = "none"
    BY <1>0, <1>6, <2>1, <2>2 DEF HandleRegister, RegisteredOnce, ClientsTypeOK
  <2>5. serve[Head(register)] = "await"
    BY <1>0, <2>1 DEF RegisteredOnce
  <2> QED
    BY <1>0, <1>6, <2>1, <2>3, <2>4, <2>5
    DEF HandleRegister, RegisteredOnce, ClientsTypeOK
<1>7. CASE HandleUnregister
  BY <1>7, <1>0 DEF HandleUnregister, RegisteredOnce
<1>8. CASE HandleBroadcast
  BY <1>8, <1>0 DEF HandleBroadcast, RegisteredOnce
<1>9. CASE Shutdown
  BY <1>9, <1>0 DEF Shutdown, Fault, RegisteredOnce
<1>10. ASSUME NEW c \in Conns, Upgrade(c) PROVE RegisteredOnce'
  <2>1. \A i \in 1 .. Len(register) : register[i] \in Conns /\ register[i] # c
    BY <1>0, <1>10 DEF Upgrade, RegisteredOnce, ChannelsTypeOK
  <2> QED
    BY <1>0, <1>10, <2>1 DEF Upgrade, RegisteredOnce, ClientsTypeOK
<1>11. ASSUME NEW c \in Conns, SendRegister(c) PROVE RegisteredOnce'
  <2>1. /\ Len(register') = Len(register) + 1 /\ Len(register) \in Nat
        /\ \A i \in 1 .. Len(register) : register'[i] = register[i]
        /\ register'[Len(register) + 1] = c
    BY <1>0, <1>11, AppendFacts DEF SendRegister, ChannelsTypeOK
  <2>2. \A i \in 1 .. Len(register) : register[i] \in Conns /\ register[i] # c
    BY <1>0, <1>11 DEF ChannelsTypeOK, SendRegister, RegisteredOnce
  <2>3. \A i, j \in 1 .. Len(register') : register'[i] = register'[j] => i = j
    BY <1>0, <2>1, <2>2 DEF RegisteredOnce
  <2>4. ASSUME NEW i \in 1 .. Len(register')
        PROVE  serve'[register'[i]] = "await" /\ fetch'[register'[i]] = "none"
    BY <1>0, <1>11, <2>1, <2>2 DEF SendRegister, RegisteredOnce, ClientsTypeOK
  <2> QED
    BY <1>0, <1>11, <2>3, <2>4 DEF SendRegister, RegisteredOnce, ClientsTypeOK
<1>12. ASSUME NEW c \in Conns, AwaitSnapshot(c) PROVE RegisteredOnce'
  <2>1. \A i \in 1 .. Len(register) : register[i] \in Conns /\ register[i] # c
    BY <1>0, <1>12 DEF AwaitSnapshot, RegisteredOnce, ChannelsTypeOK
  <2> QED
    BY <1>0, <1>12, <2>1 DEF AwaitSnapshot, StartPumps, RegisteredOnce, ClientsTypeOK
<1>13. ASSUME NEW c \in Conns, PutSnapshot(c) PROVE RegisteredOnce'
  <2>1. \A i \in 1 .. Len(register) : register[i] \in Conns /\ register[i] # c
    BY <1>0, <1>13 DEF PutSnapshot, RegisteredOnce, ChannelsTypeOK
  <2> QED
    BY <1>0, <1>13, <2>1 DEF PutSnapshot, StartPumps, RegisteredOnce, ClientsTypeOK
<1>14. ASSUME NEW c \in Conns, PutPanics(c) PROVE RegisteredOnce'
  <2>1. \A i \in 1 .. Len(register) : register[i] \in Conns /\ register[i] # c
    BY <1>0, <1>14 DEF PutPanics, RegisteredOnce, ChannelsTypeOK
  <2> QED
    BY <1>0, <1>14, <2>1 DEF PutPanics, RegisteredOnce, ClientsTypeOK
<1>15. ASSUME NEW c \in Conns, FetchSnapshot(c) PROVE RegisteredOnce'
  <2>1. \A i \in 1 .. Len(register) : register[i] \in Conns /\ register[i] # c
    BY <1>0, <1>15 DEF FetchSnapshot, RegisteredOnce, ChannelsTypeOK
  <2> QED
    BY <1>0, <1>15, <2>1 DEF FetchSnapshot, RegisteredOnce, ClientsTypeOK
<1>16. ASSUME NEW c \in Conns, WriteFrame(c) PROVE RegisteredOnce'
  BY <1>16, <1>0 DEF WriteFrame, WriterReturns, RegisteredOnce
<1>17. ASSUME NEW c \in Conns, WriterEnds(c) PROVE RegisteredOnce'
  BY <1>17, <1>0 DEF WriterEnds, WriterReturns, RegisteredOnce
<1>18. ASSUME NEW c \in Conns, ReadFails(c) PROVE RegisteredOnce'
  BY <1>18, <1>0 DEF ReadFails, Fault, RegisteredOnce
<1>19. ASSUME NEW c \in Conns, SendUnregister(c) PROVE RegisteredOnce'
  BY <1>19, <1>0 DEF SendUnregister, RegisteredOnce
<1>20. ASSUME NEW c \in Conns, PeerLeaves(c) PROVE RegisteredOnce'
  BY <1>20, <1>0 DEF PeerLeaves, Fault, RegisteredOnce
<1>21. CASE UNCHANGED vars
  BY <1>21, <1>0 DEF vars, RegisteredOnce
<1> QED
  BY <1>1, <1>2, <1>3, <1>4, <1>5, <1>6, <1>7, <1>8, <1>9, <1>10, <1>11, <1>12, <1>13,
     <1>14, <1>15, <1>16, <1>17, <1>18, <1>19, <1>20, <1>21 DEF Next, Run, ServeWS,
     Pumps

\* Types, the absence of empty boards and the single registration together form an
\* inductive invariant.
LEMMA TInvStep == TInv /\ [Next]_vars => TInv'
  BY RedisTypeStep, ChannelsTypeStep, ClientsTypeStep, BoardsExistStep,
     RegisteredOnceStep DEF TInv, TypeOK

-----------------------------------------------------------------------------
\* A connection joins the room only when it leaves the register channel.
LEMMA JoinsOnceStep ==
    CInv /\ [Next]_vars => JoinsOnce'
<1> SUFFICES ASSUME CInv, [Next]_vars PROVE JoinsOnce'
  OBVIOUS
<1> USE Capacities DEF redisVars, chanVars, serveVars, pumpVars
<1>0. RedisTypeOK /\ ChannelsTypeOK /\ ClientsTypeOK /\ BoardsExist /\ RegisteredOnce
      /\ JoinsOnce /\ ChannelClosedOnce
  BY DEF CInv, TInv, TypeOK
<1>1. CASE StoreBoard
  BY <1>1, <1>0 DEF StoreBoard, JoinsOnce
<1>2. CASE PublishBoard
  BY <1>2, <1>0 DEF PublishBoard, Fault, JoinsOnce
<1>3. CASE PSubscribe
  BY <1>3, <1>0 DEF PSubscribe, JoinsOnce
<1>4. CASE SubscriptionBreaks
  BY <1>4, <1>0 DEF SubscriptionBreaks, Fault, JoinsOnce
<1>5. CASE DispatchPubSubMsg
  BY <1>5, <1>0 DEF DispatchPubSubMsg, JoinsOnce
<1>6. CASE HandleRegister
  BY <1>6, <1>0, TailFacts DEF HandleRegister, JoinsOnce, ChannelsTypeOK, ClientsTypeOK
<1>7. CASE HandleUnregister
  <2>1. Head(unregister) \in Conns
    BY <1>0, <1>7, TailFacts DEF HandleUnregister, ChannelsTypeOK
  <2>2. /\ rooms' \subseteq rooms
        /\ \A c \in Conns : c \notin rooms => closes'[c] = closes[c]
    BY <1>0, <1>7, <2>1 DEF HandleUnregister, ChannelsTypeOK
  <2> QED
    BY <1>0, <1>7, <2>2 DEF HandleUnregister, JoinsOnce
<1>8. CASE HandleBroadcast
  BY <1>8, <1>0 DEF HandleBroadcast, JoinsOnce, ChannelsTypeOK
<1>9. CASE Shutdown
  BY <1>9, <1>0 DEF Shutdown, Fault, JoinsOnce, ChannelsTypeOK
<1>10. ASSUME NEW c \in Conns, Upgrade(c) PROVE JoinsOnce'
  BY <1>10, <1>0 DEF Upgrade, JoinsOnce
<1>11. ASSUME NEW c \in Conns, SendRegister(c) PROVE JoinsOnce'
  BY <1>11, <1>0 DEF SendRegister, JoinsOnce
<1>12. ASSUME NEW c \in Conns, AwaitSnapshot(c) PROVE JoinsOnce'
  BY <1>12, <1>0 DEF AwaitSnapshot, StartPumps, JoinsOnce
<1>13. ASSUME NEW c \in Conns, PutSnapshot(c) PROVE JoinsOnce'
  BY <1>13, <1>0 DEF PutSnapshot, StartPumps, JoinsOnce
<1>14. ASSUME NEW c \in Conns, PutPanics(c) PROVE JoinsOnce'
  BY <1>14, <1>0 DEF PutPanics, JoinsOnce
<1>15. ASSUME NEW c \in Conns, FetchSnapshot(c) PROVE JoinsOnce'
  BY <1>15, <1>0 DEF FetchSnapshot, Fault, JoinsOnce, ClientsTypeOK
<1>16. ASSUME NEW c \in Conns, WriteFrame(c) PROVE JoinsOnce'
  BY <1>16, <1>0 DEF WriteFrame, WriterReturns, JoinsOnce
<1>17. ASSUME NEW c \in Conns, WriterEnds(c) PROVE JoinsOnce'
  BY <1>17, <1>0 DEF WriterEnds, WriterReturns, JoinsOnce
<1>18. ASSUME NEW c \in Conns, ReadFails(c) PROVE JoinsOnce'
  BY <1>18, <1>0 DEF ReadFails, Fault, JoinsOnce
<1>19. ASSUME NEW c \in Conns, SendUnregister(c) PROVE JoinsOnce'
  BY <1>19, <1>0 DEF SendUnregister, JoinsOnce
<1>20. ASSUME NEW c \in Conns, PeerLeaves(c) PROVE JoinsOnce'
  BY <1>20, <1>0 DEF PeerLeaves, Fault, JoinsOnce
<1>21. CASE UNCHANGED vars
  BY <1>21, <1>0 DEF vars, JoinsOnce
<1> QED
  BY <1>1, <1>2, <1>3, <1>4, <1>5, <1>6, <1>7, <1>8, <1>9, <1>10, <1>11, <1>12, <1>13,
     <1>14, <1>15, <1>16, <1>17, <1>18, <1>19, <1>20, <1>21 DEF Next, Run, ServeWS,
     Pumps

\* Whoever closes a channel removes its connection from the room in the same step.
LEMMA ClosedOnceStep ==
    CInv /\ [Next]_vars => ChannelClosedOnce'
<1> SUFFICES ASSUME CInv, [Next]_vars PROVE ChannelClosedOnce'
  OBVIOUS
<1> USE Capacities DEF redisVars, chanVars, serveVars, pumpVars
<1>0. RedisTypeOK /\ ChannelsTypeOK /\ ClientsTypeOK /\ BoardsExist /\ RegisteredOnce
      /\ JoinsOnce /\ ChannelClosedOnce
  BY DEF CInv, TInv, TypeOK
<1>1. CASE StoreBoard
  BY <1>1, <1>0 DEF StoreBoard, ChannelClosedOnce
<1>2. CASE PublishBoard
  BY <1>2, <1>0 DEF PublishBoard, Fault, ChannelClosedOnce
<1>3. CASE PSubscribe
  BY <1>3, <1>0 DEF PSubscribe, ChannelClosedOnce
<1>4. CASE SubscriptionBreaks
  BY <1>4, <1>0 DEF SubscriptionBreaks, Fault, ChannelClosedOnce
<1>5. CASE DispatchPubSubMsg
  BY <1>5, <1>0 DEF DispatchPubSubMsg, ChannelClosedOnce
<1>6. CASE HandleRegister
  <2>1. Head(register) \in Conns /\ fetch[Head(register)] = "none"
    BY <1>0, <1>6, TailFacts DEF HandleRegister, ChannelsTypeOK, RegisteredOnce
  <2> QED
    BY <1>0, <1>6, <2>1 DEF HandleRegister, ChannelClosedOnce, JoinsOnce
<1>7. CASE HandleUnregister
  <2>1. Head(unregister) \in Conns
    BY <1>0, <1>7, TailFacts DEF HandleUnregister, ChannelsTypeOK
  <2>2. CASE Head(unregister) \in rooms
    BY <1>0, <1>7, <2>1, <2>2 DEF HandleUnregister, ChannelsTypeOK, ChannelClosedOnce
  <2>3. CASE Head(unregister) \notin rooms
    BY <1>0, <1>7, <2>3 DEF HandleUnregister, ChannelClosedOnce
  <2> QED
    BY <2>2, <2>3
<1>8. CASE HandleBroadcast
  BY <1>8, <1>0 DEF HandleBroadcast, ChannelClosedOnce, ChannelsTypeOK
<1>9. CASE Shutdown
  BY <1>9, <1>0 DEF Shutdown, Fault, ChannelClosedOnce, ChannelsTypeOK
<1>10. ASSUME NEW c \in Conns, Upgrade(c) PROVE ChannelClosedOnce'
  BY <1>10, <1>0 DEF Upgrade, ChannelClosedOnce
<1>11. ASSUME NEW c \in Conns, SendRegister(c) PROVE ChannelClosedOnce'
  BY <1>11, <1>0 DEF SendRegister, ChannelClosedOnce
<1>12. ASSUME NEW c \in Conns, AwaitSnapshot(c) PROVE ChannelClosedOnce'
  BY <1>12, <1>0 DEF AwaitSnapshot, StartPumps, ChannelClosedOnce
<1>13. ASSUME NEW c \in Conns, PutSnapshot(c) PROVE ChannelClosedOnce'
  BY <1>13, <1>0 DEF PutSnapshot, StartPumps, ChannelClosedOnce
<1>14. ASSUME NEW c \in Conns, PutPanics(c) PROVE ChannelClosedOnce'
  BY <1>14, <1>0 DEF PutPanics, ChannelClosedOnce
<1>15. ASSUME NEW c \in Conns, FetchSnapshot(c) PROVE ChannelClosedOnce'
  BY <1>15, <1>0 DEF FetchSnapshot, Fault, ChannelClosedOnce
<1>16. ASSUME NEW c \in Conns, WriteFrame(c) PROVE ChannelClosedOnce'
  BY <1>16, <1>0 DEF WriteFrame, WriterReturns, ChannelClosedOnce
<1>17. ASSUME NEW c \in Conns, WriterEnds(c) PROVE ChannelClosedOnce'
  BY <1>17, <1>0 DEF WriterEnds, WriterReturns, ChannelClosedOnce
<1>18. ASSUME NEW c \in Conns, ReadFails(c) PROVE ChannelClosedOnce'
  BY <1>18, <1>0 DEF ReadFails, Fault, ChannelClosedOnce
<1>19. ASSUME NEW c \in Conns, SendUnregister(c) PROVE ChannelClosedOnce'
  BY <1>19, <1>0 DEF SendUnregister, ChannelClosedOnce
<1>20. ASSUME NEW c \in Conns, PeerLeaves(c) PROVE ChannelClosedOnce'
  BY <1>20, <1>0 DEF PeerLeaves, Fault, ChannelClosedOnce
<1>21. CASE UNCHANGED vars
  BY <1>21, <1>0 DEF vars, ChannelClosedOnce
<1> QED
  BY <1>1, <1>2, <1>3, <1>4, <1>5, <1>6, <1>7, <1>8, <1>9, <1>10, <1>11, <1>12, <1>13,
     <1>14, <1>15, <1>16, <1>17, <1>18, <1>19, <1>20, <1>21 DEF Next, Run, ServeWS,
     Pumps

\* A connection is registered, joins and is closed in this order, once each.
LEMMA CInvStep == CInv /\ [Next]_vars => CInv'
  BY TInvStep, JoinsOnceStep, ClosedOnceStep DEF CInv

-----------------------------------------------------------------------------
\* Boards are copied from the stored one, which only grows.
LEMMA NoneNewerStep ==
    NInv /\ [Next]_vars => NoneNewer'
<1> SUFFICES ASSUME NInv, [Next]_vars PROVE NoneNewer'
  OBVIOUS
<1> USE Capacities DEF redisVars, chanVars, serveVars, pumpVars
<1>0. RedisTypeOK /\ ChannelsTypeOK /\ ClientsTypeOK /\ BoardsExist /\ RegisteredOnce
      /\ JoinsOnce /\ ChannelClosedOnce /\ NoneNewer /\ NoGap
  BY DEF NInv, CInv, TInv, TypeOK
<1>1. CASE StoreBoard
  <2>1. \A n \in Nat : n <= stored => n <= stored'
    BY <1>0, <1>1 DEF StoreBoard, RedisTypeOK
  <2>2. /\ \A i \in 1 .. Len(inbox) : inbox[i] \in Nat
        /\ \A i \in 1 .. Len(broadcast) : broadcast[i] \in Nat
        /\ \A c \in Conns : snap[c] \in Nat /\ received[c] \in Nat
        /\ \A c \in Conns : \A i \in 1 .. Len(send[c]) : send[c][i] \in Nat
    <3>1. \A i \in 1 .. Len(inbox) : inbox[i] \in Nat
      BY <1>0 DEF RedisTypeOK
    <3>2. \A i \in 1 .. Len(broadcast) : broadcast[i] \in Nat
      BY <1>0 DEF ChannelsTypeOK
    <3>3. \A c \in Conns : snap[c] \in Nat /\ received[c] \in Nat
      BY <1>0 DEF ClientsTypeOK
    <3>4. ASSUME NEW c \in Conns PROVE \A i \in 1 .. Len(send[c]) : send[c][i] \in Nat
      BY <1>0 DEF ChannelsTypeOK
    <3> QED
      BY <3>1, <3>2, <3>3, <3>4
  <2>3. UNCHANGED <<inbox, broadcast, snap, received, send>>
    BY <1>1 DEF StoreBoard
  <2> QED
    BY <1>0, <2>1, <2>2, <2>3 DEF NoneNewer
<1>2. CASE PublishBoard
  <2>1. stored \in 1 .. MaxBoards /\ inbox \in Seq(1 .. MaxBoards)
    BY <1>0, <1>2 DEF PublishBoard, RedisTypeOK, BoardsExist
  <2>2. \A i \in 1 .. Len(inbox') : inbox'[i] <= stored
    <3>1. CASE inbox' = Append(inbox, stored)
      BY <1>0, <2>1, <3>1, AppendFacts DEF NoneNewer
    <3>2. CASE inbox' = inbox
      BY <1>0, <3>2 DEF NoneNewer
    <3> QED
      BY <1>2, <3>1, <3>2 DEF PublishBoard
  <2> QED
    BY <1>0, <1>2, <2>2 DEF PublishBoard, NoneNewer
<1>3. CASE PSubscribe
  BY <1>3, <1>0 DEF PSubscribe, NoneNewer
<1>4. CASE SubscriptionBreaks
  BY <1>4, <1>0 DEF SubscriptionBreaks, Fault, NoneNewer
<1>5. CASE DispatchPubSubMsg
  <2>1. /\ Head(inbox) = inbox[1] /\ Head(inbox) \in 1 .. MaxBoards
        /\ Len(inbox) \in Nat /\ Len(inbox) >= 1
        /\ Len(Tail(inbox)) = Len(inbox) - 1
        /\ \A i \in 1 .. Len(inbox) - 1 : Tail(inbox)[i] = inbox[i + 1]
    BY <1>0, <1>5, TailFacts DEF DispatchPubSubMsg, RedisTypeOK
  <2>2. \A i \in 1 .. Len(inbox') : inbox'[i] <= stored
    BY <1>0, <1>5, <2>1 DEF DispatchPubSubMsg, NoneNewer
  <2>3. Head(inbox) <= stored
    BY <1>0, <2>1 DEF NoneNewer
  <2>4. \A i \in 1 .. Len(broadcast') : broadcast'[i] <= stored
    <3>1. CASE broadcast' = Append(broadcast, Head(inbox))
      BY <1>0, <2>1, <2>3, <3>1, AppendFacts DEF NoneNewer, ChannelsTypeOK
    <3>2. CASE broadcast' = broadcast
      BY <1>0, <3>2 DEF NoneNewer
    <3> QED
      BY <1>5, <3>1, <3>2 DEF DispatchPubSubMsg
  <2> QED
    BY <1>0, <1>5, <2>2, <2>4 DEF DispatchPubSubMsg, NoneNewer
<1>6. CASE HandleRegister
  BY <1>6, <1>0 DEF HandleRegister, NoneNewer
<1>7. CASE HandleUnregister
  BY <1>7, <1>0 DEF HandleUnregister, NoneNewer
<1>8. CASE HandleBroadcast
  <2>1. /\ Head(broadcast) = broadcast[1] /\ Head(broadcast) \in 1 .. MaxBoards
        /\ Len(broadcast) \in Nat /\ Len(broadcast) >= 1
        /\ Len(Tail(broadcast)) = Len(broadcast) - 1
        /\ \A i \in 1 .. Len(broadcast) - 1 : Tail(broadcast)[i] = broadcast[i + 1]
    BY <1>0, <1>8, TailFacts DEF HandleBroadcast, ChannelsTypeOK
  <2>2. \A i \in 1 .. Len(broadcast') : broadcast'[i] <= stored
    BY <1>0, <1>8, <2>1 DEF HandleBroadcast, NoneNewer
  <2>3. Head(broadcast) <= stored
    BY <1>0, <2>1 DEF NoneNewer
  <2>4. ASSUME NEW c \in Conns PROVE \A i \in 1 .. Len(send'[c]) : send'[c][i] <= stored
    <3>1. send[c] \in Seq(1 .. MaxBoards)
      BY <1>0 DEF ChannelsTypeOK
    <3>2. CASE send'[c] = Append(send[c], Head(broadcast))
      BY <1>0, <2>1, <2>3, <3>1, <3>2, AppendFacts DEF NoneNewer
    <3>3. CASE send'[c] = send[c]
      BY <1>0, <3>3 DEF NoneNewer
    <3> QED
      BY <1>8, <3>2, <3>3 DEF HandleBroadcast
  <2> QED
    BY <1>0, <1>8, <2>2, <2>4 DEF HandleBroadcast, NoneNewer
<1>9. CASE Shutdown
  BY <1>9, <1>0 DEF Shutdown, Fault, NoneNewer
<1>10. ASSUME NEW c \in Conns, Upgrade(c) PROVE NoneNewer'
  BY <1>10, <1>0 DEF Upgrade, NoneNewer
<1>11. ASSUME NEW c \in Conns, SendRegister(c) PROVE NoneNewer'
  BY <1>11, <1>0 DEF SendRegister, NoneNewer
<1>12. ASSUME NEW c \in Conns, AwaitSnapshot(c) PROVE NoneNewer'
  BY <1>12, <1>0 DEF AwaitSnapshot, StartPumps, NoneNewer
<1>13. ASSUME NEW c \in Conns, PutSnapshot(c) PROVE NoneNewer'
  <2>1. snap[c] \in 1 .. MaxBoards /\ snap[c] <= stored
    BY <1>0, <1>13 DEF PutSnapshot, BoardsExist, ClientsTypeOK, NoneNewer
  <2>2. send[c] \in Seq(1 .. MaxBoards) /\ send'[c] = Append(send[c], snap[c])
    BY <1>0, <1>13 DEF PutSnapshot, ChannelsTypeOK
  <2>3. \A i \in 1 .. Len(send'[c]) : send'[c][i] <= stored
    BY <1>0, <2>1, <2>2, AppendFacts DEF NoneNewer
  <2> QED
    BY <1>0, <1>13, <2>3 DEF PutSnapshot, StartPumps, NoneNewer, ChannelsTypeOK
<1>14. ASSUME NEW c \in Conns, PutPanics(c) PROVE NoneNewer'
  BY <1>14, <1>0 DEF PutPanics, NoneNewer
<1>15. ASSUME NEW c \in Conns, FetchSnapshot(c) PROVE NoneNewer'
  <2>1. ASSUME NEW d \in Conns PROVE snap'[d] <= stored
    <3>1. snap'[d] = snap[d] \/ snap'[d] = stored
      BY <1>0, <1>15 DEF FetchSnapshot, ClientsTypeOK
    <3>2. snap[d] <= stored /\ stored <= stored
      BY <1>0 DEF NoneNewer, RedisTypeOK
    <3> QED
      BY <3>1, <3>2
  <2> QED
    BY <1>0, <1>15, <2>1 DEF FetchSnapshot, NoneNewer
<1>16. ASSUME NEW c \in Conns, WriteFrame(c) PROVE NoneNewer'
  <2>1. stored \in Nat /\ received[c] \in 0 .. stored
    BY <1>0 DEF RedisTypeOK, ClientsTypeOK, NoneNewer
  <2>2. Max({received[c]} \cup ToSet(send[c])) <= stored
    <3>1. send[c] \in Seq(1 .. MaxBoards)
      BY <1>0 DEF ChannelsTypeOK
    <3>2. send[c] \in Seq(Nat)
      BY <3>1
    <3>3. \A i \in 1 .. Len(send[c]) : send[c][i] \in 1 .. stored
      BY <1>0, <2>1, <3>1 DEF NoneNewer
    <3>4. Max({received[c]} \cup ToSet(send[c])) \in 0 .. stored
      BY <2>1, <3>2, <3>3, FrameFacts
    <3> QED
      BY <2>1, <3>4
  <2>3. \A d \in Conns : received'[d] <= stored
    BY <1>0, <1>16, <2>2 DEF WriteFrame, NoneNewer, ClientsTypeOK
  <2>4. \A d \in Conns : \A i \in 1 .. Len(send'[d]) : send'[d][i] <= stored
    BY <1>0, <1>16 DEF WriteFrame, NoneNewer, ChannelsTypeOK
  <2> QED
    BY <1>0, <1>16, <2>3, <2>4 DEF WriteFrame, NoneNewer
<1>17. ASSUME NEW c \in Conns, WriterEnds(c) PROVE NoneNewer'
  BY <1>17, <1>0 DEF WriterEnds, WriterReturns, NoneNewer
<1>18. ASSUME NEW c \in Conns, ReadFails(c) PROVE NoneNewer'
  BY <1>18, <1>0 DEF ReadFails, Fault, NoneNewer
<1>19. ASSUME NEW c \in Conns, SendUnregister(c) PROVE NoneNewer'
  BY <1>19, <1>0 DEF SendUnregister, NoneNewer
<1>20. ASSUME NEW c \in Conns, PeerLeaves(c) PROVE NoneNewer'
  BY <1>20, <1>0 DEF PeerLeaves, Fault, NoneNewer
<1>21. CASE UNCHANGED vars
  BY <1>21, <1>0 DEF vars, NoneNewer
<1> QED
  BY <1>1, <1>2, <1>3, <1>4, <1>5, <1>6, <1>7, <1>8, <1>9, <1>10, <1>11, <1>12, <1>13,
     <1>14, <1>15, <1>16, <1>17, <1>18, <1>19, <1>20, <1>21 DEF Next, Run, ServeWS,
     Pumps

\* The stored board stays under way until the room has it, and the room keeps it
\* until the connection does.
LEMMA NoGapStep ==
    NInv /\ [Next]_vars => NoGap'
<1> SUFFICES ASSUME NInv, [Next]_vars PROVE NoGap'
  OBVIOUS
<1> USE Capacities DEF redisVars, chanVars, serveVars, pumpVars
<1>0. RedisTypeOK /\ ChannelsTypeOK /\ ClientsTypeOK /\ BoardsExist /\ RegisteredOnce
      /\ JoinsOnce /\ ChannelClosedOnce /\ NoneNewer /\ NoGap
  BY DEF NInv, CInv, TInv, TypeOK
<1>1. CASE StoreBoard
  BY <1>1, <1>0 DEF StoreBoard, NoGap, UnderWay, Holds
<1>2. CASE PublishBoard
  <2>1. stored \in 1 .. MaxBoards /\ inbox \in Seq(1 .. MaxBoards)
    BY <1>0, <1>2 DEF PublishBoard, RedisTypeOK, BoardsExist
  <2>2. CASE inbox' = Append(inbox, stored)
    <3>1. inbox'[Len(inbox')] = stored' /\ Len(inbox') \in 1 .. Len(inbox')
      BY <1>2, <2>1, <2>2, AppendFacts DEF PublishBoard
    <3> QED
      BY <3>1 DEF NoGap, UnderWay
  <2>3. CASE lost' = lost \cup {stored}
    BY <1>2, <2>3 DEF PublishBoard, NoGap
  <2> QED
    BY <1>2, <2>2, <2>3 DEF PublishBoard
<1>3. CASE PSubscribe
  BY <1>3, <1>0 DEF PSubscribe, NoGap, UnderWay, Holds
<1>4. CASE SubscriptionBreaks
  <2>1. \A i \in 1 .. Len(inbox) : inbox[i] \in lost'
    BY <1>0, <1>4 DEF SubscriptionBreaks, ToSet, RedisTypeOK
  <2>2. UnderWay => UnderWay' \/ stored \in lost'
    BY <1>4, <2>1 DEF SubscriptionBreaks, UnderWay
  <2> QED
    BY <1>0, <1>4, <2>2 DEF SubscriptionBreaks, NoGap, Holds
<1>5. CASE DispatchPubSubMsg
  <2>1. /\ Head(inbox) = inbox[1] /\ Head(inbox) \in 1 .. MaxBoards
        /\ Len(inbox) \in Nat /\ Len(inbox) >= 1
        /\ Len(inbox') = Len(inbox) - 1
        /\ \A i \in 1 .. Len(inbox) - 1 : inbox'[i] = inbox[i + 1]
    BY <1>0, <1>5, TailFacts DEF DispatchPubSubMsg, RedisTypeOK
  <2>2. \A i \in 1 .. Len(inbox) :
            inbox[i] # Head(inbox) => \E j \in 1 .. Len(inbox') : inbox'[j] = inbox[i]
    <3>1. ASSUME NEW i \in 1 .. Len(inbox), inbox[i] # Head(inbox)
          PROVE  \E j \in 1 .. Len(inbox') : inbox'[j] = inbox[i]
      <4>1. i - 1 \in 1 .. Len(inbox')
        BY <2>1, <3>1
      <4>2. inbox'[i - 1] = inbox[i]
        BY <2>1, <4>1
      <4> QED
        BY <4>1, <4>2
    <3> QED
      BY <3>1
  <2>3. CASE broadcast' = Append(broadcast, Head(inbox)) /\ lost' = lost
    <3>1. /\ \A i \in 1 .. Len(broadcast) :
                i \in 1 .. Len(broadcast') /\ broadcast'[i] = broadcast[i]
          /\ Len(broadcast') \in 1 .. Len(broadcast')
          /\ broadcast'[Len(broadcast')] = Head(inbox)
      BY <1>0, <2>1, <2>3, AppendFacts DEF ChannelsTypeOK
    <3>2. UnderWay => UnderWay'
      BY <1>5, <2>2, <3>1 DEF DispatchPubSubMsg, UnderWay
    <3> QED
      BY <1>0, <1>5, <3>2 DEF DispatchPubSubMsg, NoGap, Holds
  <2>4. CASE broadcast' = broadcast /\ lost' = lost \cup {Head(inbox)}
    <3>1. UnderWay => UnderWay' \/ stored \in lost'
      BY <1>5, <2>2, <2>4 DEF DispatchPubSubMsg, UnderWay
    <3> QED
      BY <1>0, <1>5, <2>4, <3>1 DEF DispatchPubSubMsg, NoGap, Holds
  <2> QED
    BY <1>5, <2>3, <2>4 DEF DispatchPubSubMsg
<1>6. CASE HandleRegister
  <2>1. Head(register) \in Conns /\ fetch'[Head(register)] = "reading"
    BY <1>0, <1>6, TailFacts DEF HandleRegister, ChannelsTypeOK, ClientsTypeOK
  <2>2. \A c \in Conns \ {Head(register)} : fetch'[c] = fetch[c]
    BY <1>0, <1>6 DEF HandleRegister, ClientsTypeOK
  <2>3. rooms' \subseteq Conns /\ rooms' = rooms \cup {Head(register)}
    BY <1>0, <1>6, <2>1 DEF HandleRegister, ChannelsTypeOK
  <2> QED
    BY <1>0, <1>6, <2>1, <2>2, <2>3 DEF HandleRegister, NoGap, UnderWay, Holds
<1>7. CASE HandleUnregister
  <2>1. rooms' \subseteq rooms
    BY <1>7 DEF HandleUnregister
  <2> QED
    BY <1>0, <1>7, <2>1 DEF HandleUnregister, NoGap, UnderWay, Holds
<1>8. CASE HandleBroadcast
  <2>1. /\ Head(broadcast) = broadcast[1] /\ Head(broadcast) \in 1 .. MaxBoards
        /\ Len(broadcast) \in Nat /\ Len(broadcast) >= 1
        /\ Len(broadcast') = Len(broadcast) - 1
        /\ \A i \in 1 .. Len(broadcast) - 1 : broadcast'[i] = broadcast[i + 1]
    BY <1>0, <1>8, TailFacts DEF HandleBroadcast, ChannelsTypeOK
  <2>2. \A i \in 1 .. Len(broadcast) :
            broadcast[i] # Head(broadcast)
                => \E j \in 1 .. Len(broadcast') : broadcast'[j] = broadcast[i]
    <3>1. ASSUME NEW i \in 1 .. Len(broadcast), broadcast[i] # Head(broadcast)
          PROVE  \E j \in 1 .. Len(broadcast') : broadcast'[j] = broadcast[i]
      <4>1. i - 1 \in 1 .. Len(broadcast')
        BY <2>1, <3>1
      <4>2. broadcast'[i - 1] = broadcast[i]
        BY <2>1, <4>1
      <4> QED
        BY <4>1, <4>2
    <3> QED
      BY <3>1
  <2>3. UnderWay => UnderWay' \/ stored = Head(broadcast)
    BY <1>8, <2>2 DEF HandleBroadcast, UnderWay
  <2>4. ASSUME NEW c \in rooms'
        PROVE  /\ c \in rooms /\ c \in Conns
               /\ \E i \in 1 .. Len(send'[c]) : send'[c][i] = Head(broadcast)
               /\ Holds(c) => Holds(c)'
    <3>1. /\ c \in rooms /\ c \in Conns
          /\ send[c] \in Seq(1 .. MaxBoards)
          /\ send'[c] = Append(send[c], Head(broadcast))
      BY <1>0, <1>8, <2>4 DEF HandleBroadcast, ChannelsTypeOK
    <3>2. /\ \A i \in 1 .. Len(send[c]) :
                i \in 1 .. Len(send'[c]) /\ send'[c][i] = send[c][i]
          /\ Len(send'[c]) \in 1 .. Len(send'[c])
          /\ send'[c][Len(send'[c])] = Head(broadcast)
      BY <2>1, <3>1, AppendFacts
    <3>3. UNCHANGED <<received, stored, serve, snap>>
      BY <1>8 DEF HandleBroadcast
    <3> QED
      BY <3>1, <3>2, <3>3 DEF Holds
  <2>5. ASSUME NEW c \in rooms', stored = Head(broadcast) PROVE Holds(c)'
    BY <1>8, <2>4, <2>5 DEF HandleBroadcast, Holds
  <2>6. UNCHANGED <<conn, fetch, stored, lost>>
    BY <1>8 DEF HandleBroadcast
  <2> QED
    BY <1>0, <2>3, <2>4, <2>5, <2>6 DEF NoGap
<1>9. CASE Shutdown
  BY <1>9, <1>0 DEF Shutdown, Fault, NoGap, UnderWay, Holds
<1>10. ASSUME NEW c \in Conns, Upgrade(c) PROVE NoGap'
  <2>1. c \notin rooms
    BY <1>0, <1>10 DEF Upgrade, RegisteredOnce, JoinsOnce
  <2>2. \A d \in rooms : conn'[d] = conn[d] /\ serve'[d] = serve[d]
    BY <1>0, <1>10, <2>1 DEF Upgrade, ClientsTypeOK, ChannelsTypeOK
  <2> QED
    BY <1>0, <1>10, <2>2 DEF Upgrade, NoGap, UnderWay, Holds
<1>11. ASSUME NEW c \in Conns, SendRegister(c) PROVE NoGap'
  <2>1. c \notin rooms
    BY <1>0, <1>11 DEF SendRegister, RegisteredOnce, JoinsOnce
  <2>2. \A d \in rooms : serve'[d] = serve[d]
    BY <1>0, <1>11, <2>1 DEF SendRegister, ClientsTypeOK, ChannelsTypeOK
  <2> QED
    BY <1>0, <1>11, <2>2 DEF SendRegister, NoGap, UnderWay, Holds
<1>12. ASSUME NEW c \in Conns, AwaitSnapshot(c) PROVE NoGap'
  <2>1. \A d \in Conns \ {c} : serve'[d] = serve[d]
    BY <1>0, <1>12 DEF AwaitSnapshot, StartPumps, ClientsTypeOK
  <2>2. Holds(c) => Holds(c)'
    <3>1. CASE serve'[c] = "put"
      BY <1>12, <3>1 DEF AwaitSnapshot, Holds
    <3>2. CASE snap[c] = 0
      <4>1. snap[c] = stored => received[c] = stored
        BY <1>0, <3>2 DEF NoneNewer, ClientsTypeOK, RedisTypeOK
      <4> QED
        BY <1>12, <4>1 DEF AwaitSnapshot, Holds
    <3> QED
      BY <1>0, <1>12, <3>1, <3>2 DEF AwaitSnapshot, ClientsTypeOK
  <2>3. \A d \in Conns \ {c} : Holds(d) => Holds(d)'
    BY <1>12, <2>1 DEF AwaitSnapshot, Holds
  <2>4. UnderWay => UnderWay'
    BY <1>12 DEF AwaitSnapshot, UnderWay
  <2> QED
    BY <1>0, <1>12, <2>2, <2>3, <2>4 DEF AwaitSnapshot, NoGap, ChannelsTypeOK
<1>13. ASSUME NEW c \in Conns, PutSnapshot(c) PROVE NoGap'
  <2>1. snap[c] \in 1 .. MaxBoards
    BY <1>0, <1>13 DEF PutSnapshot, BoardsExist, ClientsTypeOK
  <2>2. send[c] \in Seq(1 .. MaxBoards) /\ send'[c] = Append(send[c], snap[c])
    BY <1>0, <1>13 DEF PutSnapshot, ChannelsTypeOK
  <2>3. /\ \A i \in 1 .. Len(send[c]) :
              i \in 1 .. Len(send'[c]) /\ send'[c][i] = send[c][i]
        /\ Len(send'[c]) \in 1 .. Len(send'[c])
        /\ send'[c][Len(send'[c])] = snap[c]
    BY <2>1, <2>2, AppendFacts
  <2>4. Holds(c) => Holds(c)'
    BY <1>13, <2>3 DEF PutSnapshot, Holds
  <2>5. \A d \in Conns \ {c} : serve'[d] = serve[d] /\ send'[d] = send[d]
    BY <1>0, <1>13 DEF PutSnapshot, StartPumps, ClientsTypeOK, ChannelsTypeOK
  <2>6. \A d \in Conns \ {c} : Holds(d) => Holds(d)'
    BY <1>13, <2>5 DEF PutSnapshot, Holds
  <2>7. UnderWay => UnderWay'
    BY <1>13 DEF PutSnapshot, UnderWay
  <2> QED
    BY <1>0, <1>13, <2>4, <2>6, <2>7 DEF PutSnapshot, NoGap, ChannelsTypeOK
<1>14. ASSUME NEW c \in Conns, PutPanics(c) PROVE NoGap'
  <2>1. c \notin rooms
    BY <1>0, <1>14 DEF PutPanics, Closed, ChannelClosedOnce, ChannelsTypeOK
  <2>2. \A d \in rooms : serve'[d] = serve[d]
    BY <1>0, <1>14, <2>1 DEF PutPanics, ClientsTypeOK, ChannelsTypeOK
  <2> QED
    BY <1>0, <1>14, <2>2 DEF PutPanics, NoGap, UnderWay, Holds
<1>15. ASSUME NEW c \in Conns, FetchSnapshot(c) PROVE NoGap'
  <2>1. \A d \in Conns \ {c} : fetch'[d] = fetch[d] /\ snap'[d] = snap[d]
    BY <1>0, <1>15 DEF FetchSnapshot, ClientsTypeOK
  <2>2. fetch'[c] = "done" => Holds(c)'
    <3>1. serve[c] = "await"
      BY <1>0, <1>15 DEF FetchSnapshot, RegisteredOnce
    <3>2. fetch'[c] = "done" => snap'[c] = stored
      BY <1>0, <1>15 DEF FetchSnapshot, ClientsTypeOK
    <3> QED
      BY <1>15, <3>1, <3>2 DEF FetchSnapshot, Holds
  <2>3. \A d \in Conns \ {c} : Holds(d) => Holds(d)'
    BY <1>15, <2>1 DEF FetchSnapshot, Holds
  <2>4. UnderWay => UnderWay'
    BY <1>15 DEF FetchSnapshot, UnderWay
  <2> QED
    BY <1>0, <1>15, <2>1, <2>2, <2>3, <2>4 DEF FetchSnapshot, NoGap, ChannelsTypeOK
<1>16. ASSUME NEW c \in Conns, WriteFrame(c) PROVE NoGap'
  <2>1. stored \in Nat /\ received[c] \in 0 .. stored
    BY <1>0 DEF RedisTypeOK, ClientsTypeOK, NoneNewer
  <2>2. conn'[c] = "open" /\ Holds(c) => Holds(c)'
    <3>1. SUFFICES ASSUME conn'[c] = "open", Holds(c) PROVE Holds(c)'
      OBVIOUS
    <3>2. received'[c] = Max({received[c]} \cup ToSet(send[c]))
      BY <1>0, <1>16, <3>1 DEF WriteFrame, WriterReturns, ClientsTypeOK
    <3>3. send[c] \in Seq(1 .. MaxBoards)
      BY <1>0 DEF ChannelsTypeOK
    <3>4. send[c] \in Seq(Nat)
      BY <3>3
    <3>5. \A i \in 1 .. Len(send[c]) : send[c][i] \in 1 .. stored
      BY <1>0, <2>1, <3>3 DEF NoneNewer
    <3>6. /\ received'[c] \in 0 .. stored /\ received'[c] >= received[c]
          /\ \A i \in 1 .. Len(send[c]) : received'[c] >= send[c][i]
      BY <2>1, <3>2, <3>4, <3>5, FrameFacts
    <3>7. CASE received[c] = stored
      BY <1>16, <2>1, <3>6, <3>7 DEF WriteFrame, Holds
    <3>8. CASE \E i \in 1 .. Len(send[c]) : send[c][i] = stored
      BY <1>16, <2>1, <3>6, <3>8 DEF WriteFrame, Holds
    <3>9. CASE serve[c] \in {"await", "put"} /\ snap[c] = stored
      BY <1>16, <3>9 DEF WriteFrame, Holds
    <3> QED
      BY <3>1, <3>7, <3>8, <3>9 DEF Holds
  <2>3. \A d \in Conns \ {c} :
            send'[d] = send[d] /\ received'[d] = received[d] /\ conn'[d] = conn[d]
    BY <1>0, <1>16 DEF WriteFrame, WriterReturns, ChannelsTypeOK, ClientsTypeOK
  <2>4. \A d \in Conns \ {c} : Holds(d) => Holds(d)'
    BY <1>16, <2>3 DEF WriteFrame, Holds
  <2>5. UnderWay => UnderWay'
    BY <1>16 DEF WriteFrame, UnderWay
  <2>6. conn'[c] = "open" => conn[c] = "open"
    BY <1>0, <1>16 DEF WriteFrame, WriterReturns, ClientsTypeOK
  <2> QED
    BY <1>0, <1>16, <2>2, <2>3, <2>4, <2>5, <2>6 DEF WriteFrame, NoGap, ChannelsTypeOK
<1>17. ASSUME NEW c \in Conns, WriterEnds(c) PROVE NoGap'
  <2>1. \A d \in Conns : conn'[d] = "open" => conn[d] = "open"
    BY <1>0, <1>17 DEF WriterEnds, WriterReturns, ClientsTypeOK
  <2> QED
    BY <1>0, <1>17, <2>1 DEF WriterEnds, NoGap, UnderWay, Holds, ChannelsTypeOK
<1>18. ASSUME NEW c \in Conns, ReadFails(c) PROVE NoGap'
  BY <1>18, <1>0 DEF ReadFails, Fault, NoGap, UnderWay, Holds
<1>19. ASSUME NEW c \in Conns, SendUnregister(c) PROVE NoGap'
  BY <1>19, <1>0 DEF SendUnregister, NoGap, UnderWay, Holds
<1>20. ASSUME NEW c \in Conns, PeerLeaves(c) PROVE NoGap'
  <2>1. \A d \in Conns : conn'[d] = "open" => conn[d] = "open"
    BY <1>0, <1>20 DEF PeerLeaves, ClientsTypeOK
  <2> QED
    BY <1>0, <1>20, <2>1 DEF PeerLeaves, NoGap, UnderWay, Holds, ChannelsTypeOK
<1>21. CASE UNCHANGED vars
  BY <1>21, <1>0 DEF vars, NoGap, UnderWay, Holds
<1> QED
  BY <1>1, <1>2, <1>3, <1>4, <1>5, <1>6, <1>7, <1>8, <1>9, <1>10, <1>11, <1>12, <1>13,
     <1>14, <1>15, <1>16, <1>17, <1>18, <1>19, <1>20, <1>21 DEF Next, Run, ServeWS,
     Pumps

\* The invariants of the three theorems together are inductive.
LEMMA NInvStep == NInv /\ [Next]_vars => NInv'
  BY CInvStep, NoneNewerStep, NoGapStep DEF NInv, CInv

\* At the start nothing is stored and nobody is connected.
LEMMA NInvInit == Init => NInv
<1> SUFFICES ASSUME Init PROVE NInv
  OBVIOUS
<1>1. TInv
  BY TInvInit
<1>2. JoinsOnce /\ ChannelClosedOnce
  BY DEF Init, JoinsOnce, ChannelClosedOnce
<1>3. NoneNewer /\ NoGap
  BY DEF Init, NoneNewer, NoGap
<1> QED
  BY <1>1, <1>2, <1>3 DEF NInv, CInv

-----------------------------------------------------------------------------
\* Types are kept, no channel of the hub holds more than its capacity and none
\* carries a board that was never stored.
THEOREM TypeCorrect == Spec => []TypeOK
<1>1. TInv => TypeOK
  BY DEF TInv
<1> QED
  BY TInvInit, TInvStep, <1>1, PTL DEF Spec

\* Eviction, the pumps' leaving and the shutdown never close a send channel twice,
\* and never one whose connection is still in the room: Run does not panic.
THEOREM ClosedOnce == Spec => []ChannelClosedOnce
<1>1. NInv => ChannelClosedOnce
  BY DEF NInv, CInv
<1> QED
  BY NInvInit, NInvStep, <1>1, PTL DEF Spec

\* A connection joins the room before its snapshot is read, so that no board falls
\* between the two: once nothing is under way the connection has the stored board.
THEOREM NothingMissed == Spec => []NoBoardMissed
<1>1. NInv => NoBoardMissed
  <2> SUFFICES ASSUME NInv, Quiet, NEW c \in rooms,
                      serve[c] = "served", conn[c] = "open", send[c] = <<>>,
                      fetch[c] = "done", stored \notin lost
               PROVE  received[c] = stored
    BY DEF NoBoardMissed
  <2>1. ~UnderWay
    BY DEF Quiet, UnderWay
  <2>2. Holds(c)
    BY <2>1 DEF NInv, NoGap
  <2> QED
    BY <2>2 DEF Holds
<1> QED
  BY NInvInit, NInvStep, <1>1, PTL DEF Spec
=============================================================================
