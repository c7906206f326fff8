-------------------------------- MODULE WSHub --------------------------------
(***************************************************************************)
(* The WebSocket fan-out of internal/broadcast: Hub (hub.go) and the       *)
(* lifecycle of one connection (ws_client.go).                             *)
(*                                                                         *)
(* Three kinds of goroutine meet here.  One broadcaster calls              *)
(* Hub.Broadcast and holds h.mu across all the Sends.  For each client c   *)
(* there is the HTTP handler (HandleWebSocket, which becomes the read      *)
(* pump) and the write pump it starts.  handler[c] and pump[c] are their   *)
(* program counters; the steps between two of their values are the steps   *)
(* other goroutines can see.                                               *)
(*                                                                         *)
(* The payload of the n-th Broadcast is the number n.                      *)
(***************************************************************************)
EXTENDS Integers, Sequences, FiniteSets

CONSTANTS
  Client,         \* connections; each is accepted at most once
  Cap,            \* capacity of sendCh (64 in newWSClient)
  MaxBroadcasts   \* bound on the number of calls of Broadcast

ASSUME CapAssumption == Cap \in Nat \ {0}
ASSUME BoundAssumption == MaxBroadcasts \in Nat

VARIABLES
  clients,    \* Hub.clients
  lock,       \* Broadcast holds Hub.mu
  pending,    \* clients the loop of the current Broadcast has still to visit
  published,  \* number of Broadcasts begun, and so the payload of the last
  handler,    \* where HandleWebSocket stands for each client
  pump,       \* where writePump stands
  done,       \* WSClient.done is closed
  sendCh,     \* WSClient.sendCh
  inFlight,   \* the message conn.Write was last called with, 0 when it returned
  conn,       \* the state of the websocket.Conn
  written,    \* history: messages whose conn.Write returned nil
  since,      \* history: published at the time of Register
  dropped     \* history: messages Send discarded because sendCh was full

hubVars == <<clients, lock, pending, published>>
chanVars == <<sendCh, inFlight, written, dropped>>
lifeVars == <<handler, pump, done, conn, since>>
vars == <<hubVars, chanVars, lifeVars>>

HandlerState ==
  {"none", "accepted", "registered", "reading", "failed", "doneClosed",
   "closed", "unregistered", "gone"}

PumpState == {"none", "select", "writing", "exited"}

ConnState == {"none", "open", "closed"}

\* The handler has called Register and has not yet begun to clean up.
Serving == {"registered", "reading", "failed"}

\* The handler has never called Register, or is past Unregister.
Detached == {"none", "accepted", "unregistered", "gone"}

------------------------------------------------------------------------------
Init ==
  /\ clients = {}
  /\ lock = FALSE
  /\ pending = {}
  /\ published = 0
  /\ handler = [c \in Client |-> "none"]
  /\ pump = [c \in Client |-> "none"]
  /\ done = [c \in Client |-> FALSE]
  /\ sendCh = [c \in Client |-> << >>]
  /\ inFlight = [c \in Client |-> 0]
  /\ conn = [c \in Client |-> "none"]
  /\ written = [c \in Client |-> << >>]
  /\ since = [c \in Client |-> 0]
  /\ dropped = [c \in Client |-> {}]

HandlerMoves(c, from, to) ==
  /\ handler[c] = from
  /\ handler' = [handler EXCEPT ![c] = to]

------------------------------------------------------------------------------
(* HandleWebSocket.  A step that takes h.mu waits until no Broadcast holds *)
(* it; ClientCount, called twice for the log, takes it for reading.        *)

\* websocket.Accept succeeds and newWSClient wraps the connection.  An Accept
\* that fails returns from the handler and leaves no trace.
Accept(c) ==
  /\ HandlerMoves(c, "none", "accepted")
  /\ conn' = [conn EXCEPT ![c] = "open"]
  /\ UNCHANGED <<hubVars, chanVars, pump, done, since>>

Register(c) ==
  /\ ~lock
  /\ HandlerMoves(c, "accepted", "registered")
  /\ clients' = clients \union {c}
  /\ since' = [since EXCEPT ![c] = published]
  /\ UNCHANGED <<lock, pending, published, chanVars, pump, done, conn>>

StartPumps_NoWritePump(c) ==
  /\ ~lock
  /\ HandlerMoves(c, "registered", "reading")
  /\ UNCHANGED <<hubVars, chanVars, pump, done, conn, since>>

\* ClientCount for the log, then `go client.writePump` and the first Read.
StartPumps(c) ==
  /\ ~lock
  /\ HandlerMoves(c, "registered", "reading")
  /\ pump' = [pump EXCEPT ![c] = "select"]
  /\ UNCHANGED <<hubVars, chanVars, done, conn, since>>

\* The peer or the network goes away, as far as the library can see it.
ConnBreaks(c) ==
  /\ conn[c] = "open"
  /\ handler[c] # "gone"
  /\ conn' = [conn EXCEPT ![c] = "closed"]
  /\ UNCHANGED <<hubVars, chanVars, handler, pump, done, since>>

\* conn.Read returns an error: the connection is closed, or the peer sent a
\* close frame or a message the library rejects while writes still succeed.
ReadFails(c) ==
  /\ HandlerMoves(c, "reading", "failed")
  /\ UNCHANGED <<hubVars, chanVars, pump, done, conn, since>>

\* The two halves of WSClient.Close: close(c.done), then c.conn.Close.
CloseDone(c) ==
  /\ HandlerMoves(c, "failed", "doneClosed")
  /\ done' = [done EXCEPT ![c] = TRUE]
  /\ UNCHANGED <<hubVars, chanVars, pump, conn, since>>

CloseConn_LeavesConnOpen(c) ==
  /\ HandlerMoves(c, "doneClosed", "closed")
  /\ UNCHANGED <<hubVars, chanVars, pump, done, conn, since>>

CloseConn(c) ==
  /\ HandlerMoves(c, "doneClosed", "closed")
  /\ conn' = [conn EXCEPT ![c] = "closed"]
  /\ UNCHANGED <<hubVars, chanVars, pump, done, since>>

Unregister_NotIfHubDid(c) ==
  /\ ~lock
  /\ HandlerMoves(c, "closed", "unregistered")
  /\ clients' = IF done[c] THEN clients ELSE clients \ {c}
  /\ UNCHANGED <<lock, pending, published, chanVars, pump, done, conn, since>>

Unregister(c) ==
  /\ ~lock
  /\ HandlerMoves(c, "closed", "unregistered")
  /\ clients' = clients \ {c}
  /\ UNCHANGED <<lock, pending, published, chanVars, pump, done, conn, since>>

\* ClientCount for the log, then the deferred cancel of ctx.
Return(c) ==
  /\ ~lock
  /\ HandlerMoves(c, "unregistered", "gone")
  /\ UNCHANGED <<hubVars, chanVars, pump, done, conn, since>>

------------------------------------------------------------------------------
(* writePump.  Its select chooses at random among the cases that are       *)
(* ready, so a message may still be taken after done is closed.            *)

PumpTake(c) ==
  /\ pump[c] = "select"
  /\ sendCh[c] # << >>
  /\ inFlight' = [inFlight EXCEPT ![c] = Head(sendCh[c])]
  /\ sendCh' = [sendCh EXCEPT ![c] = Tail(@)]
  /\ pump' = [pump EXCEPT ![c] = "writing"]
  /\ UNCHANGED <<hubVars, written, dropped, handler, done, conn, since>>

\* The cases done and ctx.Done; the handler cancels ctx when it returns.
PumpStop(c) ==
  /\ pump[c] = "select"
  /\ done[c] \/ handler[c] = "gone"
  /\ pump' = [pump EXCEPT ![c] = "exited"]
  /\ UNCHANGED <<hubVars, chanVars, handler, done, conn, since>>

PumpWriteOk(c) ==
  /\ pump[c] = "writing"
  /\ conn[c] = "open"
  /\ written' = [written EXCEPT ![c] = Append(@, inFlight[c])]
  /\ inFlight' = [inFlight EXCEPT ![c] = 0]
  /\ pump' = [pump EXCEPT ![c] = "select"]
  /\ UNCHANGED <<hubVars, sendCh, dropped, handler, done, conn, since>>

PumpWriteFails_Requeues(c) ==
  /\ pump[c] = "writing"
  /\ sendCh' = [sendCh EXCEPT ![c] = Append(@, inFlight[c])]
  /\ inFlight' = [inFlight EXCEPT ![c] = 0]
  /\ pump' = [pump EXCEPT ![c] = "select"]
  /\ UNCHANGED <<hubVars, written, dropped, handler, done, conn, since>>

\* The write fails or its 5 s run out; the library closes the connection on
\* any error.  The message in flight is not retried.
PumpWriteFails(c) ==
  /\ pump[c] = "writing"
  /\ pump' = [pump EXCEPT ![c] = "exited"]
  /\ conn' = [conn EXCEPT ![c] = "closed"]
  /\ UNCHANGED <<hubVars, chanVars, handler, done, since>>

------------------------------------------------------------------------------
(* Hub.Broadcast, one step per Send: the handlers and pumps of all clients *)
(* run between two of them, except for what needs h.mu.                    *)

BroadcastStart ==
  /\ ~lock
  /\ published < MaxBroadcasts
  /\ lock' = TRUE
  /\ pending' = clients
  /\ published' = published + 1
  /\ UNCHANGED <<clients, chanVars, lifeVars>>

\* The select of WSClient.Send: a random choice between the first two cases
\* when both are ready, the default (which also returns true) when none is.
SendQueues(c) ==
  /\ Len(sendCh[c]) < Cap
  /\ sendCh' = [sendCh EXCEPT ![c] = Append(@, published)]
  /\ UNCHANGED <<clients, dropped>>

SendFindsDone_KeepsSending(c) ==
  /\ done[c]
  /\ sendCh' = [sendCh EXCEPT ![c] = Append(@, published)]
  /\ UNCHANGED <<clients, dropped>>

SendFindsDone(c) ==
  /\ done[c]
  /\ clients' = clients \ {c}
  /\ UNCHANGED <<sendCh, dropped>>

SendDrops_Evicts(c) ==
  /\ Len(sendCh[c]) = Cap
  /\ ~done[c]
  /\ clients' = clients \ {c}
  /\ dropped' = [dropped EXCEPT ![c] = @ \union {published}]
  /\ UNCHANGED sendCh

SendDrops_Blocks(c) == FALSE

SendDrops(c) ==
  /\ Len(sendCh[c]) = Cap
  /\ ~done[c]
  /\ dropped' = [dropped EXCEPT ![c] = @ \union {published}]
  /\ UNCHANGED <<clients, sendCh>>

BroadcastSend_StopsAtDead(c) ==
  /\ c \in pending
  /\ pending' = IF done[c] THEN {} ELSE pending \ {c}
  /\ SendQueues(c) \/ SendFindsDone(c) \/ SendDrops(c)
  /\ UNCHANGED <<lock, published, inFlight, written, lifeVars>>

BroadcastSend(c) ==
  /\ c \in pending
  /\ pending' = pending \ {c}
  /\ SendQueues(c) \/ SendFindsDone(c) \/ SendDrops(c)
  /\ UNCHANGED <<lock, published, inFlight, written, lifeVars>>

BroadcastEnd ==
  /\ lock
  /\ pending = {}
  /\ lock' = FALSE
  /\ UNCHANGED <<clients, pending, published, chanVars, lifeVars>>

------------------------------------------------------------------------------
LockFreeStep(c) == Accept(c) \/ ReadFails(c) \/ CloseDone(c) \/ CloseConn(c)
LockedStep(c) == Register(c) \/ StartPumps(c) \/ Unregister(c) \/ Return(c)
HandlerStep(c) == LockFreeStep(c) \/ LockedStep(c)
PumpStep(c) == PumpTake(c) \/ PumpStop(c) \/ PumpWriteOk(c) \/ PumpWriteFails(c)
Broadcasting == BroadcastEnd \/ \E c \in Client : BroadcastSend(c)

ClientStep(c) == HandlerStep(c) \/ PumpStep(c) \/ ConnBreaks(c)

\* Every connection has come and gone and the bound on Broadcasts is reached:
\* the only way for the model to stop.
Finished ==
  /\ published = MaxBroadcasts
  /\ ~lock
  /\ \A c \in Client : handler[c] = "gone" /\ pump[c] = "exited"
  /\ UNCHANGED vars

Next ==
  \/ \E c \in Client : ClientStep(c)
  \/ BroadcastStart
  \/ Broadcasting
  \/ Finished

\* A Broadcast in progress goes on: nothing it does waits for a peer.
BroadcastFairness == WF_vars(Broadcasting)

\* Each goroutine of a client is scheduled.  sync.RWMutex lets a waiting
\* Lock or RLock in after the current holder, whence SF.  Read returns an error
\* once the connection is closed (before that it may block for ever), and
\* Write returns within its timeout.
ClientFairness(c) ==
  /\ SF_vars(LockedStep(c))
  /\ WF_vars(ReadFails(c) /\ conn[c] = "closed")
  /\ WF_vars(CloseDone(c) \/ CloseConn(c))
  /\ WF_vars(PumpStep(c))

SafeSpec == Init /\ [][Next]_vars

BroadcasterSpec == SafeSpec /\ BroadcastFairness

\* What only the properties that need it assume besides.
ConnectionFairness == \A c \in Client : ClientFairness(c)

------------------------------------------------------------------------------
TypeOK ==
  /\ clients \subseteq Client
  /\ lock \in BOOLEAN
  /\ pending \subseteq Client
  /\ published \in Nat
  /\ handler \in [Client -> HandlerState]
  /\ pump \in [Client -> PumpState]
  /\ done \in [Client -> BOOLEAN]
  /\ sendCh \in [Client -> Seq(Nat)]
  /\ \A c \in Client : Len(sendCh[c]) <= Cap
  /\ inFlight \in [Client -> Nat]
  /\ conn \in [Client -> ConnState]
  /\ written \in [Client -> Seq(Nat)]
  /\ since \in [Client -> Nat]
  /\ dropped \in [Client -> SUBSET Nat]

(* The hub and the handlers agree on who is connected, although both the   *)
(* handler (Unregister) and Broadcast (a Send that finds done closed)      *)
(* delete clients: a client being served is always registered, however far *)
(* behind its reader is, and one whose handler is past Unregister never    *)
(* comes back.                                                             *)
RegisteredIffServed ==
  \A c \in Client :
    /\ handler[c] \in Serving => c \in clients
    /\ handler[c] \in Detached => c \notin clients

Increasing(s) == \A i, j \in 1..Len(s) : i < j => s[i] < s[j]

\* w (written), f (in flight, 0 for none) and q (queued) are one increasing run
\* of numbers above lo and up to hi.
InOrder(w, f, q, lo, hi) ==
  /\ Increasing(w)
  /\ Increasing(q)
  /\ \A i \in 1..Len(w) :
       /\ lo < w[i] /\ w[i] <= hi
       /\ f # 0 => w[i] < f
       /\ \A j \in 1..Len(q) : w[i] < q[j]
  /\ f # 0 => lo < f /\ f <= hi
  /\ \A j \in 1..Len(q) :
       /\ lo < q[j] /\ q[j] <= hi
       /\ f # 0 => f < q[j]

\* The newest Broadcast whose loop has been past c.
SentTo(c) == IF c \in pending THEN published - 1 ELSE published

OrderedAt(c) ==
  InOrder(written[c], inFlight[c], sendCh[c], since[c], SentTo(c))

(* What a client was sent, what its pump is writing and what is queued for *)
(* it are one increasing run of Broadcasts, all of them later than its     *)
(* Register: no reordering, no duplicate, nothing from before it joined.   *)
StreamOrdered == \A c \in Client : OrderedAt(c)

Elem(n, s) == \E i \in 1..Len(s) : s[i] = n

Accounted(c, n) ==
  \/ Elem(n, written[c])
  \/ n = inFlight[c]
  \/ Elem(n, sendCh[c])
  \/ n \in dropped[c]

(* Every Broadcast since a registered client joined has been written to    *)
(* it, is on its way, or was discarded because the buffer was full: there  *)
(* is no other way to miss one, and one dead client costs no other a       *)
(* message.                                                                *)
NothingLostSilently ==
  \A c \in clients :
    \A n \in (since[c] + 1)..published :
      Accounted(c, n) \/ (n = published /\ c \in pending)

(* Broadcast returns, and gives h.mu back, whatever the clients, their     *)
(* pumps and their peers do or fail to do: a slow client never blocks the  *)
(* hub (docs/IMPLEMENTATION_PHASES.md, Phase 3).                           *)
BroadcastReturns == lock ~> ~lock

(* Once a connection is lost, and however the read pump, the write pump    *)
(* and a Broadcast race to notice, its handler returns, its pump exits and *)
(* the hub forgets the client, if the goroutines of the clients are        *)
(* scheduled.                                                              *)
DisconnectCleansUp ==
  ConnectionFairness =>
    \A c \in Client :
      conn[c] = "closed"
        ~> (handler[c] = "gone" /\ pump[c] = "exited" /\ c \notin clients)

(* A queued message is eventually written, unless the write pump ends, if  *)
(* the goroutines of the clients are scheduled.                            *)
QueuedIsWritten ==
  ConnectionFairness =>
    \A c \in Client : \A n \in 1..MaxBroadcasts :
      Elem(n, sendCh[c]) ~> (Elem(n, written[c]) \/ pump[c] = "exited")

(* What ws_client.go:35 says of Send, "Returns false if the client is      *)
(* closed or the buffer is full", seen from Broadcast, which removes a     *)
(* client whose Send returned false.                                       *)
Visits(c) == c \in pending /\ c \notin pending'

SendReturnsFalse ==
  [][\A c \in Client :
       Visits(c) /\ (done[c] \/ Len(sendCh[c]) = Cap) => c \notin clients']_vars

------------------------------------------------------------------------------
(* What the fan-out promises, without locks, buffers and pumps.            *)

status ==
  [c \in Client |->
     CASE handler[c] \in {"none", "accepted"} -> "out"
       [] handler[c] = "gone" -> "left"
       [] OTHER -> "in"]

Multicast == INSTANCE OrderedMulticast
               WITH joined <- since, received <- written

(* Each connection gets, from the moment it joins to the moment its        *)
(* handler returns, a subsequence of the Broadcasts in their order, and    *)
(* nothing afterwards.                                                     *)
RefinesMulticast == Multicast!Spec
==============================================================================
