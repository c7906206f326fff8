----------------------------- MODULE WSHub_proofs -----------------------------
(***************************************************************************)
(* Proofs of the safety invariants of WSHub, for every set of clients,     *)
(* every capacity of the send buffer and every number of Broadcasts.       *)
(***************************************************************************)
EXTENDS WSHub, TLAPS

(* Every variable keeps its type, whatever the interleaving.               *)
THEOREM TypeCorrect == SafeSpec => []TypeOK
<1>1. Init => TypeOK
  <2> SUFFICES ASSUME Init PROVE TypeOK
    OBVIOUS
  <2>1. /\ clients \subseteq Client
        /\ lock \in BOOLEAN
        /\ pending \subseteq Client
        /\ published \in Nat
    BY DEF Init
  <2>2. /\ handler \in [Client -> HandlerState]
        /\ pump \in [Client -> PumpState]
        /\ conn \in [Client -> ConnState]
    BY DEF Init, HandlerState, PumpState, ConnState
  <2>3. /\ sendCh \in [Client -> Seq(Nat)]
        /\ written \in [Client -> Seq(Nat)]
        /\ \A c \in Client : Len(sendCh[c]) <= Cap
    BY CapAssumption DEF Init
  <2>4. /\ inFlight \in [Client -> Nat]
        /\ since \in [Client -> Nat]
        /\ dropped \in [Client -> SUBSET Nat]
    BY DEF Init
  <2>5. done \in [Client -> BOOLEAN]
    BY DEF Init
  <2> QED BY <2>1, <2>2, <2>3, <2>4, <2>5 DEF TypeOK
<1>2. TypeOK /\ [Next]_vars => TypeOK'
  <2> SUFFICES ASSUME TypeOK, [Next]_vars PROVE TypeOK'
    OBVIOUS
  <2> USE DEF TypeOK, HandlerState, PumpState, ConnState, hubVars, chanVars,
              lifeVars, HandlerMoves
  <2>1. ASSUME NEW c \in Client, HandlerStep(c) PROVE TypeOK'
    <3>1. CASE Accept(c) BY <3>1 DEF Accept
    <3>2. CASE Register(c) BY <3>2 DEF Register
    <3>3. CASE StartPumps(c) BY <3>3 DEF StartPumps
    <3>4. CASE ReadFails(c) BY <3>4 DEF ReadFails
    <3>5. CASE CloseDone(c) BY <3>5 DEF CloseDone
    <3>6. CASE CloseConn(c) BY <3>6 DEF CloseConn
    <3>7. CASE Unregister(c) BY <3>7 DEF Unregister
    <3>8. CASE Return(c) BY <3>8 DEF Return
    <3> QED BY <2>1, <3>1, <3>2, <3>3, <3>4, <3>5, <3>6, <3>7, <3>8
            DEF HandlerStep, LockFreeStep, LockedStep
  <2>2. ASSUME NEW c \in Client, PumpStep(c) PROVE TypeOK'
    <3>1. CASE PumpTake(c)
      <4>1. /\ Head(sendCh[c]) \in Nat
            /\ Tail(sendCh[c]) \in Seq(Nat)
            /\ Len(Tail(sendCh[c])) <= Cap
        BY <3>1, CapAssumption DEF PumpTake
      <4> QED BY <3>1, <4>1 DEF PumpTake
    <3>2. CASE PumpStop(c) BY <3>2 DEF PumpStop
    <3>3. CASE PumpWriteOk(c) BY <3>3 DEF PumpWriteOk
    <3>4. CASE PumpWriteFails(c) BY <3>4 DEF PumpWriteFails
    <3> QED BY <2>2, <3>1, <3>2, <3>3, <3>4 DEF PumpStep
  <2>3. ASSUME NEW c \in Client, ConnBreaks(c) PROVE TypeOK'
    BY <2>3 DEF ConnBreaks
  <2>4. CASE BroadcastStart BY <2>4 DEF BroadcastStart
  <2>5. ASSUME NEW c \in Client, BroadcastSend(c) PROVE TypeOK'
    <3>1. CASE SendQueues(c)
      <4>1. /\ Append(sendCh[c], published) \in Seq(Nat)
            /\ Len(Append(sendCh[c], published)) <= Cap
        BY <3>1, CapAssumption DEF SendQueues
      <4> QED BY <2>5, <3>1, <4>1 DEF BroadcastSend, SendQueues
    <3>2. CASE SendFindsDone(c) BY <2>5, <3>2 DEF BroadcastSend, SendFindsDone
    <3>3. CASE SendDrops(c) BY <2>5, <3>3 DEF BroadcastSend, SendDrops
    <3> QED BY <2>5, <3>1, <3>2, <3>3 DEF BroadcastSend
  <2>6. CASE BroadcastEnd BY <2>6 DEF BroadcastEnd
  <2>7. CASE Finished BY <2>7 DEF Finished, vars
  <2>8. CASE UNCHANGED vars BY <2>8 DEF vars
  <2> QED BY <2>1, <2>2, <2>3, <2>4, <2>5, <2>6, <2>7, <2>8
          DEF Next, ClientStep, Broadcasting
<1> QED BY <1>1, <1>2, PTL DEF SafeSpec

------------------------------------------------------------------------------
(* The inductive strengthening.  AtRest relates the program counters of    *)
(* one client to its channel and to the hub's loop.                        *)

Cleaning == {"doneClosed", "closed", "unregistered", "gone"}

AtRest(c) ==
  /\ done[c] => handler[c] \in Cleaning
  /\ handler[c] \in {"closed", "unregistered", "gone"} => conn[c] = "closed"
  /\ handler[c] \in {"none", "accepted"} =>
       /\ c \notin pending
       /\ sendCh[c] = << >>
       /\ inFlight[c] = 0
       /\ written[c] = << >>
  /\ handler[c] \in {"none", "accepted", "registered"} => pump[c] = "none"
  /\ pump[c] \in {"none", "select"} => inFlight[c] = 0
  /\ pump[c] = "writing" => inFlight[c] # 0
  /\ since[c] <= published
  /\ c \in pending => lock /\ since[c] < published

RegisteredAt(c) ==
  /\ handler[c] \in Serving => c \in clients
  /\ handler[c] \in Detached => c \notin clients

AccountedAt(c) ==
  c \in clients =>
    \A n \in (since[c] + 1)..published :
      Accounted(c, n) \/ (n = published /\ c \in pending)

ClientInv(c) == AtRest(c) /\ RegisteredAt(c) /\ OrderedAt(c) /\ AccountedAt(c)

IInv == TypeOK /\ \A c \in Client : ClientInv(c)

SameQueue(d) ==
  /\ written'[d] = written[d]
  /\ sendCh'[d] = sendCh[d]
  /\ inFlight'[d] = inFlight[d]
  /\ since'[d] = since[d]

SameStream(d) == SameQueue(d) /\ dropped'[d] = dropped[d]

SameControl(d) ==
  /\ handler'[d] = handler[d]
  /\ pump'[d] = pump[d]
  /\ done'[d] = done[d]
  /\ conn'[d] = conn[d]

SameHub(d) ==
  /\ published' = published
  /\ lock' = lock
  /\ (d \in pending') <=> (d \in pending)

(* The four ways a client's stream changes: a Send, the pump taking a      *)
(* message, the pump having written it, and later Broadcasts.              *)
LEMMA InOrderQueue ==
  ASSUME NEW w \in Seq(Nat), NEW f \in Nat, NEW q \in Seq(Nat), NEW lo \in Nat,
         NEW hi \in Int, NEW n \in Nat, InOrder(w, f, q, lo, hi), lo < n, hi < n
  PROVE  InOrder(w, f, Append(q, n), lo, n)
<1> DEFINE r == Append(q, n)
<1>1. /\ Len(q) \in Nat /\ Len(r) = Len(q) + 1
      /\ r[Len(q) + 1] = n
      /\ \A j \in 1..Len(q) : r[j] = q[j] /\ q[j] \in Nat
      /\ \A i \in 1..Len(w) : w[i] \in Nat
  OBVIOUS
<1> HIDE DEF r
<1>2. \A j \in 1..Len(r) :
        \/ j \in 1..Len(q) /\ r[j] = q[j]
        \/ j = Len(q) + 1 /\ r[j] = n
  <2> SUFFICES ASSUME NEW j \in 1..Len(r), j \notin 1..Len(q)
               PROVE  j = Len(q) + 1
    BY <1>1
  <2> QED BY <1>1
<1>3. Increasing(r)
  <2> SUFFICES ASSUME NEW i \in 1..Len(r), NEW j \in 1..Len(r), i < j
               PROVE  r[i] < r[j]
    BY DEF Increasing
  <2>1. i \in 1..Len(q) /\ r[i] = q[i]
    BY <1>1, <1>2
  <2>2. q[i] <= hi
    BY <2>1 DEF InOrder
  <2>3. CASE j = Len(q) + 1
    BY <1>1, <2>1, <2>2, <2>3
  <2>4. CASE j \in 1..Len(q)
    BY <1>1, <2>1, <2>4 DEF InOrder, Increasing
  <2> QED BY <1>2, <2>3, <2>4
<1>4. \A j \in 1..Len(r) : lo < r[j] /\ r[j] <= n /\ (f # 0 => f < r[j])
  <2> SUFFICES ASSUME NEW j \in 1..Len(r)
               PROVE  lo < r[j] /\ r[j] <= n /\ (f # 0 => f < r[j])
    OBVIOUS
  <2>1. f # 0 => f <= hi
    BY DEF InOrder
  <2>2. CASE j \in 1..Len(q) /\ r[j] = q[j]
    BY <1>1, <2>2 DEF InOrder
  <2> QED BY <1>2, <2>1, <2>2
<1>5. \A i \in 1..Len(w) : \A j \in 1..Len(r) : w[i] < r[j]
  <2> SUFFICES ASSUME NEW i \in 1..Len(w), NEW j \in 1..Len(r)
               PROVE  w[i] < r[j]
    OBVIOUS
  <2>1. w[i] <= hi /\ \A k \in 1..Len(q) : w[i] < q[k]
    BY DEF InOrder
  <2> QED BY <1>1, <1>2, <2>1
<1>6. \A i \in 1..Len(w) : lo < w[i] /\ w[i] <= n /\ (f # 0 => w[i] < f)
  BY <1>1 DEF InOrder
<1>7. InOrder(w, f, r, lo, n)
  BY <1>3, <1>4, <1>5, <1>6 DEF InOrder
<1> QED BY <1>7 DEF r

LEMMA InOrderTake ==
  ASSUME NEW w \in Seq(Nat), NEW q \in Seq(Nat), NEW lo \in Nat, NEW hi \in Int,
         InOrder(w, 0, q, lo, hi), q # << >>
  PROVE  InOrder(w, Head(q), Tail(q), lo, hi) /\ Head(q) > lo
<1> DEFINE r == Tail(q)
<1>1. /\ Len(q) \in Nat \ {0} /\ Len(r) = Len(q) - 1
      /\ \A j \in 1..Len(r) : r[j] = q[j + 1]
      /\ \A j \in 1..Len(q) : q[j] \in Nat
      /\ Head(q) = q[1]
  OBVIOUS
<1> HIDE DEF r
<1>2. 1 \in 1..Len(q) /\ \A j \in 1..Len(r) : j + 1 \in 1..Len(q)
  BY <1>1
<1>3. \A i, j \in 1..Len(q) : i < j => q[i] < q[j]
  BY DEF InOrder, Increasing
<1>4. Increasing(r)
  <2> SUFFICES ASSUME NEW i \in 1..Len(r), NEW j \in 1..Len(r), i < j
               PROVE  r[i] < r[j]
    BY DEF Increasing
  <2>1. q[i + 1] < q[j + 1]
    BY <1>2, <1>3
  <2> QED BY <1>1, <2>1
<1>5. \A j \in 1..Len(r) : lo < r[j] /\ r[j] <= hi /\ q[1] < r[j]
  <2> SUFFICES ASSUME NEW j \in 1..Len(r)
               PROVE  lo < r[j] /\ r[j] <= hi /\ q[1] < r[j]
    OBVIOUS
  <2>1. q[1] < q[j + 1] /\ lo < q[j + 1] /\ q[j + 1] <= hi
    BY <1>2, <1>3 DEF InOrder
  <2> QED BY <1>1, <2>1
<1>6. \A i \in 1..Len(w) :
        /\ lo < w[i] /\ w[i] <= hi /\ w[i] < q[1]
        /\ \A j \in 1..Len(r) : w[i] < r[j]
  BY <1>1, <1>2 DEF InOrder
<1>7. lo < q[1] /\ q[1] <= hi
  BY <1>2 DEF InOrder
<1>8. InOrder(w, q[1], r, lo, hi)
  BY <1>4, <1>5, <1>6, <1>7 DEF InOrder
<1> QED BY <1>1, <1>7, <1>8 DEF r

LEMMA InOrderWrite ==
  ASSUME NEW w \in Seq(Nat), NEW f \in Nat \ {0}, NEW q \in Seq(Nat),
         NEW lo \in Nat, NEW hi \in Int, InOrder(w, f, q, lo, hi)
  PROVE  InOrder(Append(w, f), 0, q, lo, hi)
<1> DEFINE r == Append(w, f)
<1>1. /\ Len(w) \in Nat /\ Len(r) = Len(w) + 1
      /\ r[Len(w) + 1] = f
      /\ \A j \in 1..Len(w) : r[j] = w[j] /\ w[j] \in Nat
  OBVIOUS
<1> HIDE DEF r
<1>2. \A j \in 1..Len(r) :
        \/ j \in 1..Len(w) /\ r[j] = w[j]
        \/ j = Len(w) + 1 /\ r[j] = f
  <2> SUFFICES ASSUME NEW j \in 1..Len(r), j \notin 1..Len(w)
               PROVE  j = Len(w) + 1
    BY <1>1
  <2> QED BY <1>1
<1>3. Increasing(r)
  <2> SUFFICES ASSUME NEW i \in 1..Len(r), NEW j \in 1..Len(r), i < j
               PROVE  r[i] < r[j]
    BY DEF Increasing
  <2>1. i \in 1..Len(w) /\ r[i] = w[i]
    BY <1>1, <1>2
  <2>2. w[i] < f
    BY <2>1 DEF InOrder
  <2>3. CASE j = Len(w) + 1
    BY <1>1, <2>1, <2>2, <2>3
  <2>4. CASE j \in 1..Len(w)
    BY <1>1, <2>1, <2>4 DEF InOrder, Increasing
  <2> QED BY <1>2, <2>3, <2>4
<1>4. \A i \in 1..Len(r) :
        /\ lo < r[i] /\ r[i] <= hi
        /\ \A j \in 1..Len(q) : r[i] < q[j]
  BY <1>1, <1>2 DEF InOrder
<1>5. InOrder(r, 0, q, lo, hi)
  BY <1>3, <1>4 DEF InOrder
<1> QED BY <1>5 DEF r

LEMMA InOrderGrow ==
  ASSUME NEW w \in Seq(Nat), NEW f \in Nat, NEW q \in Seq(Nat), NEW lo \in Nat,
         NEW hi \in Int, NEW top \in Int, InOrder(w, f, q, lo, hi), hi <= top
  PROVE  InOrder(w, f, q, lo, top)
<1>1. /\ \A i \in 1..Len(w) : w[i] \in Nat
      /\ \A j \in 1..Len(q) : q[j] \in Nat
  OBVIOUS
<1> QED BY <1>1 DEF InOrder

(* The order of d's messages survives a step that leaves them alone, be it *)
(* the hub that moves on to the next client or to the next Broadcast.      *)
LEMMA OrderKept ==
  ASSUME TypeOK, NEW d \in Client, OrderedAt(d), SameQueue(d),
         \/ published' = published /\ (d \in pending' => d \in pending)
         \/ published' = published + 1
  PROVE  OrderedAt(d)'
<1>1. /\ written[d] \in Seq(Nat) /\ sendCh[d] \in Seq(Nat)
      /\ inFlight[d] \in Nat /\ since[d] \in Nat /\ published \in Nat
  BY DEF TypeOK
<1>2. SentTo(d) \in Int /\ SentTo(d)' \in Int /\ SentTo(d) <= SentTo(d)'
  BY <1>1 DEF SentTo
<1>3. InOrder(written[d], inFlight[d], sendCh[d], since[d], SentTo(d)')
  BY <1>1, <1>2, InOrderGrow DEF OrderedAt
<1> QED BY <1>3 DEF OrderedAt, SameQueue

(* The account of c's messages survives a step that leaves them alone.     *)
LEMMA AccountKept ==
  ASSUME NEW d \in Client, AccountedAt(d), SameStream(d), SameHub(d),
         d \in clients' => d \in clients
  PROVE  AccountedAt(d)'
BY DEF AccountedAt, Accounted, Elem, SameStream, SameQueue, SameHub

(* Nothing about d changes when another client's step leaves it alone.     *)
LEMMA Elsewhere ==
  ASSUME TypeOK, NEW d \in Client, ClientInv(d),
         SameStream(d), SameControl(d), SameHub(d),
         (d \in clients') <=> (d \in clients)
  PROVE  ClientInv(d)'
<1>1. OrderedAt(d)'
  BY OrderKept DEF ClientInv, SameStream, SameQueue, SameHub
<1>2. AccountedAt(d)'
  BY AccountKept DEF ClientInv
<1>3. AtRest(d)' /\ RegisteredAt(d)'
  BY DEF ClientInv, AtRest, RegisteredAt, SameStream, SameQueue, SameControl, SameHub
<1> QED BY <1>1, <1>2, <1>3 DEF ClientInv

(* A step of c's handler, c's pump or c's connection concerns c alone.     *)
LEMMA OnlyOwn ==
  ASSUME TypeOK, NEW c \in Client, ClientStep(c), NEW d \in Client, d # c
  PROVE  /\ SameStream(d) /\ SameControl(d) /\ SameHub(d)
         /\ (d \in clients') <=> (d \in clients)
<1> USE DEF TypeOK, SameStream, SameQueue, SameControl, SameHub, HandlerMoves,
            hubVars, chanVars, lifeVars
<1>1. CASE HandlerStep(c)
  BY <1>1 DEF HandlerStep, LockFreeStep, LockedStep, Accept, Register,
              StartPumps, ReadFails, CloseDone, CloseConn, Unregister, Return
<1>2. CASE PumpStep(c)
  BY <1>2 DEF PumpStep, PumpTake, PumpStop, PumpWriteOk, PumpWriteFails
<1>3. CASE ConnBreaks(c)
  BY <1>3 DEF ConnBreaks
<1> QED BY <1>1, <1>2, <1>3 DEF ClientStep

(* The handler's own steps keep its client's invariant.                    *)
LEMMA HandlerStepKeeps ==
  ASSUME IInv, NEW c \in Client, HandlerStep(c)
  PROVE  ClientInv(c)'
<1> USE DEF IInv
<1>1. CASE Register(c)
  <2>1. /\ written'[c] = << >> /\ sendCh'[c] = << >> /\ inFlight'[c] = 0
        /\ since'[c] = published /\ published' = published
        /\ c \notin pending' /\ c \in clients' /\ pump'[c] = "none"
        /\ handler'[c] = "registered" /\ ~done'[c]
    BY <1>1 DEF Register, HandlerMoves, TypeOK, ClientInv, AtRest, Cleaning,
                hubVars, chanVars
  <2>2. OrderedAt(c)'
    BY <2>1 DEF OrderedAt, InOrder, Increasing
  <2>3. AccountedAt(c)'
    BY <2>1 DEF AccountedAt, TypeOK
  <2>4. AtRest(c)' /\ RegisteredAt(c)'
    BY <2>1 DEF AtRest, RegisteredAt, Serving, Detached, Cleaning, TypeOK
  <2> QED BY <2>2, <2>3, <2>4 DEF ClientInv
<1>2. CASE ~Register(c)
  <2>1. /\ SameStream(c) /\ SameHub(c)
        /\ c \in clients' => c \in clients
    BY <1>2 DEF HandlerStep, LockFreeStep, LockedStep, Accept, StartPumps,
                ReadFails, CloseDone, CloseConn, Unregister, Return, SameStream, SameQueue,
                SameHub, hubVars, chanVars
  <2>2. OrderedAt(c)'
    BY <2>1, OrderKept DEF ClientInv, SameStream, SameQueue, SameHub
  <2>3. AccountedAt(c)'
    BY <2>1, AccountKept DEF ClientInv
  <2>4. AtRest(c)'
    <3> USE DEF ClientInv, AtRest, Cleaning, SameStream, SameQueue, SameHub, HandlerMoves,
                TypeOK, hubVars, chanVars, lifeVars
    <3>1. CASE Accept(c) BY <2>1, <3>1 DEF Accept
    <3>2. CASE StartPumps(c) BY <2>1, <3>2 DEF StartPumps
    <3>3. CASE ReadFails(c)
      <4>1. handler[c] = "reading" /\ handler'[c] = "failed"
        BY <3>3 DEF ReadFails
      <4>2. ~done'[c] /\ pump'[c] = pump[c]
        BY <3>3, <4>1 DEF ReadFails
      <4> QED BY <2>1, <4>1, <4>2
    <3>4. CASE CloseDone(c) BY <2>1, <3>4 DEF CloseDone
    <3>5. CASE CloseConn(c) BY <2>1, <3>5 DEF CloseConn
    <3>6. CASE Unregister(c) BY <2>1, <3>6 DEF Unregister
    <3>7. CASE Return(c) BY <2>1, <3>7 DEF Return
    <3> QED BY <1>2, <3>1, <3>2, <3>3, <3>4, <3>5, <3>6, <3>7
            DEF HandlerStep, LockFreeStep, LockedStep
  <2>5. RegisteredAt(c)'
    BY <1>2 DEF ClientInv, RegisteredAt, Serving, Detached, HandlerStep,
                LockFreeStep, LockedStep, Accept, StartPumps, ReadFails,
                CloseDone, CloseConn, Unregister, Return, HandlerMoves, TypeOK,
                hubVars
  <2> QED BY <2>2, <2>3, <2>4, <2>5 DEF ClientInv
<1> QED BY <1>1, <1>2

(* The steps of the write pump, and the loss of the connection.            *)
LEMMA PumpStepKeeps ==
  ASSUME IInv, NEW c \in Client, PumpStep(c) \/ ConnBreaks(c)
  PROVE  ClientInv(c)'
<1> USE DEF IInv
<1>1. CASE PumpTake(c)
  <2>1. /\ inFlight[c] = 0 /\ sendCh[c] \in Seq(Nat) /\ sendCh[c] # << >>
        /\ inFlight'[c] = sendCh[c][1] /\ sendCh'[c] = Tail(sendCh[c])
        /\ written' = written /\ dropped' = dropped /\ since' = since
        /\ published' = published /\ pending' = pending /\ lock' = lock
        /\ clients' = clients /\ handler' = handler /\ done' = done
        /\ conn' = conn
        /\ pump'[c] = "writing" /\ since[c] \in Nat /\ published \in Nat
        /\ handler[c] \notin {"none", "accepted", "registered"}
        /\ written[c] \in Seq(Nat)
    BY <1>1 DEF PumpTake, ClientInv, AtRest, TypeOK, hubVars
  <2>2. /\ Len(sendCh[c]) \in Nat \ {0}
        /\ Len(sendCh'[c]) = Len(sendCh[c]) - 1
        /\ \A i \in 1..Len(sendCh'[c]) : sendCh'[c][i] = sendCh[c][i + 1]
        /\ \A i \in 1..Len(sendCh[c]) : sendCh[c][i] \in Nat
    BY <2>1
  <2>3. /\ InOrder(written[c], 0, sendCh[c], since[c], SentTo(c))
        /\ SentTo(c) \in Int /\ SentTo(c)' = SentTo(c)
    BY <2>1 DEF ClientInv, OrderedAt, SentTo
  <2>4. OrderedAt(c)' /\ inFlight'[c] # 0
    <3>1. /\ InOrder(written[c], Head(sendCh[c]), Tail(sendCh[c]), since[c], SentTo(c))
          /\ Head(sendCh[c]) > since[c]
      BY <2>1, <2>3, InOrderTake
    <3>2. Head(sendCh[c]) = sendCh[c][1]
      BY <2>1
    <3> QED BY <2>1, <2>3, <3>1, <3>2 DEF OrderedAt
  <2>5. AccountedAt(c)'
    <3> SUFFICES ASSUME c \in clients, NEW n \in (since[c] + 1)..published,
                        ~(n = published /\ c \in pending)
                 PROVE  Accounted(c, n)'
      BY <2>1 DEF AccountedAt
    <3>1. Accounted(c, n) /\ n # 0
      BY <2>1 DEF ClientInv, AccountedAt
    <3>2. CASE Elem(n, sendCh[c])
      <4>1. PICK i \in 1..Len(sendCh[c]) : sendCh[c][i] = n
        BY <3>2 DEF Elem
      <4>2. CASE i = 1 BY <2>1, <4>1, <4>2 DEF Accounted
      <4>3. CASE i # 1
        <5>1. i - 1 \in 1..Len(sendCh'[c]) /\ (i - 1) + 1 = i
          BY <2>2, <4>1, <4>3
        <5>2. sendCh'[c][i - 1] = n
          BY <2>2, <4>1, <5>1
        <5> QED BY <5>1, <5>2 DEF Accounted, Elem
      <4> QED BY <4>2, <4>3
    <3> QED BY <2>1, <3>1, <3>2 DEF Accounted
  <2>6. AtRest(c)' /\ RegisteredAt(c)'
    BY <2>1, <2>4 DEF ClientInv, AtRest, RegisteredAt
  <2> QED BY <2>4, <2>5, <2>6 DEF ClientInv
<1>2. CASE PumpWriteOk(c)
  <2>1. /\ inFlight[c] # 0 /\ inFlight[c] \in Nat /\ inFlight'[c] = 0
        /\ sendCh' = sendCh /\ written[c] \in Seq(Nat)
        /\ written'[c] = Append(written[c], inFlight[c])
        /\ dropped' = dropped /\ since' = since
        /\ published' = published /\ pending' = pending /\ lock' = lock
        /\ clients' = clients /\ handler' = handler /\ done' = done
        /\ conn' = conn
        /\ pump[c] = "writing" /\ pump'[c] = "select" /\ since[c] \in Nat
        /\ published \in Nat /\ sendCh[c] \in Seq(Nat)
    BY <1>2 DEF PumpWriteOk, ClientInv, AtRest, TypeOK, hubVars
  <2>2. /\ Len(written[c]) \in Nat
        /\ Len(written'[c]) = Len(written[c]) + 1
        /\ \A i \in 1..Len(written[c]) : written'[c][i] = written[c][i]
        /\ written'[c][Len(written[c]) + 1] = inFlight[c]
        /\ \A i \in 1..Len(written[c]) : written[c][i] \in Nat
    BY <2>1
  <2>3. OrderedAt(c)'
    <3>1. SentTo(c) \in Int /\ SentTo(c)' = SentTo(c)
      BY <2>1 DEF SentTo
    <3>2. InOrder(Append(written[c], inFlight[c]), 0, sendCh[c], since[c], SentTo(c))
      BY <2>1, <3>1, InOrderWrite DEF ClientInv, OrderedAt
    <3> QED BY <2>1, <3>1, <3>2 DEF OrderedAt
  <2>4. AccountedAt(c)'
    <3> SUFFICES ASSUME c \in clients, NEW n \in (since[c] + 1)..published,
                        ~(n = published /\ c \in pending)
                 PROVE  Accounted(c, n)'
      BY <2>1 DEF AccountedAt
    <3>1. Accounted(c, n)
      BY <2>1 DEF ClientInv, AccountedAt
    <3>2. CASE Elem(n, written[c])
      <4>1. PICK i \in 1..Len(written[c]) : written[c][i] = n
        BY <3>2 DEF Elem
      <4>2. i \in 1..Len(written'[c]) /\ written'[c][i] = n
        BY <2>2, <4>1
      <4> QED BY <4>2 DEF Accounted, Elem
    <3>3. CASE n = inFlight[c]
      <4>1. Len(written[c]) + 1 \in 1..Len(written'[c])
        BY <2>2
      <4> QED BY <2>2, <3>3, <4>1 DEF Accounted, Elem
    <3> QED BY <2>1, <3>1, <3>2, <3>3 DEF Accounted
  <2>5. AtRest(c)' /\ RegisteredAt(c)'
    BY <2>1 DEF ClientInv, AtRest, RegisteredAt
  <2> QED BY <2>3, <2>4, <2>5 DEF ClientInv
<1>3. CASE PumpStop(c) \/ PumpWriteFails(c) \/ ConnBreaks(c)
  <2>1. /\ SameStream(c) /\ SameHub(c) /\ clients' = clients
        /\ handler' = handler /\ done' = done
        /\ conn'[c] = conn[c] \/ conn'[c] = "closed"
        /\ \/ pump[c] \in {"select", "writing"} /\ pump'[c] = "exited"
           \/ pump' = pump
    BY <1>3 DEF PumpStop, PumpWriteFails, ConnBreaks, SameStream, SameQueue, SameHub,
                TypeOK, hubVars, chanVars
  <2>2. OrderedAt(c)'
    BY <2>1, OrderKept DEF ClientInv, SameStream, SameQueue, SameHub
  <2>3. AccountedAt(c)'
    BY <2>1, AccountKept DEF ClientInv
  <2>4. AtRest(c)' /\ RegisteredAt(c)'
    BY <2>1 DEF ClientInv, AtRest, RegisteredAt, SameStream, SameQueue, SameHub, TypeOK
  <2> QED BY <2>2, <2>3, <2>4 DEF ClientInv
<1> QED BY <1>1, <1>2, <1>3 DEF PumpStep

(* A new Broadcast finds every loop over, so it sends to all who joined.   *)
LEMMA BroadcastStartKeeps ==
  ASSUME IInv, BroadcastStart, NEW d \in Client
  PROVE  ClientInv(d)'
<1> USE DEF IInv
<1>1. /\ SameStream(d) /\ SameControl(d) /\ ~lock /\ lock'
      /\ published \in Nat /\ published' = published + 1
      /\ pending' = clients /\ clients' = clients
      /\ d \notin pending /\ since[d] \in Nat
  BY DEF BroadcastStart, SameStream, SameQueue, SameControl, chanVars, lifeVars, TypeOK,
         ClientInv, AtRest
<1>2. OrderedAt(d)'
  BY <1>1, OrderKept DEF ClientInv, SameStream, SameQueue
<1>3. AccountedAt(d)'
  <2>1. \A n : Accounted(d, n) => Accounted(d, n)'
    BY <1>1 DEF Accounted, Elem, SameStream, SameQueue
  <2>2. d \in clients => \A n \in (since[d] + 1)..published : Accounted(d, n)
    BY <1>1 DEF ClientInv, AccountedAt
  <2>3. since'[d] = since[d]
    BY <1>1 DEF SameStream, SameQueue
  <2> QED BY <1>1, <2>1, <2>2, <2>3 DEF AccountedAt
<1>4. AtRest(d)' /\ RegisteredAt(d)'
  <2>1. handler[d] \in {"none", "accepted"} => d \notin clients
    BY DEF ClientInv, RegisteredAt, Detached
  <2> QED BY <1>1, <2>1 DEF ClientInv, AtRest, RegisteredAt, SameStream, SameQueue, SameControl
<1> QED BY <1>2, <1>3, <1>4 DEF ClientInv

(* A Send touches one client, and appends the newest message or none.      *)
LEMMA BroadcastSendKeeps ==
  ASSUME IInv, NEW c \in Client, BroadcastSend(c), NEW d \in Client
  PROVE  ClientInv(d)'
<1> USE DEF IInv
<1>1. /\ c \in pending /\ pending' = pending \ {c} /\ lock' = lock
      /\ published' = published /\ SameControl(d) /\ written' = written
      /\ inFlight' = inFlight /\ since' = since /\ published \in Nat
      /\ written[d] \in Seq(Nat) /\ sendCh[d] \in Seq(Nat)
      /\ since[d] \in Nat /\ inFlight[d] \in Nat
  BY DEF BroadcastSend, SameControl, lifeVars, TypeOK
<1>2. CASE d # c
  <2>1. SameStream(d) /\ SameHub(d) /\ ((d \in clients') <=> (d \in clients))
    BY <1>1, <1>2 DEF BroadcastSend, SendQueues, SendFindsDone, SendDrops,
                      SameStream, SameQueue, SameHub, TypeOK
  <2> QED BY <1>1, <2>1, Elsewhere
<1>3. CASE d = c /\ SendQueues(c)
  <2>1. /\ sendCh'[c] = Append(sendCh[c], published)
        /\ dropped' = dropped /\ clients' = clients
    BY <1>3 DEF SendQueues, TypeOK
  <2>2. /\ Len(sendCh[c]) \in Nat
        /\ Len(sendCh'[c]) = Len(sendCh[c]) + 1
        /\ \A i \in 1..Len(sendCh[c]) :
             sendCh'[c][i] = sendCh[c][i] /\ sendCh[c][i] \in Nat
        /\ sendCh'[c][Len(sendCh[c]) + 1] = published
    BY <1>1, <1>3, <2>1
  <2>3. since[c] < published /\ c \notin pending'
    BY <1>1 DEF ClientInv, AtRest
  <2>4. OrderedAt(c)'
    <3>1. SentTo(c) = published - 1 /\ SentTo(c)' = published
      BY <1>1, <2>3 DEF SentTo
    <3>2. InOrder(written[c], inFlight[c], Append(sendCh[c], published),
                  since[c], published)
      BY <1>1, <1>3, <2>3, <3>1, InOrderQueue DEF ClientInv, OrderedAt
    <3> QED BY <1>1, <2>1, <3>1, <3>2 DEF OrderedAt
  <2>5. AccountedAt(c)'
    <3> SUFFICES ASSUME c \in clients, NEW n \in (since[c] + 1)..published
                 PROVE  Accounted(c, n)'
      BY <1>1, <2>1 DEF AccountedAt
    <3>1. CASE n = published
      <4>1. Len(sendCh[c]) + 1 \in 1..Len(sendCh'[c])
        BY <2>2
      <4> QED BY <2>2, <3>1, <4>1 DEF Accounted, Elem
    <3>2. CASE Elem(n, sendCh[c])
      <4>1. PICK i \in 1..Len(sendCh[c]) : sendCh[c][i] = n
        BY <3>2 DEF Elem
      <4>2. i \in 1..Len(sendCh'[c]) /\ sendCh'[c][i] = n
        BY <2>2, <4>1
      <4> QED BY <4>2 DEF Accounted, Elem
    <3>3. n # published => Accounted(c, n)
      BY DEF ClientInv, AccountedAt
    <3> QED BY <1>1, <2>1, <3>1, <3>2, <3>3 DEF Accounted
  <2>6. AtRest(c)' /\ RegisteredAt(c)'
    BY <1>1, <1>3, <2>1, <2>3 DEF ClientInv, AtRest, RegisteredAt, SameControl
  <2> QED BY <1>3, <2>4, <2>5, <2>6 DEF ClientInv
<1>4. CASE d = c /\ (SendFindsDone(c) \/ SendDrops(c))
  <2>1. /\ sendCh' = sendCh
        /\ c \in clients' => clients' = clients /\ published \in dropped'[c]
        /\ dropped[c] \subseteq dropped'[c]
        /\ ~done[c] => clients' = clients
        /\ c \notin clients => c \notin clients'
    BY <1>4 DEF SendFindsDone, SendDrops, TypeOK
  <2>2. OrderedAt(c)'
    <3>1. SameQueue(c) /\ (c \in pending' => c \in pending)
      BY <1>1, <2>1 DEF SameQueue
    <3> QED BY <1>1, <3>1, OrderKept DEF ClientInv
  <2>3. AccountedAt(c)'
    BY <1>1, <1>4, <2>1 DEF ClientInv, AccountedAt, Accounted, Elem
  <2>4. AtRest(c)'
    BY <1>1, <1>4, <2>1 DEF ClientInv, AtRest, SameControl
  <2>5. RegisteredAt(c)'
    BY <1>1, <1>4, <2>1
       DEF ClientInv, AtRest, RegisteredAt, SameControl, Serving, Cleaning
  <2> QED BY <1>4, <2>2, <2>3, <2>4, <2>5 DEF ClientInv
<1> QED BY <1>2, <1>3, <1>4 DEF BroadcastSend

LEMMA BroadcastEndKeeps ==
  ASSUME IInv, BroadcastEnd, NEW d \in Client
  PROVE  ClientInv(d)'
<1> USE DEF IInv
<1>1. /\ SameStream(d) /\ SameControl(d) /\ pending = {} /\ pending' = {}
      /\ published' = published /\ clients' = clients
  BY DEF BroadcastEnd, SameStream, SameQueue, SameControl, chanVars, lifeVars
<1>2. OrderedAt(d)'
  BY <1>1, OrderKept DEF ClientInv, SameStream, SameQueue
<1>3. AccountedAt(d)'
  BY <1>1 DEF ClientInv, AccountedAt, Accounted, Elem, SameStream, SameQueue
<1>4. AtRest(d)' /\ RegisteredAt(d)'
  BY <1>1 DEF ClientInv, AtRest, RegisteredAt, SameStream, SameQueue, SameControl
<1> QED BY <1>2, <1>3, <1>4 DEF ClientInv

(* The strengthened invariant holds in every state.                        *)
THEOREM Inductive == SafeSpec => []IInv
<1>1. Init => \A c \in Client : ClientInv(c)
  BY DEF Init, ClientInv, AtRest, RegisteredAt, OrderedAt, AccountedAt,
         InOrder, Increasing, Serving, Detached
<1>2. IInv /\ TypeOK' /\ [Next]_vars => IInv'
  <2> SUFFICES ASSUME IInv, [Next]_vars, NEW d \in Client PROVE ClientInv(d)'
    BY DEF IInv
  <2>0. TypeOK /\ ClientInv(d)
    BY DEF IInv
  <2>1. ASSUME NEW c \in Client, ClientStep(c) PROVE ClientInv(d)'
    <3>1. CASE d = c
      BY <2>1, <3>1, HandlerStepKeeps, PumpStepKeeps DEF ClientStep
    <3>2. CASE d # c
      BY <2>0, <2>1, <3>2, OnlyOwn, Elsewhere
    <3> QED BY <3>1, <3>2
  <2>2. CASE BroadcastStart
    BY <2>2, BroadcastStartKeeps
  <2>3. ASSUME NEW c \in Client, BroadcastSend(c) PROVE ClientInv(d)'
    BY <2>3, BroadcastSendKeeps
  <2>4. CASE BroadcastEnd
    BY <2>4, BroadcastEndKeeps
  <2>5. CASE UNCHANGED vars
    <3>1. /\ SameStream(d) /\ SameControl(d) /\ SameHub(d)
          /\ (d \in clients') <=> (d \in clients)
      BY <2>5 DEF vars, hubVars, chanVars, lifeVars, SameStream, SameQueue, SameControl,
                  SameHub
    <3> QED BY <2>0, <3>1, Elsewhere
  <2> QED BY <2>1, <2>2, <2>3, <2>4, <2>5 DEF Next, Broadcasting, Finished
<1> QED BY <1>1, <1>2, TypeCorrect, PTL DEF SafeSpec, IInv

(* The hub never loses a client that is being served and never keeps one   *)
(* whose handler is gone.                                                  *)
THEOREM RegistrationCorrect == SafeSpec => []RegisteredIffServed
<1>1. IInv => RegisteredIffServed
  BY DEF IInv, ClientInv, RegisteredAt, RegisteredIffServed
<1> QED BY <1>1, Inductive, PTL

(* Every connection sees the Broadcasts in order, without repetition.      *)
THEOREM StreamCorrect == SafeSpec => []StreamOrdered
<1>1. IInv => StreamOrdered
  BY DEF IInv, ClientInv, StreamOrdered
<1> QED BY <1>1, Inductive, PTL

(* A registered client misses a Broadcast only when its buffer is full.    *)
THEOREM AccountCorrect == SafeSpec => []NothingLostSilently
<1>1. IInv => NothingLostSilently
  BY DEF IInv, ClientInv, AccountedAt, NothingLostSilently, TypeOK
<1> QED BY <1>1, Inductive, PTL

------------------------------------------------------------------------------
(* The fan-out implements OrderedMulticast.                                *)

LEMMA MulticastStutter ==
  ASSUME published' = published, handler' = handler, since' = since,
         written' = written
  PROVE  UNCHANGED Multicast!vars
BY DEF Multicast!vars, status

(* A step of a handler joins, leaves, or is not seen.                      *)
LEMMA HandlerSimulates ==
  ASSUME IInv, NEW c \in Client, HandlerStep(c)
  PROVE  [Multicast!Next]_(Multicast!vars)
<1> USE DEF IInv, TypeOK
<1>1. written' = written /\ published' = published
  BY DEF HandlerStep, LockFreeStep, LockedStep, Accept, Register, StartPumps,
         ReadFails, CloseDone, CloseConn, Unregister, Return, hubVars, chanVars
<1>2. CASE Register(c)
  <2>1. /\ handler[c] = "accepted"
        /\ handler' = [handler EXCEPT ![c] = "registered"]
        /\ since' = [since EXCEPT ![c] = published]
    BY <1>2 DEF Register, HandlerMoves
  <2>2. status[c] = "out" /\ status' = [status EXCEPT ![c] = "in"]
    BY <2>1 DEF status
  <2>3. Multicast!Join(c)
    BY <1>1, <2>1, <2>2 DEF Multicast!Join
  <2> QED BY <2>3 DEF Multicast!Next
<1>3. CASE Return(c)
  <2>1. /\ handler[c] = "unregistered"
        /\ handler' = [handler EXCEPT ![c] = "gone"]
        /\ since' = since
    BY <1>3 DEF Return, HandlerMoves
  <2>2. status[c] = "in" /\ status' = [status EXCEPT ![c] = "left"]
    BY <2>1 DEF status
  <2>3. Multicast!Leave(c)
    BY <1>1, <2>1, <2>2 DEF Multicast!Leave
  <2> QED BY <2>3 DEF Multicast!Next
<1>4. CASE ~Register(c) /\ ~Return(c)
  <2>1. since' = since
    BY <1>4 DEF HandlerStep, LockFreeStep, LockedStep, Accept, StartPumps,
                ReadFails, CloseDone, CloseConn, Unregister
  <2>2. status' = status
    BY <1>4 DEF HandlerStep, LockFreeStep, LockedStep, Accept, StartPumps,
                ReadFails, CloseDone, CloseConn, Unregister, HandlerMoves, status
  <2> QED BY <1>1, <2>1, <2>2 DEF Multicast!vars
<1> QED BY <1>2, <1>3, <1>4

(* A write that succeeds delivers the next message of the run.             *)
LEMMA WriteSimulates ==
  ASSUME IInv, NEW c \in Client, PumpWriteOk(c)
  PROVE  Multicast!Next
<1> USE DEF IInv, TypeOK
<1> DEFINE n == inFlight[c]
<1>1. /\ pump[c] = "writing" /\ conn[c] = "open"
      /\ written' = [written EXCEPT ![c] = Append(@, n)]
      /\ handler' = handler /\ since' = since /\ published' = published
  BY DEF PumpWriteOk, hubVars
<1>2. n # 0 /\ handler[c] \notin {"none", "accepted", "registered", "gone"}
  BY <1>1 DEF ClientInv, AtRest
<1>3. since[c] < n /\ n <= SentTo(c) /\ \A i \in 1..Len(written[c]) : written[c][i] < n
  BY <1>2 DEF ClientInv, OrderedAt, InOrder
<1>4. n \in 1..published
  BY <1>2, <1>3 DEF SentTo
<1>5. status[c] = "in" /\ status' = status
  BY <1>1, <1>2 DEF status, HandlerState
<1>6. Multicast!Receive(c, n)
  BY <1>1, <1>3, <1>4, <1>5 DEF Multicast!Receive
<1> QED BY <1>4, <1>6 DEF Multicast!Next

(* Every connection gets a subsequence of the Broadcasts, in order, while  *)
(* it is connected and never after its handler returned.                   *)
THEOREM Refinement == SafeSpec => RefinesMulticast
<1>1. Init => Multicast!Init
  BY DEF Init, Multicast!Init, status
<1>2. IInv /\ [Next]_vars => [Multicast!Next]_(Multicast!vars)
  <2> SUFFICES ASSUME IInv, [Next]_vars PROVE [Multicast!Next]_(Multicast!vars)
    OBVIOUS
  <2>1. ASSUME NEW c \in Client, HandlerStep(c)
        PROVE  [Multicast!Next]_(Multicast!vars)
    BY <2>1, HandlerSimulates
  <2>2. ASSUME NEW c \in Client, PumpStep(c) \/ ConnBreaks(c)
        PROVE  [Multicast!Next]_(Multicast!vars)
    <3>1. CASE PumpWriteOk(c)
      BY <3>1, WriteSimulates
    <3>2. CASE ~PumpWriteOk(c)
      <4>1. /\ published' = published /\ handler' = handler /\ since' = since
            /\ written' = written
        BY <2>2, <3>2 DEF PumpStep, PumpTake, PumpStop, PumpWriteFails, ConnBreaks,
                          hubVars, chanVars
      <4> QED BY <4>1, MulticastStutter
    <3> QED BY <3>1, <3>2
  <2>3. CASE BroadcastStart
    <3>1. /\ published' = published + 1 /\ handler' = handler /\ since' = since
          /\ written' = written
      BY <2>3 DEF BroadcastStart, chanVars, lifeVars
    <3>2. Multicast!Publish
      BY <3>1 DEF Multicast!Publish, status
    <3> QED BY <3>2 DEF Multicast!Next
  <2>4. CASE Broadcasting \/ Finished \/ UNCHANGED vars
    <3>1. /\ published' = published /\ handler' = handler /\ since' = since
          /\ written' = written
      BY <2>4 DEF Broadcasting, BroadcastSend, BroadcastEnd, Finished, vars,
                  hubVars, chanVars, lifeVars
    <3> QED BY <3>1, MulticastStutter
  <2> QED BY <2>1, <2>2, <2>3, <2>4 DEF Next, ClientStep
<1> QED BY <1>1, <1>2, Inductive, PTL DEF SafeSpec, RefinesMulticast, Multicast!Spec
==============================================================================
