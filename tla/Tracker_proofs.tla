---------------------------- MODULE Tracker_proofs ----------------------------
(***************************************************************************)
(* The stream from the encoder to the consumer, for every fleet, every set *)
(* of connections, every buffer and every tolerance: a consumer has the    *)
(* encoder's word for each vehicle the stream vouches for, in its view or  *)
(* still on its way, whatever was discarded and whenever it hydrates.      *)
(***************************************************************************)
EXTENDS Tracker, WSHub_proofs

Delta ==
  {d \in [updates : Snapshot, removed : SUBSET Vehicle] : DOMAIN d.updates \intersect d.removed = {}}

Typed ==
  /\ vehicles \in Snapshot
  /\ changes \in 0..MaxChanges
  /\ loop \in {"idle", "encode", "send", "sending"}
  /\ prev \in Snapshot
  /\ delta \in Delta
  /\ log \in Seq(Delta) /\ Len(log) = published
  /\ view \in [Client -> Snapshot]
  /\ fetch \in [Client -> {"none", "asked", "done"}]
  /\ answer \in [Client -> Snapshot]
  /\ known \in [Client -> SUBSET Vehicle]
  /\ vouched \in [Client -> SUBSET Vehicle]

\* The delta in hand says what the encoder remembers.
InHand == loop = "send" => \A v \in Mentions(delta) : AgreeOn(v, delta.updates, prev)

\* The Broadcasts on their way to c.
Out(c) ==
  {n \in 1..published : n = inFlight[c] \/ Elem(n, sendCh[c]) \/ (n = published /\ c \in pending)}

\* Only Broadcasts were discarded.
DropsBounded == \A c \in Client : dropped[c] \subseteq 1..published

\* c is registered, or may still come to be.
Attentive(c) == c \in clients \/ handler[c] \in {"none", "accepted"}

\* With the Broadcasts of out still to come and those of drp discarded, the last word
\* on v agrees with target: that of the newest to come that mentions v, if none newer
\* was discarded, or else that of the view vw, where kn are the vehicles it knows.
Says(out, drp, lg, vw, kn, target, v) ==
  /\ \A n \in out :
       v \in Mentions(lg[n]) /\ (\A m \in out \union drp : n < m => v \notin Mentions(lg[m]))
         => AgreeOn(v, lg[n].updates, target)
  /\ v \in kn /\ (\A n \in out : v \notin Mentions(lg[n])) => AgreeOn(v, vw, target)

\* The same for the consumer's view and for the response that may replace it.
BothSay(c, target, v) ==
  /\ Says(Out(c), dropped[c], log, view[c], known[c], target, v)
  /\ Says(Out(c), dropped[c], log, answer[c], vouched[c], target, v)

\* The delta in hand is ahead of the stream on the vehicles it mentions.
Settled(c) ==
  \A v \in Vehicle : ~(loop = "send" /\ v \in Mentions(delta)) => BothSay(c, prev, v)

StreamInv ==
  /\ IInv /\ Typed /\ InHand /\ DropsBounded
  /\ \A c \in Client : Attentive(c) => Settled(c)

------------------------------------------------------------------------------
(* Snapshots and deltas.                                                   *)

LEMMA SnapshotIntro ==
  ASSUME NEW f, NEW S, S \subseteq Vehicle, f \in [S -> VehicleUpdate]
  PROVE  f \in Snapshot
BY DEF Snapshot

LEMMA SnapshotType ==
  ASSUME NEW f \in Snapshot
  PROVE  DOMAIN f \subseteq Vehicle /\ f \in [DOMAIN f -> VehicleUpdate]
<1>1. PICK S \in SUBSET Vehicle : f \in [S -> VehicleUpdate]
  BY DEF Snapshot
<1>2. DOMAIN f = S
  BY <1>1
<1>3. QED
  BY <1>1, <1>2

LEMMA EmptyTypes == EmptySnapshot \in Snapshot /\ NoDelta \in Delta
<1>1. EmptySnapshot \in [{} -> VehicleUpdate]
  BY DEF EmptySnapshot
<1>2. EmptySnapshot \in Snapshot
  BY <1>1, SnapshotIntro
<1>3. QED
  BY <1>2 DEF NoDelta, Delta

LEMMA AgreeTransitive ==
  ASSUME NEW v, NEW a, NEW b, NEW c, AgreeOn(v, a, b), AgreeOn(v, b, c)
  PROVE  AgreeOn(v, a, c)
BY DEF AgreeOn

(* A delta has the new snapshot's word for the vehicles it mentions, and   *)
(* the others are as they were.                                            *)
LEMMA EncodeAgrees ==
  ASSUME NEW old \in Snapshot, NEW cur \in Snapshot
  PROVE  /\ Encode(old, cur) \in Delta
         /\ \A v \in Mentions(Encode(old, cur)) : AgreeOn(v, Encode(old, cur).updates, cur)
         /\ \A v : v \notin Mentions(Encode(old, cur)) => AgreeOn(v, old, cur)
<1> DEFINE d == Encode(old, cur)
           U == {w \in DOMAIN cur : w \in DOMAIN old => Changed(old[w], cur[w])}
<1>1. /\ d = [updates |-> [v \in U |-> cur[v]], removed |-> DOMAIN old \ DOMAIN cur]
      /\ DOMAIN d.updates = U /\ d.removed = DOMAIN old \ DOMAIN cur
      /\ \A v \in U : d.updates[v] = cur[v]
  BY DEF Encode
<1>2. /\ DOMAIN old \subseteq Vehicle /\ old \in [DOMAIN old -> VehicleUpdate]
      /\ DOMAIN cur \subseteq Vehicle /\ cur \in [DOMAIN cur -> VehicleUpdate]
  BY SnapshotType
<1>3. d \in Delta
  <2>1. [v \in U |-> cur[v]] \in [U -> VehicleUpdate]
    BY <1>2
  <2>2. [v \in U |-> cur[v]] \in Snapshot
    BY <1>2, <2>1, SnapshotIntro
  <2>3. QED
    BY <1>1, <1>2, <2>2 DEF Delta
<1> HIDE DEF d
<1>4. ASSUME NEW v \in Mentions(d)
      PROVE  AgreeOn(v, d.updates, cur)
  BY <1>1 DEF Mentions, AgreeOn
<1>5. ASSUME NEW v, v \notin Mentions(d)
      PROVE  AgreeOn(v, old, cur)
  <2>1. v \in DOMAIN old <=> v \in DOMAIN cur
    BY <1>1, <1>5 DEF Mentions
  <2>2. ASSUME v \in DOMAIN old
        PROVE  old[v].tag = cur[v].tag /\ (Eps = 0 => old[v].pos = cur[v].pos)
    <3>1. ~Changed(old[v], cur[v])
      BY <1>1, <1>5, <2>1, <2>2 DEF Mentions
    <3>2. old[v] \in VehicleUpdate /\ cur[v] \in VehicleUpdate
      BY <1>2, <2>1, <2>2
    <3>3. ASSUME Eps = 0
          PROVE  old[v].pos = cur[v].pos
      <4>1. old[v].pos \in [Axis -> Pos] /\ cur[v].pos \in [Axis -> Pos]
        BY <3>2 DEF VehicleUpdate
      <4>2. ASSUME NEW x \in Axis
            PROVE  old[v].pos[x] = cur[v].pos[x]
        <5>1. old[v].pos[x] \in Int /\ cur[v].pos[x] \in Int
          BY <4>1, PosAssumption
        <5>2. ~(Dist(old[v].pos[x], cur[v].pos[x]) > 0)
          BY <3>1, <3>3 DEF Changed
        <5>3. QED
          BY <5>1, <5>2 DEF Dist
      <4>3. QED
        BY <4>1, <4>2
    <3>4. QED
      BY <3>1, <3>3 DEF Changed
  <2>3. QED
    BY <2>1, <2>2 DEF AgreeOn
<1>6. QED
  BY <1>3, <1>4, <1>5 DEF d

LEMMA ApplyTypes ==
  ASSUME NEW vw \in Snapshot, NEW d \in Delta
  PROVE  ApplyDelta(vw, d) \in Snapshot /\ Mentions(d) \subseteq Vehicle
<1> DEFINE S == (DOMAIN vw \union DOMAIN d.updates) \ d.removed
<1>1. d.updates \in Snapshot /\ d.removed \subseteq Vehicle
  BY DEF Delta
<1>2. /\ DOMAIN vw \subseteq Vehicle /\ vw \in [DOMAIN vw -> VehicleUpdate]
      /\ DOMAIN d.updates \subseteq Vehicle /\ d.updates \in [DOMAIN d.updates -> VehicleUpdate]
  BY <1>1, SnapshotType
<1>3. ApplyDelta(vw, d) \in [S -> VehicleUpdate]
  BY <1>2 DEF ApplyDelta
<1>4. S \subseteq Vehicle
  BY <1>2
<1>5. ApplyDelta(vw, d) \in Snapshot
  BY <1>3, <1>4, SnapshotIntro
<1>6. QED
  BY <1>1, <1>2, <1>5 DEF Mentions

(* The consumer takes a delta's word for the vehicles it mentions.         *)
LEMMA ApplyAgrees ==
  ASSUME NEW vw, NEW d \in Delta, NEW v, NEW target
  PROVE  /\ v \in Mentions(d) /\ AgreeOn(v, d.updates, target)
              => AgreeOn(v, ApplyDelta(vw, d), target)
         /\ v \notin Mentions(d) /\ AgreeOn(v, vw, target)
              => AgreeOn(v, ApplyDelta(vw, d), target)
<1> DEFINE S == (DOMAIN vw \union DOMAIN d.updates) \ d.removed
           r == ApplyDelta(vw, d)
<1>1. DOMAIN d.updates \intersect d.removed = {}
  BY DEF Delta
<1>2. DOMAIN r = S /\ \A w \in S : r[w] = IF w \in DOMAIN d.updates THEN d.updates[w] ELSE vw[w]
  BY DEF ApplyDelta
<1> HIDE DEF r
<1>3. QED
  BY <1>1, <1>2 DEF Mentions, AgreeOn, r

------------------------------------------------------------------------------
(* The last word, as Broadcasts come and go.                               *)

LEMMA SaysRetarget ==
  ASSUME NEW out, NEW drp, NEW lg, NEW vw, NEW kn, NEW t, NEW u, NEW v,
         Says(out, drp, lg, vw, kn, t, v), AgreeOn(v, t, u)
  PROVE  Says(out, drp, lg, vw, kn, u, v)
BY AgreeTransitive DEF Says

(* The oldest Broadcast f is delivered: what is held as w with the word k  *)
(* on v takes the word of f where f mentions v, and keeps its own          *)
(* elsewhere.                                                              *)
LEMMA SaysDelivered ==
  ASSUME NEW out \in SUBSET Nat, NEW drp, NEW lg, NEW vw, NEW kn, NEW t, NEW v, NEW f \in out,
         \A m \in out : m # f => f < m, Says(out, drp, lg, vw, kn, t, v), NEW w, NEW k,
         v \in Mentions(lg[f]) /\ v \in k =>
           AgreeOn(v, w, lg[f].updates) /\ \A m \in drp : f < m => v \notin Mentions(lg[m]),
         v \notin Mentions(lg[f]) =>
           (v \in k => v \in kn) /\ (AgreeOn(v, vw, t) => AgreeOn(v, w, t))
  PROVE  Says(out \ {f}, drp, lg, w, k, t, v)
<1> DEFINE rest == out \ {f}
<1>1. ASSUME NEW n \in rest, v \in Mentions(lg[n]),
             \A m \in rest \union drp : n < m => v \notin Mentions(lg[m])
      PROVE  AgreeOn(v, lg[n].updates, t)
  <2>1. f < n /\ f \in Nat /\ n \in Nat
    OBVIOUS
  <2>2. \A m \in out \union drp : n < m => v \notin Mentions(lg[m])
    BY <1>1, <2>1
  <2>3. QED
    BY <1>1, <2>2 DEF Says
<1>2. ASSUME v \in k, \A n \in rest : v \notin Mentions(lg[n])
      PROVE  AgreeOn(v, w, t)
  <2>1. CASE v \in Mentions(lg[f])
    <3>1. \A m \in out \union drp : f < m => v \notin Mentions(lg[m])
      BY <1>2, <2>1
    <3>2. AgreeOn(v, lg[f].updates, t)
      BY <2>1, <3>1 DEF Says
    <3>3. AgreeOn(v, w, lg[f].updates)
      BY <1>2, <2>1
    <3>4. QED
      BY <3>2, <3>3, AgreeTransitive
  <2>2. CASE v \notin Mentions(lg[f])
    <3>1. v \in kn /\ \A n \in out : v \notin Mentions(lg[n])
      BY <1>2, <2>2
    <3>2. AgreeOn(v, vw, t)
      BY <3>1 DEF Says
    <3>3. QED
      BY <2>2, <3>2
  <2>3. QED
    BY <2>1, <2>2
<1> HIDE DEF rest
<1>3. Says(rest, drp, lg, w, k, t, v)
  BY <1>1, <1>2 DEF Says
<1>4. QED
  BY <1>3 DEF rest

(* The Broadcast N on its way is discarded instead.                        *)
LEMMA SaysMissed ==
  ASSUME NEW out, NEW drp, NEW lg, NEW vw, NEW kn, NEW t, NEW v, NEW N \in out,
         Says(out, drp, lg, vw, kn, t, v)
  PROVE  Says(out \ {N}, drp \union {N}, lg, vw, kn \ Mentions(lg[N]), t, v)
<1> DEFINE rest == out \ {N}
           more == drp \union {N}
<1>1. rest \union more = out \union drp
  OBVIOUS
<1>2. ASSUME NEW n \in rest, v \in Mentions(lg[n]),
             \A m \in rest \union more : n < m => v \notin Mentions(lg[m])
      PROVE  AgreeOn(v, lg[n].updates, t)
  BY <1>1, <1>2 DEF Says
<1>3. ASSUME v \in kn \ Mentions(lg[N]), \A n \in rest : v \notin Mentions(lg[n])
      PROVE  AgreeOn(v, vw, t)
  BY <1>3 DEF Says
<1> HIDE DEF rest, more
<1>4. Says(rest, more, lg, vw, kn \ Mentions(lg[N]), t, v)
  BY <1>2, <1>3 DEF Says
<1>5. QED
  BY <1>4 DEF rest, more

(* A Broadcast is added at the end.                                        *)
LEMMA SaysPublished ==
  ASSUME NEW N \in Nat, NEW out \in SUBSET (1..N), NEW drp \in SUBSET (1..N),
         NEW lg, NEW lg2, NEW d, NEW vw, NEW kn, NEW t, NEW v,
         \A n \in 1..N : lg2[n] = lg[n], lg2[N + 1] = d,
         v \in Mentions(d) => AgreeOn(v, d.updates, t),
         v \notin Mentions(d) => Says(out, drp, lg, vw, kn, t, v)
  PROVE  Says(out \union {N + 1}, drp, lg2, vw, kn, t, v)
<1> DEFINE more == out \union {N + 1}
<1>1. \A n \in out \union drp : n \in 1..N /\ n < N + 1 /\ n # N + 1 /\ lg2[n] = lg[n]
  OBVIOUS
<1>2. CASE v \in Mentions(d)
  BY <1>1, <1>2 DEF Says
<1>3. CASE v \notin Mentions(d)
  <2>1. ASSUME NEW n \in more, v \in Mentions(lg2[n]),
               \A m \in more \union drp : n < m => v \notin Mentions(lg2[m])
        PROVE  AgreeOn(v, lg2[n].updates, t)
    <3>1. n \in out
      BY <1>3, <2>1
    <3>2. \A m \in out \union drp : n < m => v \notin Mentions(lg[m])
      BY <1>1, <2>1
    <3>3. lg2[n] = lg[n]
      BY <1>1, <3>1
    <3>4. QED
      BY <1>3, <2>1, <3>1, <3>2, <3>3 DEF Says
  <2>2. ASSUME v \in kn, \A n \in more : v \notin Mentions(lg2[n])
        PROVE  AgreeOn(v, vw, t)
    BY <1>1, <1>3, <2>2 DEF Says
  <2>3. QED
    BY <2>1, <2>2 DEF Says
<1>4. QED
  BY <1>2, <1>3

------------------------------------------------------------------------------
(* The Broadcasts on their way.                                            *)

LEMMA ElemHead ==
  ASSUME NEW q \in Seq(Nat), q # << >>, NEW n
  PROVE  Elem(n, q) <=> n = Head(q) \/ Elem(n, Tail(q))
<1>1. /\ Len(q) \in Nat \ {0} /\ Len(Tail(q)) = Len(q) - 1 /\ Head(q) = q[1]
      /\ \A i \in 1..Len(Tail(q)) : Tail(q)[i] = q[i + 1]
  OBVIOUS
<1>2. ASSUME Elem(n, q)
      PROVE  n = Head(q) \/ Elem(n, Tail(q))
  <2>1. PICK i \in 1..Len(q) : q[i] = n
    BY <1>2 DEF Elem
  <2>2. CASE i = 1
    BY <1>1, <2>1, <2>2
  <2>3. CASE i # 1
    <3>1. i - 1 \in 1..Len(Tail(q)) /\ Tail(q)[i - 1] = n
      BY <1>1, <2>1, <2>3
    <3>2. QED
      BY <3>1 DEF Elem
  <2>4. QED
    BY <2>2, <2>3
<1>3. ASSUME Elem(n, Tail(q))
      PROVE  Elem(n, q)
  <2>1. PICK i \in 1..Len(Tail(q)) : Tail(q)[i] = n
    BY <1>3 DEF Elem
  <2>2. i + 1 \in 1..Len(q) /\ q[i + 1] = n
    BY <1>1, <2>1
  <2>3. QED
    BY <2>2 DEF Elem
<1>4. ASSUME n = Head(q)
      PROVE  Elem(n, q)
  BY <1>1, <1>4 DEF Elem
<1>5. QED
  BY <1>2, <1>3, <1>4

LEMMA ElemAppend ==
  ASSUME NEW q \in Seq(Nat), NEW p \in Nat, NEW n
  PROVE  Elem(n, Append(q, p)) <=> Elem(n, q) \/ n = p
<1> DEFINE r == Append(q, p)
<1>1. /\ Len(q) \in Nat /\ Len(r) = Len(q) + 1 /\ r[Len(q) + 1] = p
      /\ \A i \in 1..Len(q) : r[i] = q[i]
  OBVIOUS
<1> HIDE DEF r
<1>2. ASSUME Elem(n, r)
      PROVE  Elem(n, q) \/ n = p
  <2>1. PICK i \in 1..Len(r) : r[i] = n
    BY <1>2 DEF Elem
  <2>2. i \in 1..Len(q) \/ i = Len(q) + 1
    BY <1>1
  <2>3. QED
    BY <1>1, <2>1, <2>2 DEF Elem
<1>3. ASSUME Elem(n, q)
      PROVE  Elem(n, r)
  <2>1. PICK i \in 1..Len(q) : q[i] = n
    BY <1>3 DEF Elem
  <2>2. i \in 1..Len(r) /\ r[i] = n
    BY <1>1, <2>1
  <2>3. QED
    BY <2>2 DEF Elem
<1>4. ASSUME n = p
      PROVE  Elem(n, r)
  <2>1. Len(q) + 1 \in 1..Len(r) /\ r[Len(q) + 1] = n
    BY <1>1, <1>4
  <2>2. QED
    BY <2>1 DEF Elem
<1>5. QED
  BY <1>2, <1>3, <1>4 DEF r

LEMMA OutStays ==
  ASSUME NEW c \in Client, published' = published, (c \in pending') <=> (c \in pending),
         inFlight'[c] = inFlight[c], sendCh'[c] = sendCh[c]
  PROVE  Out(c)' = Out(c)
BY DEF Out

(* Neither the pump's taking a message nor a Send that queues one changes  *)
(* what is on its way.                                                     *)
LEMMA TakeOut ==
  ASSUME IInv, NEW c \in Client, PumpTake(c)
  PROVE  Out(c)' = Out(c)
<1>1. inFlight[c] = 0 /\ sendCh[c] \in Seq(Nat) /\ sendCh[c] # << >>
  BY DEF IInv, TypeOK, ClientInv, AtRest, PumpTake
<1>2. /\ inFlight'[c] = Head(sendCh[c]) /\ sendCh'[c] = Tail(sendCh[c])
      /\ published' = published /\ pending' = pending
  BY DEF PumpTake, IInv, TypeOK, hubVars
<1>3. ASSUME NEW n \in 1..published
      PROVE  n = inFlight'[c] \/ Elem(n, sendCh'[c]) <=> n = inFlight[c] \/ Elem(n, sendCh[c])
  BY <1>1, <1>2, ElemHead
<1>4. QED
  BY <1>2, <1>3 DEF Out

LEMMA SendOut ==
  ASSUME IInv, NEW c \in Client, BroadcastSend(c), SendQueues(c)
  PROVE  Out(c)' = Out(c)
<1>1. /\ sendCh[c] \in Seq(Nat) /\ published \in Nat /\ c \in pending
      /\ sendCh'[c] = Append(sendCh[c], published) /\ inFlight' = inFlight
      /\ published' = published /\ c \notin pending'
  BY DEF IInv, TypeOK, BroadcastSend, SendQueues
<1>2. \A n : Elem(n, sendCh'[c]) <=> Elem(n, sendCh[c]) \/ n = published
  BY <1>1, ElemAppend
<1>3. QED
  BY <1>1, <1>2 DEF Out

(* A Send that discards the message takes it out of them.                  *)
LEMMA DropOut ==
  ASSUME IInv, NEW c \in Client, BroadcastSend(c), SendDrops(c)
  PROVE  published \in Out(c) /\ Out(c)' = Out(c) \ {published}
<1>1. /\ c \in pending /\ sendCh[c] \in Seq(Nat) /\ inFlight[c] \in Nat /\ published \in Nat
      /\ since[c] \in Nat /\ since[c] < published
      /\ InOrder(written[c], inFlight[c], sendCh[c], since[c], published - 1)
  BY DEF IInv, TypeOK, ClientInv, AtRest, OrderedAt, SentTo, BroadcastSend
<1>2. /\ sendCh' = sendCh /\ inFlight' = inFlight /\ published' = published /\ c \notin pending'
  BY DEF BroadcastSend, SendDrops
<1>3. published \in 1..published
  BY <1>1
<1>4. inFlight[c] # published
  BY <1>1 DEF InOrder
<1>5. ~Elem(published, sendCh[c])
  <2>1. \A j \in 1..Len(sendCh[c]) : sendCh[c][j] <= published - 1
    BY <1>1 DEF InOrder
  <2>2. QED
    BY <1>1, <2>1 DEF Elem
<1>6. QED
  BY <1>1, <1>2, <1>3, <1>4, <1>5 DEF Out

(* What is written was the oldest on its way.                              *)
LEMMA WriteOut ==
  ASSUME IInv, NEW c \in Client, PumpWriteOk(c)
  PROVE  /\ inFlight[c] \in Out(c) /\ \A m \in Out(c) : m # inFlight[c] => inFlight[c] < m
         /\ Out(c)' = Out(c) \ {inFlight[c]}
<1> DEFINE f == inFlight[c]
           q == sendCh[c]
<1>1. /\ f \in Nat \ {0} /\ q \in Seq(Nat) /\ published \in Nat
      /\ InOrder(written[c], f, q, since[c], SentTo(c))
  BY DEF IInv, TypeOK, ClientInv, AtRest, OrderedAt, PumpWriteOk
<1>2. f <= SentTo(c) /\ \A j \in 1..Len(q) : f < q[j]
  BY <1>1 DEF InOrder
<1>3. \A n : Elem(n, q) => f < n
  BY <1>2 DEF Elem
<1>4. f \in 1..published /\ (c \in pending => f < published)
  BY <1>1, <1>2 DEF SentTo
<1>5. f \in Out(c) /\ \A m \in Out(c) : m # f => f < m
  BY <1>3, <1>4 DEF Out
<1>6. /\ inFlight'[c] = 0 /\ sendCh' = sendCh /\ published' = published /\ pending' = pending
  BY DEF PumpWriteOk, IInv, TypeOK, hubVars
<1>7. Out(c)' = {n \in 1..published : Elem(n, q) \/ (n = published /\ c \in pending)}
  BY <1>6 DEF Out
<1>8. \A n \in 1..published : (Elem(n, q) \/ (n = published /\ c \in pending)) => n # f
  BY <1>1, <1>3, <1>4
<1>9. QED
  BY <1>5, <1>7, <1>8 DEF Out

(* Before Register nothing is on its way.                                  *)
LEMMA NothingBeforeRegister ==
  ASSUME IInv, NEW c \in Client, handler[c] \in {"none", "accepted"}
  PROVE  Out(c) = {} /\ c \notin clients
<1>1. c \notin pending /\ sendCh[c] = << >> /\ inFlight[c] = 0 /\ c \notin clients
  BY DEF IInv, ClientInv, AtRest, RegisteredAt, Detached
<1>2. QED
  BY <1>1 DEF Out, Elem

------------------------------------------------------------------------------
(* The steps.                                                              *)

LEMMA SettledStays ==
  ASSUME NEW c \in Client, Settled(c), Out(c)' = Out(c), dropped'[c] = dropped[c], log' = log,
         prev' = prev, loop' = "send" <=> loop = "send", loop = "send" => delta' = delta,
         view'[c] = view[c], known'[c] = known[c], answer'[c] = answer[c], vouched'[c] = vouched[c]
  PROVE  Settled(c)'
<1>1. \A v \in Vehicle : BothSay(c, prev, v)' = BothSay(c, prev, v)
  BY DEF BothSay, Says
<1>2. QED
  BY <1>1 DEF Settled

LEMMA HubStep ==
  ASSUME [TrackerNext]_allVars
  PROVE  [Next]_vars
<1>1. ASSUME NEW c \in Client, OtherClientStep(c)
      PROVE  ClientStep(c)
  BY <1>1 DEF OtherClientStep, ClientStep, PumpStep
<1>2. ASSUME NEW c \in Client, Deliver(c)
      PROVE  ClientStep(c)
  BY <1>2 DEF Deliver, ClientStep, PumpStep
<1>3. CASE LoopStep
  <2>1. CASE Tick
    BY <2>1 DEF Tick
  <2>2. CASE EncodeTick
    BY <2>2 DEF EncodeTick
  <2>3. CASE Publish
    BY <2>3 DEF Publish, Next
  <2>4. CASE PublishEnd
    BY <2>4 DEF PublishEnd, Next, Broadcasting
  <2>5. CASE \E c \in Client : SendToOne(c)
    BY <2>5 DEF SendToOne, Next, Broadcasting
  <2>6. QED
    BY <1>3, <2>1, <2>2, <2>3, <2>4, <2>5 DEF LoopStep
<1>4. CASE \E v \in Vehicle, u \in VehicleUpdate : UpdateVehicle(v, u)
  BY <1>4 DEF UpdateVehicle
<1>5. CASE \E S \in SUBSET DOMAIN vehicles : PruneVehicles(S)
  BY <1>5 DEF PruneVehicles
<1>6. CASE \E c \in Client : HydrateAsks(c) \/ HydrateArrives(c)
  BY <1>6 DEF HydrateAsks, HydrateArrives
<1>7. CASE TrackerFinished \/ UNCHANGED allVars
  BY <1>7 DEF TrackerFinished, allVars
<1>8. QED
  BY <1>1, <1>2, <1>3, <1>4, <1>5, <1>6, <1>7 DEF TrackerNext, Next

(* The hub inside the tracker is WSHub: the loop calls Broadcast as any    *)
(* broadcaster may, and the consumers are clients like others.             *)
THEOREM HubInside == TrackerSafeSpec => SafeSpec
<1>1. TrackerInit => Init
  BY DEF TrackerInit
<1>2. [TrackerNext]_allVars => [Next]_vars
  BY HubStep
<1>3. QED
  BY <1>1, <1>2, PTL DEF TrackerSafeSpec, SafeSpec

LEMMA TypedStep ==
  ASSUME IInv, Typed, [TrackerNext]_allVars
  PROVE  Typed'
<1>1. ASSUME NEW v \in Vehicle, NEW u \in VehicleUpdate, UpdateVehicle(v, u)
      PROVE  Typed'
  <2>1. DOMAIN vehicles \subseteq Vehicle /\ vehicles \in [DOMAIN vehicles -> VehicleUpdate]
    BY SnapshotType DEF Typed
  <2>2. vehicles' \in [DOMAIN vehicles \union {v} -> VehicleUpdate]
    BY <1>1, <2>1 DEF UpdateVehicle
  <2>3. vehicles' \in Snapshot
    BY <2>1, <2>2, SnapshotIntro
  <2>4. changes' \in 0..MaxChanges
    BY <1>1, ChangesAssumption DEF Typed, UpdateVehicle
  <2>5. QED
    BY <1>1, <2>3, <2>4 DEF Typed, UpdateVehicle, vars, hubVars, loopVars, viewVars
<1>2. ASSUME NEW S \in SUBSET DOMAIN vehicles, PruneVehicles(S)
      PROVE  Typed'
  <2>1. DOMAIN vehicles \subseteq Vehicle /\ vehicles \in [DOMAIN vehicles -> VehicleUpdate]
    BY SnapshotType DEF Typed
  <2>2. vehicles' \in [DOMAIN vehicles \ S -> VehicleUpdate]
    BY <1>2, <2>1 DEF PruneVehicles
  <2>3. vehicles' \in Snapshot
    BY <2>1, <2>2, SnapshotIntro
  <2>4. changes' \in 0..MaxChanges
    BY <1>2, ChangesAssumption DEF Typed, PruneVehicles
  <2>5. QED
    BY <1>2, <2>3, <2>4 DEF Typed, PruneVehicles, vars, hubVars, loopVars, viewVars
<1>3. CASE Tick
  BY <1>3 DEF Tick, Typed, vars, hubVars, feedVars, viewVars
<1>4. CASE EncodeTick
  <2>1. Encode(prev, vehicles) \in Delta
    BY EncodeAgrees DEF Typed
  <2>2. QED
    BY <1>4, <2>1 DEF EncodeTick, Typed, vars, hubVars, feedVars, viewVars
<1>5. CASE Publish
  <2>1. log' \in Seq(Delta) /\ Len(log') = published'
    BY <1>5 DEF Publish, BroadcastStart, Typed
  <2>2. known' \in [Client -> SUBSET Vehicle] /\ vouched' \in [Client -> SUBSET Vehicle]
    BY <1>5 DEF Publish, Typed
  <2>3. QED
    BY <1>5, <2>1, <2>2, EmptyTypes DEF Publish, Typed, feedVars
<1>6. CASE PublishEnd
  BY <1>6 DEF PublishEnd, BroadcastEnd, Typed, feedVars, viewVars
<1>7. ASSUME NEW c \in Client, SendToOne(c)
      PROVE  Typed'
  <2>1. known' \in [Client -> SUBSET Vehicle] /\ vouched' \in [Client -> SUBSET Vehicle]
    BY <1>7 DEF SendToOne, Typed
  <2>2. published' = published
    BY <1>7 DEF SendToOne, BroadcastSend
  <2>3. QED
    BY <1>7, <2>1, <2>2 DEF SendToOne, Typed, feedVars, loopVars
<1>8. ASSUME NEW c \in Client, Deliver(c)
      PROVE  Typed'
  <2>1. inFlight[c] \in 1..published
    BY <1>8, WriteOut DEF Deliver, Out
  <2>2. log[inFlight[c]] \in Delta /\ view[c] \in Snapshot
    BY <2>1 DEF Typed
  <2>3. /\ ApplyDelta(view[c], log[inFlight[c]]) \in Snapshot
        /\ Mentions(log[inFlight[c]]) \subseteq Vehicle
    BY <2>2, ApplyTypes
  <2>4. /\ view' \in [Client -> Snapshot]
        /\ known' \in [Client -> SUBSET Vehicle] /\ vouched' \in [Client -> SUBSET Vehicle]
    BY <1>8, <2>3 DEF Deliver, StillNews, Typed
  <2>5. published' = published
    BY <1>8 DEF Deliver, PumpWriteOk, hubVars
  <2>6. QED
    BY <1>8, <2>4, <2>5 DEF Deliver, Typed, feedVars, loopVars
<1>9. ASSUME NEW c \in Client, HydrateAsks(c) \/ HydrateArrives(c)
      PROVE  Typed'
  BY <1>9, EmptyTypes DEF HydrateAsks, HydrateArrives, Typed, vars, hubVars, feedVars, loopVars
<1>10. ASSUME NEW c \in Client, OtherClientStep(c)
       PROVE  Typed'
  <2>1. published' = published
    BY <1>10 DEF OtherClientStep, HandlerStep, LockFreeStep, LockedStep, Accept, Register, StartPumps,
                 ReadFails, CloseDone, CloseConn, Unregister, Return, PumpTake, PumpStop,
                 PumpWriteFails, ConnBreaks, hubVars
  <2>2. QED
    BY <1>10, <2>1 DEF OtherClientStep, Typed, feedVars, loopVars, viewVars
<1>11. CASE TrackerFinished \/ UNCHANGED allVars
  BY <1>11 DEF TrackerFinished, allVars, Typed, vars, hubVars, feedVars, loopVars, viewVars
<1>12. QED
  BY <1>1, <1>2, <1>3, <1>4, <1>5, <1>6, <1>7, <1>8, <1>9, <1>10, <1>11 DEF TrackerNext, LoopStep

LEMMA InHandStep ==
  ASSUME Typed, InHand, [TrackerNext]_allVars
  PROVE  InHand'
<1>1. CASE EncodeTick
  <2>1. \A v \in Mentions(Encode(prev, vehicles)) :
          AgreeOn(v, Encode(prev, vehicles).updates, vehicles)
    BY EncodeAgrees DEF Typed
  <2>2. QED
    BY <1>1, <2>1 DEF EncodeTick, InHand
<1>2. CASE Tick \/ Publish \/ PublishEnd
  BY <1>2 DEF Tick, Publish, PublishEnd, InHand
<1>3. CASE UNCHANGED loopVars
  BY <1>3 DEF loopVars, InHand
<1>4. UNCHANGED loopVars \/ Tick \/ EncodeTick \/ Publish \/ PublishEnd
  BY DEF TrackerNext, LoopStep, UpdateVehicle, PruneVehicles, SendToOne, Deliver, HydrateAsks,
         HydrateArrives, OtherClientStep, TrackerFinished, allVars
<1>5. QED
  BY <1>1, <1>2, <1>3, <1>4

LEMMA DropsStep ==
  ASSUME IInv, DropsBounded, [Next]_vars
  PROVE  DropsBounded'
<1>1. ASSUME NEW d \in Client, HandlerStep(d) \/ PumpStep(d) \/ ConnBreaks(d)
      PROVE  DropsBounded'
  BY <1>1 DEF HandlerStep, LockFreeStep, LockedStep, Accept, Register, StartPumps, ReadFails, CloseDone,
              CloseConn, Unregister, Return, PumpStep, PumpTake, PumpStop, PumpWriteOk, PumpWriteFails,
              ConnBreaks, DropsBounded, hubVars, chanVars
<1>2. CASE BroadcastStart
  <2>1. published \in Nat /\ published' = published + 1 /\ dropped' = dropped
    BY <1>2 DEF BroadcastStart, chanVars, IInv, TypeOK
  <2>2. QED
    BY <2>1 DEF DropsBounded
<1>3. CASE BroadcastEnd \/ Finished \/ UNCHANGED vars
  BY <1>3 DEF BroadcastEnd, Finished, vars, hubVars, chanVars, DropsBounded
<1>4. ASSUME NEW d \in Client, BroadcastSend(d)
      PROVE  DropsBounded'
  <2>1. published \in Nat /\ since[d] \in Nat /\ since[d] < published /\ published' = published
    BY <1>4 DEF BroadcastSend, IInv, TypeOK, ClientInv, AtRest
  <2>2. published \in 1..published
    BY <2>1
  <2>3. CASE dropped' = dropped
    BY <2>1, <2>3 DEF DropsBounded
  <2>4. CASE dropped' = [dropped EXCEPT ![d] = @ \union {published}]
    BY <2>1, <2>2, <2>4 DEF DropsBounded, IInv, TypeOK
  <2>5. QED
    BY <1>4, <2>3, <2>4 DEF BroadcastSend, SendQueues, SendFindsDone, SendDrops
<1>5. QED
  BY <1>1, <1>2, <1>3, <1>4 DEF Next, ClientStep, Broadcasting

(* A client that is attentive after a step was so before.                  *)
LEMMA AttentiveBefore ==
  ASSUME TypeOK, [Next]_vars, NEW c \in Client, Attentive(c)'
  PROVE  Attentive(c)
<1>1. ASSUME NEW d \in Client, HandlerStep(d)
      PROVE  Attentive(c)
  BY <1>1 DEF HandlerStep, LockFreeStep, LockedStep, Accept, Register, StartPumps, ReadFails, CloseDone,
              CloseConn, Unregister, Return, HandlerMoves, Attentive, TypeOK, hubVars, chanVars
<1>2. ASSUME NEW d \in Client, PumpStep(d) \/ ConnBreaks(d)
      PROVE  Attentive(c)
  BY <1>2 DEF PumpStep, PumpTake, PumpStop, PumpWriteOk, PumpWriteFails, ConnBreaks, Attentive, hubVars,
              chanVars
<1>3. CASE BroadcastStart \/ BroadcastEnd
  BY <1>3 DEF BroadcastStart, BroadcastEnd, Attentive, chanVars, lifeVars
<1>4. ASSUME NEW d \in Client, BroadcastSend(d)
      PROVE  Attentive(c)
  BY <1>4 DEF BroadcastSend, SendQueues, SendFindsDone, SendDrops, Attentive, lifeVars, TypeOK
<1>5. CASE Finished \/ UNCHANGED vars
  BY <1>5 DEF Finished, vars, hubVars, chanVars, lifeVars, Attentive
<1>6. QED
  BY <1>1, <1>2, <1>3, <1>4, <1>5 DEF Next, ClientStep, Broadcasting

(* The steps of the loop and of the consumers, seen by one consumer.       *)
LEMMA EncodeSettled ==
  ASSUME Typed, NEW c \in Client, Settled(c), EncodeTick
  PROVE  Settled(c)'
<1> DEFINE d == Encode(prev, vehicles)
<1>1. \A v : v \notin Mentions(d) => AgreeOn(v, prev, vehicles)
  BY EncodeAgrees DEF Typed
<1>2. /\ loop = "encode" /\ prev' = vehicles /\ delta' = d
      /\ loop' = IF IsEmpty(d) THEN "idle" ELSE "send"
      /\ UNCHANGED <<vars, log, viewVars>>
  BY DEF EncodeTick
<1>3. Out(c)' = Out(c)
  BY <1>2, OutStays DEF vars, hubVars, chanVars
<1>4. ASSUME NEW v \in Vehicle, ~(loop' = "send" /\ v \in Mentions(delta'))
      PROVE  BothSay(c, vehicles, v)
  <2>1. v \notin Mentions(d)
    BY <1>2, <1>4 DEF IsEmpty, Mentions
  <2>2. BothSay(c, prev, v)
    BY <1>2 DEF Settled
  <2>3. QED
    BY <1>1, <2>1, <2>2, SaysRetarget DEF BothSay
<1>5. ASSUME NEW v \in Vehicle
      PROVE  BothSay(c, prev, v)' = BothSay(c, vehicles, v)
  BY <1>2, <1>3 DEF BothSay, Says, viewVars, vars, chanVars
<1>6. QED
  BY <1>4, <1>5 DEF Settled

LEMMA PublishSettled ==
  ASSUME IInv, Typed, InHand, DropsBounded, NEW c \in Client, Settled(c), Publish,
         c \in clients \/ handler[c] \in {"none", "accepted"}
  PROVE  Settled(c)'
<1> DEFINE N == published
           lg == Append(log, delta)
<1>1. /\ loop = "send" /\ loop' = "sending" /\ log' = lg /\ prev' = prev
      /\ view' = view /\ answer' = answer
      /\ known'[c] = IF c \in clients THEN known[c] ELSE known[c] \ Mentions(delta)
      /\ vouched'[c] = IF c \in clients THEN vouched[c] ELSE vouched[c] \ Mentions(delta)
  BY DEF Publish, Typed
<1>2. /\ ~lock /\ published' = N + 1 /\ pending' = clients /\ sendCh' = sendCh /\ inFlight' = inFlight
      /\ dropped' = dropped
  BY DEF Publish, BroadcastStart, chanVars
<1>3. /\ N \in Nat /\ Out(c) \in SUBSET (1..N) /\ dropped[c] \in SUBSET (1..N) /\ log \in Seq(Delta)
      /\ Len(log) = N /\ delta \in Delta
  BY DEF IInv, TypeOK, Out, Typed, DropsBounded
<1>4. /\ \A n \in 1..N : lg[n] = log[n]
      /\ lg[N + 1] = delta
  BY <1>3
<1>5. c \notin pending
  BY <1>2 DEF IInv, ClientInv, AtRest
<1>6. CASE c \in clients
  <2>1. inFlight[c] # N + 1 /\ ~Elem(N + 1, sendCh[c])
    <3>1. /\ sendCh[c] \in Seq(Nat) /\ inFlight[c] \in Nat
          /\ InOrder(written[c], inFlight[c], sendCh[c], since[c], N)
      BY <1>5 DEF IInv, TypeOK, ClientInv, OrderedAt, SentTo
    <3>2. \A j \in 1..Len(sendCh[c]) : sendCh[c][j] <= N /\ sendCh[c][j] \in Nat
      BY <3>1 DEF InOrder
    <3>3. inFlight[c] <= N
      BY <1>3, <3>1 DEF InOrder
    <3>4. QED
      BY <1>3, <3>1, <3>2, <3>3 DEF Elem
  <2>2. Out(c)' = Out(c) \union {N + 1}
    <3>1. Out(c)' = {n \in 1..(N + 1) : n = inFlight[c] \/ Elem(n, sendCh[c]) \/ n = N + 1}
      BY <1>2, <1>6 DEF Out
    <3>2. Out(c) = {n \in 1..N : n = inFlight[c] \/ Elem(n, sendCh[c])}
      BY <1>5 DEF Out
    <3>3. QED
      BY <1>3, <3>1, <3>2
  <2>3. ASSUME NEW v \in Vehicle
        PROVE  /\ Says(Out(c) \union {N + 1}, dropped[c], lg, view[c], known[c], prev, v)
               /\ Says(Out(c) \union {N + 1}, dropped[c], lg, answer[c], vouched[c], prev, v)
    <3>1. v \in Mentions(delta) => AgreeOn(v, delta.updates, prev)
      BY <1>1 DEF InHand
    <3>2. v \notin Mentions(delta) => BothSay(c, prev, v)
      BY DEF Settled
    <3> HIDE DEF lg, N
    <3>3. Says(Out(c) \union {N + 1}, dropped[c], lg, view[c], known[c], prev, v)
      <4>1. v \notin Mentions(delta) => Says(Out(c), dropped[c], log, view[c], known[c], prev, v)
        BY <3>2 DEF BothSay
      <4>2. QED
        BY <1>3, <1>4, <3>1, <4>1, SaysPublished
    <3>4. Says(Out(c) \union {N + 1}, dropped[c], lg, answer[c], vouched[c], prev, v)
      <4>1. v \notin Mentions(delta) => Says(Out(c), dropped[c], log, answer[c], vouched[c], prev, v)
        BY <3>2 DEF BothSay
      <4>2. QED
        BY <1>3, <1>4, <3>1, <4>1, SaysPublished
    <3>5. QED
      BY <3>3, <3>4
  <2>4. ASSUME NEW v \in Vehicle
        PROVE  BothSay(c, prev, v)' =
                 (/\ Says(Out(c) \union {N + 1}, dropped[c], lg, view[c], known[c], prev, v)
                  /\ Says(Out(c) \union {N + 1}, dropped[c], lg, answer[c], vouched[c], prev, v))
    BY <1>1, <1>2, <1>6, <2>2 DEF BothSay, Says
  <2>5. QED
    BY <2>3, <2>4 DEF Settled
<1>7. CASE c \notin clients
  <2>1. handler[c] \in {"none", "accepted"}
    BY <1>7
  <2>2. Out(c) = {} /\ sendCh[c] = << >> /\ inFlight[c] = 0
    BY <2>1, NothingBeforeRegister DEF IInv, ClientInv, AtRest
  <2>3. Out(c)' = {}
    BY <1>2, <1>7, <2>2 DEF Out, Elem
  <2>4. ASSUME NEW v \in Vehicle
        PROVE  BothSay(c, prev, v)'
    <3>1. ASSUME v \in known[c], v \notin Mentions(delta)
          PROVE  AgreeOn(v, view[c], prev)
      <4>1. Says({}, dropped[c], log, view[c], known[c], prev, v)
        BY <2>2, <3>1 DEF Settled, BothSay
      <4>2. QED
        BY <3>1, <4>1 DEF Says
    <3>2. ASSUME v \in vouched[c], v \notin Mentions(delta)
          PROVE  AgreeOn(v, answer[c], prev)
      <4>1. Says({}, dropped[c], log, answer[c], vouched[c], prev, v)
        BY <2>2, <3>2 DEF Settled, BothSay
      <4>2. QED
        BY <3>2, <4>1 DEF Says
    <3>3. BothSay(c, prev, v)' =
            (/\ Says({}, dropped[c], lg, view[c], known[c] \ Mentions(delta), prev, v)
             /\ Says({}, dropped[c], lg, answer[c], vouched[c] \ Mentions(delta), prev, v))
      BY <1>1, <1>2, <1>7, <2>3 DEF BothSay, Says
    <3>4. QED
      BY <3>1, <3>2, <3>3 DEF Says
  <2>5. QED
    BY <2>4 DEF Settled
<1>8. QED
  BY <1>6, <1>7

LEMMA DeliverSettled ==
  ASSUME IInv, Typed, NEW c \in Client, Settled(c), Deliver(c)
  PROVE  Settled(c)'
<1> DEFINE f == inFlight[c]
           d == log[f]
           out == Out(c)
           vw == ApplyDelta(view[c], d)
           news == StillNews(c, f)
           kn == (known[c] \ Mentions(d)) \union news
           vo == (vouched[c] \ Mentions(d)) \union {v \in news : AgreeOn(v, answer[c], d.updates)}
<1>1. f \in out /\ (\A m \in out : m # f => f < m) /\ Out(c)' = out \ {f}
  BY WriteOut DEF Deliver
<1>2. /\ view'[c] = vw /\ known'[c] = kn /\ vouched'[c] = vo /\ answer' = answer
      /\ log' = log /\ prev' = prev /\ loop' = loop /\ delta' = delta /\ dropped' = dropped
  BY DEF Deliver, Typed, loopVars, PumpWriteOk
<1>3. out \in SUBSET Nat /\ d \in Delta
  BY <1>1 DEF IInv, TypeOK, Out, Typed
<1>4. ASSUME NEW v \in Vehicle, v \in Mentions(d), v \in news
      PROVE  \A m \in dropped[c] : f < m => v \notin Mentions(log[m])
  BY <1>4 DEF StillNews
<1>5. ASSUME NEW v \in Vehicle, ~(loop = "send" /\ v \in Mentions(delta))
      PROVE  /\ Says(out \ {f}, dropped[c], log, vw, kn, prev, v)
             /\ Says(out \ {f}, dropped[c], log, answer[c], vo, prev, v)
  <2>1. /\ Says(out, dropped[c], log, view[c], known[c], prev, v)
        /\ Says(out, dropped[c], log, answer[c], vouched[c], prev, v)
    BY <1>5 DEF Settled, BothSay
  <2>2. v \in Mentions(d) => AgreeOn(v, vw, d.updates)
    <3>1. AgreeOn(v, d.updates, d.updates)
      BY DEF AgreeOn
    <3>2. QED
      BY <1>3, <3>1, ApplyAgrees
  <2>3. v \notin Mentions(d) => (v \in kn => v \in known[c]) /\ (v \in vo => v \in vouched[c])
    BY DEF StillNews
  <2>4. v \in Mentions(d) => (v \in kn => v \in news)
                             /\ (v \in vo => v \in news /\ AgreeOn(v, answer[c], d.updates))
    OBVIOUS
  <2>5. v \notin Mentions(d) /\ AgreeOn(v, view[c], prev) => AgreeOn(v, vw, prev)
    BY <1>3, ApplyAgrees
  <2>6. d = log[f]
    OBVIOUS
  <2> HIDE DEF f, d, out, vw, news, kn, vo
  <2>7. Says(out \ {f}, dropped[c], log, vw, kn, prev, v)
    BY <1>1, <1>3, <1>4, <2>1, <2>2, <2>3, <2>4, <2>5, <2>6, SaysDelivered
  <2>8. Says(out \ {f}, dropped[c], log, answer[c], vo, prev, v)
    BY <1>1, <1>3, <1>4, <2>1, <2>3, <2>4, <2>6, SaysDelivered
  <2>9. QED
    BY <2>7, <2>8
<1>6. ASSUME NEW v \in Vehicle
      PROVE  BothSay(c, prev, v)' =
               (/\ Says(out \ {f}, dropped[c], log, vw, kn, prev, v)
                /\ Says(out \ {f}, dropped[c], log, answer[c], vo, prev, v))
  <2> HIDE DEF vw, kn, vo
  <2>1. QED
    BY <1>1, <1>2 DEF BothSay, Says
<1>7. QED
  BY <1>2, <1>5, <1>6 DEF Settled

(* What All answers may be ahead of the stream: the stream vouches for it  *)
(* where it is not, and the Broadcasts on their way still have the last    *)
(* word on what they mention.                                              *)
LEMMA AsksSettled ==
  ASSUME IInv, Typed, NEW c \in Client, Settled(c), HydrateAsks(c)
  PROVE  Settled(c)'
<1> DEFINE vo == {v \in Vehicle : AgreeOn(v, vehicles, prev)}
<1>1. /\ answer'[c] = vehicles /\ vouched'[c] = vo /\ view' = view /\ known' = known
      /\ UNCHANGED <<vars, feedVars, loopVars>>
  BY DEF HydrateAsks, Typed
<1>2. Out(c)' = Out(c) /\ dropped' = dropped
  BY <1>1, OutStays DEF vars, hubVars, chanVars
<1>3. ASSUME NEW v \in Vehicle, BothSay(c, prev, v)
      PROVE  Says(Out(c), dropped[c], log, vehicles, vo, prev, v)
  <2>1. v \in vo => AgreeOn(v, vehicles, prev)
    OBVIOUS
  <2>2. QED
    BY <1>3, <2>1 DEF BothSay, Says
<1>4. ASSUME NEW v \in Vehicle
      PROVE  BothSay(c, prev, v)' =
               (/\ Says(Out(c), dropped[c], log, view[c], known[c], prev, v)
                /\ Says(Out(c), dropped[c], log, vehicles, vo, prev, v))
  <2> HIDE DEF vo
  <2>1. QED
    BY <1>1, <1>2 DEF BothSay, Says, loopVars
<1>5. QED
  BY <1>1, <1>3, <1>4 DEF Settled, BothSay, loopVars

(* What held for the response holds for the view it replaces.              *)
LEMMA ArrivesSettled ==
  ASSUME IInv, Typed, NEW c \in Client, Settled(c), HydrateArrives(c)
  PROVE  Settled(c)'
<1>1. /\ view'[c] = answer[c] /\ known'[c] = vouched[c] /\ answer'[c] = EmptySnapshot
      /\ vouched'[c] = {} /\ UNCHANGED <<vars, feedVars, loopVars>>
  BY DEF HydrateArrives, Typed
<1>2. Out(c)' = Out(c) /\ dropped' = dropped
  BY <1>1, OutStays DEF vars, hubVars, chanVars
<1>3. ASSUME NEW v \in Vehicle, BothSay(c, prev, v)
      PROVE  Says(Out(c), dropped[c], log, EmptySnapshot, {}, prev, v)
  BY <1>3 DEF BothSay, Says
<1>4. ASSUME NEW v \in Vehicle
      PROVE  BothSay(c, prev, v)' =
               (/\ Says(Out(c), dropped[c], log, answer[c], vouched[c], prev, v)
                /\ Says(Out(c), dropped[c], log, EmptySnapshot, {}, prev, v))
  BY <1>1, <1>2 DEF BothSay, Says, loopVars
<1>5. QED
  BY <1>1, <1>3, <1>4 DEF Settled, BothSay, loopVars

(* A Send that discards the delta takes the stream's word for what the     *)
(* delta mentions away; the others change nothing of the last word.        *)
LEMMA SendSettled ==
  ASSUME IInv, IInv', Typed, NEW c \in Client, Attentive(c)', Settled(c),
         NEW d \in Client, SendToOne(d)
  PROVE  Settled(c)'
<1>1. /\ BroadcastSend(d) /\ UNCHANGED <<feedVars, loopVars, view, fetch, answer>>
      /\ c # d => known'[c] = known[c] /\ vouched'[c] = vouched[c]
  BY DEF SendToOne, Typed
<1>2. CASE c # d
  <2>1. /\ published' = published /\ inFlight' = inFlight /\ pending' = pending \ {d}
        /\ sendCh'[c] = sendCh[c] /\ dropped'[c] = dropped[c]
    BY <1>1, <1>2 DEF BroadcastSend, SendQueues, SendFindsDone, SendDrops, IInv, TypeOK
  <2>2. Out(c)' = Out(c)
    BY <1>2, <2>1, OutStays
  <2>3. QED
    BY <1>1, <1>2, <2>1, <2>2, SettledStays DEF loopVars
<1>3. CASE c = d /\ SendQueues(c)
  <2>1. ~Overflows(c) /\ dropped' = dropped
    BY <1>3, CapAssumption DEF SendQueues, Overflows, IInv, TypeOK
  <2>2. known'[c] = known[c] /\ vouched'[c] = vouched[c]
    BY <1>3, <2>1 DEF SendToOne, Typed
  <2>3. Out(c)' = Out(c)
    BY <1>1, <1>3, SendOut
  <2>4. QED
    BY <1>1, <2>1, <2>2, <2>3, SettledStays DEF loopVars
<1>4. CASE c = d /\ SendFindsDone(c)
  <2>1. c \notin clients' /\ handler' = handler /\ handler[c] \in Cleaning
    BY <1>1, <1>4 DEF BroadcastSend, SendFindsDone, lifeVars, IInv, ClientInv, AtRest
  <2>2. QED
    BY <2>1 DEF Attentive, Cleaning
<1>5. CASE c = d /\ SendDrops(c)
  <2> DEFINE N == published
  <2>1. /\ Overflows(c) /\ dropped'[c] = dropped[c] \union {N}
    BY <1>5 DEF SendDrops, Overflows, IInv, TypeOK
  <2>2. /\ known'[c] = known[c] \ Mentions(log[N]) /\ vouched'[c] = vouched[c] \ Mentions(log[N])
    BY <1>5, <2>1 DEF SendToOne, Typed
  <2>3. N \in Out(c) /\ Out(c)' = Out(c) \ {N}
    BY <1>1, <1>5, DropOut
  <2> HIDE DEF N
  <2>4. ASSUME NEW v \in Vehicle, BothSay(c, prev, v)
        PROVE  BothSay(c, prev, v)'
    <3>1. Says(Out(c) \ {N}, dropped[c] \union {N}, log, view[c], known[c] \ Mentions(log[N]), prev, v)
      BY <2>3, <2>4, SaysMissed DEF BothSay
    <3>2. Says(Out(c) \ {N}, dropped[c] \union {N}, log, answer[c],
               vouched[c] \ Mentions(log[N]), prev, v)
      BY <2>3, <2>4, SaysMissed DEF BothSay
    <3>3. BothSay(c, prev, v)' =
            (/\ Says(Out(c) \ {N}, dropped[c] \union {N}, log, view[c],
                     known[c] \ Mentions(log[N]), prev, v)
             /\ Says(Out(c) \ {N}, dropped[c] \union {N}, log, answer[c],
                     vouched[c] \ Mentions(log[N]), prev, v))
      BY <1>1, <2>1, <2>2, <2>3 DEF BothSay, Says, loopVars
    <3>4. QED
      BY <3>1, <3>2, <3>3
  <2>5. QED
    BY <1>1, <2>4 DEF Settled, loopVars
<1>6. QED
  BY <1>1, <1>2, <1>3, <1>4, <1>5 DEF BroadcastSend

(* The steps of a connection change nothing of the last word.              *)
LEMMA ConnectionSettled ==
  ASSUME IInv, NEW c \in Client, Settled(c), NEW d \in Client, OtherClientStep(d)
  PROVE  Settled(c)'
<1>1. UNCHANGED <<feedVars, loopVars, viewVars>>
  BY DEF OtherClientStep
<1>2. Out(c)' = Out(c)
  <2>1. CASE HandlerStep(d)
    <3>1. published' = published /\ pending' = pending /\ inFlight' = inFlight /\ sendCh' = sendCh
      BY <2>1 DEF HandlerStep, LockFreeStep, LockedStep, Accept, Register, StartPumps, ReadFails,
                  CloseDone, CloseConn, Unregister, Return, hubVars, chanVars
    <3>2. QED
      BY <3>1, OutStays
  <2>2. CASE PumpTake(d)
    <3>1. CASE c = d
      BY <2>2, <3>1, TakeOut
    <3>2. CASE c # d
      BY <2>2, <3>2, OutStays DEF PumpTake, hubVars, IInv, TypeOK
    <3>3. QED
      BY <3>1, <3>2
  <2>3. CASE PumpStop(d) \/ PumpWriteFails(d) \/ ConnBreaks(d)
    BY <2>3, OutStays DEF PumpStop, PumpWriteFails, ConnBreaks, hubVars, chanVars
  <2>4. QED
    BY <2>1, <2>2, <2>3 DEF OtherClientStep
<1>3. dropped' = dropped
  BY DEF OtherClientStep, HandlerStep, LockFreeStep, LockedStep, Accept, Register, StartPumps, ReadFails,
         CloseDone, CloseConn, Unregister, Return, PumpTake, PumpStop, PumpWriteFails, ConnBreaks,
         chanVars
<1>4. QED
  BY <1>1, <1>2, <1>3, SettledStays DEF loopVars, viewVars

LEMMA SettledStep ==
  ASSUME StreamInv, IInv', [TrackerNext]_allVars, NEW c \in Client, Attentive(c)'
  PROVE  Settled(c)'
<1>1. IInv /\ TypeOK /\ Typed /\ InHand /\ DropsBounded /\ [Next]_vars
  BY HubStep DEF StreamInv, IInv
<1>2. Attentive(c) /\ Settled(c)
  BY <1>1, AttentiveBefore DEF StreamInv
<1>3. CASE UNCHANGED <<vars, log, prev, viewVars>> /\ (loop' = "send" <=> loop = "send")
           /\ (loop = "send" => delta' = delta)
  <2>1. Out(c)' = Out(c)
    BY <1>3, OutStays DEF vars, hubVars, chanVars
  <2>2. QED
    BY <1>2, <1>3, <2>1, SettledStays DEF viewVars, vars, chanVars
<1>4. CASE UNCHANGED allVars \/ TrackerFinished
  BY <1>3, <1>4 DEF TrackerFinished, allVars, loopVars
<1>5. ASSUME NEW v \in Vehicle, NEW u \in VehicleUpdate, UpdateVehicle(v, u)
      PROVE  Settled(c)'
  BY <1>3, <1>5 DEF UpdateVehicle, loopVars
<1>6. ASSUME NEW S \in SUBSET DOMAIN vehicles, PruneVehicles(S)
      PROVE  Settled(c)'
  BY <1>3, <1>6 DEF PruneVehicles, loopVars
<1>7. CASE Tick
  BY <1>3, <1>7 DEF Tick
<1>8. CASE EncodeTick
  BY <1>1, <1>2, <1>8, EncodeSettled
<1>9. CASE Publish
  BY <1>1, <1>2, <1>9, PublishSettled DEF Attentive
<1>10. CASE PublishEnd
  <2>1. Out(c)' = Out(c)
    BY <1>10, OutStays DEF PublishEnd, BroadcastEnd, chanVars
  <2>2. QED
    BY <1>2, <1>10, <2>1, SettledStays DEF PublishEnd, BroadcastEnd, viewVars, chanVars
<1>11. ASSUME NEW d \in Client, SendToOne(d)
       PROVE  Settled(c)'
  BY <1>1, <1>2, <1>11, SendSettled
<1>12. ASSUME NEW d \in Client, Deliver(d)
       PROVE  Settled(c)'
  <2>1. CASE d = c
    BY <1>1, <1>2, <1>12, <2>1, DeliverSettled
  <2>2. CASE d # c
    <3>1. /\ published' = published /\ pending' = pending /\ inFlight'[c] = inFlight[c]
          /\ sendCh' = sendCh /\ view'[c] = view[c] /\ known'[c] = known[c]
          /\ answer' = answer /\ vouched'[c] = vouched[c] /\ dropped' = dropped
          /\ UNCHANGED loopVars
      BY <1>1, <1>12, <2>2 DEF Deliver, PumpWriteOk, hubVars, TypeOK, Typed
    <3>2. Out(c)' = Out(c)
      BY <3>1, OutStays
    <3>3. QED
      BY <1>2, <3>1, <3>2, SettledStays DEF loopVars
  <2>3. QED
    BY <2>1, <2>2
<1>13. ASSUME NEW d \in Client, HydrateAsks(d) \/ HydrateArrives(d)
       PROVE  Settled(c)'
  <2>1. CASE d = c
    BY <1>1, <1>2, <1>13, <2>1, AsksSettled, ArrivesSettled
  <2>2. CASE d # c
    <3>1. /\ view'[c] = view[c] /\ known'[c] = known[c] /\ answer'[c] = answer[c]
          /\ vouched'[c] = vouched[c] /\ UNCHANGED <<vars, loopVars>>
      BY <1>1, <1>13, <2>2 DEF HydrateAsks, HydrateArrives, Typed
    <3>2. Out(c)' = Out(c)
      BY <3>1, OutStays DEF vars, hubVars, chanVars
    <3>3. QED
      BY <1>2, <3>1, <3>2, SettledStays DEF loopVars, vars, chanVars
  <2>3. QED
    BY <2>1, <2>2
<1>14. ASSUME NEW d \in Client, OtherClientStep(d)
       PROVE  Settled(c)'
  BY <1>1, <1>2, <1>14, ConnectionSettled
<1>15. QED
  BY <1>4, <1>5, <1>6, <1>7, <1>8, <1>9, <1>10, <1>11, <1>12, <1>13, <1>14 DEF TrackerNext, LoopStep

------------------------------------------------------------------------------
(* The strengthening is inductive, next to the hub's own.                  *)
THEOREM StreamInductive == TrackerSafeSpec => []StreamInv
<1>1. TrackerInit /\ IInv => StreamInv
  <2> SUFFICES ASSUME TrackerInit, IInv PROVE StreamInv
    OBVIOUS
  <2>1. Typed
    <3>1. changes \in 0..MaxChanges
      BY ChangesAssumption DEF TrackerInit
    <3>2. log \in Seq(Delta) /\ Len(log) = published
      BY DEF TrackerInit, Init
    <3>3. QED
      BY <3>1, <3>2, EmptyTypes DEF TrackerInit, Typed
  <2>2. InHand
    BY DEF TrackerInit, InHand
  <2>3. ASSUME NEW c \in Client
        PROVE  Settled(c)
    <3>1. Out(c) = {} /\ known[c] = {} /\ vouched[c] = {}
      BY NothingBeforeRegister DEF TrackerInit, Init
    <3>2. QED
      BY <3>1 DEF Settled, BothSay, Says
  <2>4. DropsBounded
    BY DEF TrackerInit, Init, DropsBounded
  <2>5. QED
    BY <2>1, <2>2, <2>3, <2>4 DEF StreamInv
<1>2. StreamInv /\ IInv' /\ [TrackerNext]_allVars => StreamInv'
  <2> SUFFICES ASSUME StreamInv, IInv', [TrackerNext]_allVars PROVE StreamInv'
    OBVIOUS
  <2>1. Typed' /\ InHand' /\ DropsBounded'
    BY TypedStep, InHandStep, DropsStep, HubStep DEF StreamInv
  <2>2. \A c \in Client : Attentive(c)' => Settled(c)'
    BY SettledStep
  <2>3. QED
    BY <2>1, <2>2 DEF StreamInv
<1>3. TrackerSafeSpec => []IInv
  BY HubInside, Inductive
<1>4. QED
  BY <1>1, <1>2, <1>3, PTL DEF TrackerSafeSpec

(* TrackerTypeOK: the state manager's map, the broadcast loop of runServe, *)
(* the hub and the consumers keep their types, and the loop never stops.   *)
THEOREM TrackerTypeCorrect == TrackerSafeSpec => []TrackerTypeOK
<1>1. StreamInv => TrackerTypeOK
  <2> SUFFICES ASSUME StreamInv PROVE TrackerTypeOK
    OBVIOUS
  <2>1. \A n \in 1..Len(log) : log[n].updates \in Snapshot /\ log[n].removed \subseteq Vehicle
    BY DEF StreamInv, Typed, Delta
  <2>2. QED
    BY <2>1 DEF StreamInv, Typed, IInv, TrackerTypeOK
<1>2. QED
  BY <1>1, StreamInductive, PTL

(* FollowsStream: a registered consumer that has read all it was sent      *)
(* agrees with DeltaEncoder.prev on every vehicle the stream vouches for,  *)
(* however Register, All, the response of GET /api/vehicles, encoding and  *)
(* the Sends interleave, and whatever full buffers discarded.              *)
THEOREM StreamFollowed == TrackerSafeSpec => []FollowsStream
<1>1. StreamInv => FollowsStream
  <2> SUFFICES ASSUME StreamInv, NEW c \in clients, Drained(c), NEW v \in known[c]
               PROVE  AgreeOn(v, view[c], prev)
    BY DEF FollowsStream
  <2>1. c \in Client
    BY DEF StreamInv, IInv, TypeOK
  <2>2. v \in Vehicle
    BY <2>1 DEF StreamInv, Typed
  <2>3. Out(c) = {}
    BY DEF Drained, Out, Elem
  <2>4. Settled(c)
    BY <2>1 DEF StreamInv, Attentive
  <2>5. Says(Out(c), dropped[c], log, view[c], known[c], prev, v)
    BY <2>2, <2>4 DEF Settled, Drained, BothSay
  <2>6. QED
    BY <2>3, <2>5 DEF Says
<1>2. QED
  BY <1>1, StreamInductive, PTL
==============================================================================
