------------------------- MODULE ServeLifecycle_proofs -------------------------
(***************************************************************************)
(* For any number of requests: the store is open while a handler runs, and *)
(* the exit status tells why the process ended.                            *)
(***************************************************************************)
EXTENDS ServeLifecycle, TLAPS

\* Where main may stand with the server not yet created.
Early == {"open", "migrate", "import", "notify", "spawn", "start"}

\* The store is open exactly between OpenStore and CloseStore.
StoreState ==
  store = "open" <=> main \notin {"open", "return"}

\* Until main spawns it, the starter and what it works on are untouched; the
\* other commands never get there.
NotStarted ==
  /\ main \in Early =>
       /\ starter = "none" /\ server = "new" /\ result = "nil" /\ failure = FALSE
       /\ errCh.buffered = FALSE /\ errCh.closed = FALSE
       /\ \A r \in Request : request[r] # "handled"
  /\ command.name # "serve" =>
       /\ main \in {"open", "migrate", "import", "close", "return"}
       /\ starter = "none" /\ server = "new"
       /\ \A r \in Request : request[r] # "handled"
  /\ main = "import" => command.name # "serve"

\* Who has last changed the server.
ServerState ==
  /\ server = "listening" => main \in {"select", "shutdown"}
  /\ server = "closed" => main \in {"draining", "stop", "close", "return"}
  /\ main = "draining" => server = "closed"
  /\ main \in {"select", "shutdown", "draining"} => result = "nil"
  /\ starter = "starting" => server \in {"new", "closed"}
  /\ server = "new" => starter \in {"none", "starting"}
  /\ starter = "none" => server = "new"
  /\ server = "new" /\ starter # "none" => main \in {"select", "shutdown"}
  /\ main \in {"select", "shutdown", "draining"} => starter # "none"
  /\ errCh.buffered \/ errCh.closed => server \in {"broken", "closed"}
  /\ starter \in {"failed", "closing", "ended"} => server \in {"broken", "closed"}

\* Once main is past its select no handler runs, unless the listener broke.
Drained ==
  main \in {"stop", "close", "return"} /\ server # "broken" =>
    \A r \in Request : request[r] # "handled"

\* What broke the server is on its way to main or has arrived there.
ErrorTravels ==
  /\ server = "broken" => \/ starter = "failed"
                          \/ errCh.buffered
                          \/ result = "error"
  /\ starter = "failed" => ~errCh.closed
  /\ result = "error" \/ errCh.buffered \/ starter = "failed" => failure
  /\ failure /\ command.name # "serve" => result = "error"

\* Why ctx is done, and why main has left its select.
Reasons ==
  /\ ctx => asked \/ main \in {"close", "return"}
  /\ main \in {"shutdown", "draining"} => asked
  /\ main \in {"stop", "close", "return"} /\ command.name = "serve" =>
       asked \/ result = "error"

ExitState ==
  /\ exit = "exit0" => main = "return" /\ result = "nil"
  /\ exit = "exit1" => main = "return" /\ result = "error"

IInv ==
  /\ TypeOK
  /\ StoreState /\ NotStarted /\ ServerState
  /\ Drained /\ ErrorTravels /\ Reasons /\ ExitState

(* The steps of the main goroutine. *)
LEMMA MainKeeps ==
  ASSUME IInv, MainStep
  PROVE  IInv'
<1> USE DEF IInv, TypeOK, StoreState, NotStarted, Early, ServerState, Drained, ErrorTravels,
    Reasons, ExitState, vars, world, mainVars, startVars, loopVars, Running
<1>1. CASE OpenStore
  <2>1. CASE main' = "migrate" /\ UNCHANGED <<result, failure>>
    BY <1>1, <2>1 DEF OpenStore, MainTries
  <2>2. CASE main' = "return" /\ result' = "error" /\ failure' = TRUE
    BY <1>1, <2>2 DEF OpenStore, MainTries
  <2>3. QED
    BY <1>1, <2>1, <2>2 DEF OpenStore, MainTries
<1>2. CASE Migrate
  <2> DEFINE next == CASE command.name = "migrate" -> "close"
                       [] command.name = "import" -> "import"
                       [] command.name = "serve" -> "notify"
  <2>1. /\ command.name = "migrate" => next = "close"
        /\ command.name = "import" => next = "import"
        /\ command.name = "serve" => next = "notify"
    OBVIOUS
  <2>2. command.name \in {"migrate", "import", "serve"}
    BY DEF Command
  <2>3. MainTries("migrate", next, "close") /\ UNCHANGED store
    BY <1>2 DEF Migrate
  <2> HIDE DEF next
  <2>4. CASE main' = next /\ UNCHANGED <<result, failure>>
    BY <2>1, <2>2, <2>3, <2>4 DEF MainTries
  <2>5. CASE main' = "close" /\ result' = "error" /\ failure' = TRUE
    BY <2>3, <2>5 DEF MainTries
  <2>6. QED
    BY <2>3, <2>4, <2>5 DEF MainTries
<1>3. CASE Import
  <2>1. CASE main' = "close" /\ UNCHANGED <<result, failure>>
    BY <1>3, <2>1 DEF Import, MainTries
  <2>2. CASE main' = "close" /\ result' = "error" /\ failure' = TRUE
    BY <1>3, <2>2 DEF Import, MainTries
  <2>3. QED
    BY <1>3, <2>1, <2>2 DEF Import, MainTries
<1>4. CASE NotifyContext
  BY <1>4 DEF NotifyContext, MainMoves
<1>5. CASE SpawnLoops
  BY <1>5 DEF SpawnLoops, MainMoves
<1>6. CASE SpawnStart
  BY <1>6 DEF SpawnStart, MainMoves
<1>7. CASE SelectErr
  BY <1>7 DEF SelectErr, MainMoves
<1>8. CASE SelectDone
  BY <1>8 DEF SelectDone, MainMoves
<1>9. CASE ShutdownBegins
  BY <1>9 DEF ShutdownBegins, MainMoves
<1>10. CASE ShutdownEnds
  BY <1>10 DEF ShutdownEnds, MainMoves
<1>11. CASE Stop
  BY <1>11 DEF Stop, MainMoves
<1>12. CASE CloseStore
  BY <1>12 DEF CloseStore, MainMoves
<1>13. CASE Exit
  BY <1>13 DEF Exit, MainMoves
<1>14. QED
  BY <1>1, <1>2, <1>3, <1>4, <1>5, <1>6, <1>7, <1>8, <1>9, <1>10, <1>11, <1>12, <1>13
  DEF MainStep

(* The goroutine of srv.Start. *)
LEMMA StarterKeeps ==
  ASSUME IInv, StarterStep \/ StartFails
  PROVE  IInv'
<1> USE DEF IInv, TypeOK, StoreState, NotStarted, Early, ServerState, Drained, ErrorTravels,
    Reasons, ExitState, vars, world, mainVars, startVars, loopVars, Running
<1>1. CASE Listen
  BY <1>1 DEF Listen, StarterMoves
<1>2. CASE ServerClosed
  BY <1>2 DEF ServerClosed, StarterMoves
<1>3. CASE SendErr
  BY <1>3 DEF SendErr, StarterMoves
<1>4. CASE CloseErrCh
  <2>1. errCh'.closed = TRUE /\ errCh'.buffered = errCh.buffered
    BY <1>4 DEF CloseErrCh
  <2>2. errCh' \in [buffered : BOOLEAN, closed : BOOLEAN]
    BY <1>4 DEF CloseErrCh
  <2>3. QED
    BY <1>4, <2>1, <2>2 DEF CloseErrCh, StarterMoves
<1>5. CASE StartFails
  BY <1>5 DEF StartFails, StarterMoves
<1>6. QED
  BY <1>1, <1>2, <1>3, <1>4, <1>5 DEF StarterStep

(* A request. *)
LEMMA RequestKeeps ==
  ASSUME NEW r \in Request, IInv, RequestStep(r)
  PROVE  IInv'
<1> USE DEF IInv, TypeOK, StoreState, NotStarted, Early, ServerState, Drained, ErrorTravels,
    Reasons, ExitState, vars, world, mainVars, startVars, loopVars, Running
<1>1. CASE RequestArrives(r)
  BY <1>1 DEF RequestArrives, RequestMoves
<1>2. CASE RequestEnds(r)
  BY <1>2 DEF RequestEnds, RequestMoves
<1>3. CASE RequestHijacks(r)
  BY <1>3 DEF RequestHijacks, RequestMoves
<1>4. CASE HijackedEnds(r)
  BY <1>4 DEF HijackedEnds, RequestMoves
<1>5. QED
  BY <1>1, <1>2, <1>3, <1>4 DEF RequestStep

(* The poller, of which only the panic concerns the others. *)
LEMMA PollerKeeps ==
  ASSUME IInv, PollerStep
  PROVE  IInv'
<1> USE DEF IInv, TypeOK, StoreState, NotStarted, Early, ServerState, Drained, ErrorTravels,
    Reasons, ExitState, vars, world, mainVars, startVars, loopVars, Running
<1>1. CASE NewTicker
  BY <1>1 DEF NewTicker, PollerMoves
<1>2. CASE PollStarts
  BY <1>2 DEF PollStarts, PollerMoves
<1>3. CASE PollEnds
  BY <1>3 DEF PollEnds, PollerMoves
<1>4. CASE PollerStops
  BY <1>4 DEF PollerStops, PollerMoves
<1>5. QED
  BY <1>1, <1>2, <1>3, <1>4 DEF PollerStep

(* The prune ticker and the broadcast loop. *)
LEMMA LoopKeeps ==
  ASSUME NEW l \in Loops, IInv, LoopStep(l)
  PROVE  IInv'
BY DEF LoopStep, LoopMoves, Loops, IInv, TypeOK, StoreState, NotStarted, Early, ServerState,
       Drained, ErrorTravels, Reasons, ExitState, Running, mainVars, startVars

(* A signal, caught or not. *)
LEMMA SignalKeeps ==
  ASSUME IInv, Signal
  PROVE  IInv'
<1> USE DEF IInv, TypeOK, StoreState, NotStarted, Early, ServerState, Drained, ErrorTravels,
    Reasons, ExitState, mainVars, startVars, loopVars, Running
<1>1. CASE Caught
  BY <1>1 DEF Signal
<1>2. CASE ~Caught
  BY <1>2 DEF Signal
<1>3. QED
  BY <1>1, <1>2

(* Nothing has happened yet. *)
LEMMA InitIInv == Init => IInv
<1> SUFFICES ASSUME Init PROVE IInv
  OBVIOUS
<1>1. TypeOK
  BY DEF Init, TypeOK
<1>2. StoreState /\ NotStarted /\ ServerState
  BY DEF Init, StoreState, NotStarted, Early, ServerState, Command
<1>3. Drained /\ ErrorTravels /\ Reasons /\ ExitState
  BY DEF Init, Drained, ErrorTravels, Reasons, ExitState
<1>4. QED
  BY <1>1, <1>2, <1>3 DEF IInv

LEMMA StepIInv == IInv /\ [Next]_vars => IInv'
<1> SUFFICES ASSUME IInv, [Next]_vars PROVE IInv'
  OBVIOUS
<1>1. CASE UNCHANGED vars
  <2>1. TypeOK'
    BY <1>1 DEF IInv, TypeOK, vars, world, mainVars, startVars, loopVars
  <2>2. StoreState' /\ NotStarted' /\ Drained'
    BY <1>1 DEF IInv, StoreState, NotStarted, Early, Drained, vars, world, mainVars,
                startVars, loopVars
  <2>3. ServerState'
    BY <1>1 DEF IInv, ServerState, vars, world, mainVars, startVars, loopVars
  <2>4. ErrorTravels' /\ Reasons' /\ ExitState'
    BY <1>1 DEF IInv, ErrorTravels, Reasons, ExitState, vars, world, mainVars, startVars, loopVars
  <2>5. QED
    BY <2>1, <2>2, <2>3, <2>4 DEF IInv
<1>2. CASE Next
  <2>1. CASE MainStep
    BY <2>1, MainKeeps
  <2>2. CASE StarterStep \/ StartFails
    BY <2>2, StarterKeeps
  <2>3. CASE \E r \in Request : RequestStep(r)
    BY <2>3, RequestKeeps
  <2>4. CASE PollerStep
    BY <2>4, PollerKeeps
  <2>5. CASE \E l \in Loops : LoopStep(l)
    BY <2>5, LoopKeeps
  <2>6. CASE Signal
    BY <2>6, SignalKeeps
  <2>7. CASE Ended
    BY <2>7, <1>1 DEF Ended
  <2>8. QED
    BY <1>2, <2>1, <2>2, <2>3, <2>4, <2>5, <2>6, <2>7 DEF Next
<1>3. QED
  BY <1>1, <1>2

LEMMA Inductive == Spec => []IInv
BY InitIInv, StepIInv, PTL DEF Spec

(* The variables keep their types, and a command that returns has closed   *)
(* what it opened of the store, also when store.New fails.                 *)
THEOREM TypeCorrect == Spec => []TypeOK
<1>1. IInv => TypeOK
  BY DEF IInv
<1>2. QED
  BY <1>1, Inductive, PTL

(* runServe closes the store only when Shutdown has seen the last handler  *)
(* return, or when there was no server or the listener broke.              *)
THEOREM StoreCorrect == Spec => []StoreOutlivesRequests
<1>1. IInv => StoreOutlivesRequests
  BY DEF IInv, TypeOK, StoreState, NotStarted, Early, ServerState, Drained, ErrorTravels,
    Reasons, ExitState, StoreOutlivesRequests, Running
<1>2. QED
  BY <1>1, Inductive, PTL

(* The exit status of main tells why the command ended.                    *)
THEOREM ExitCorrect == Spec => []ExitExplained
<1>1. IInv => ExitExplained
  BY DEF IInv, TypeOK, StoreState, NotStarted, Early, ServerState, Drained, ErrorTravels,
    Reasons, ExitState, ExitExplained
<1>2. QED
  BY <1>1, Inductive, PTL
==============================================================================
