----------------------------- MODULE ServeLifecycle -----------------------------
(***************************************************************************)
(* The process of the tracker command (cmd/tracker/main.go): migrate,      *)
(* import, and above all serve with its goroutines, from the opening of    *)
(* the store to the exit status.                                           *)
(*                                                                         *)
(* net/http is external: Shutdown closes the listener, makes Start return  *)
(* ErrServerClosed and waits for the requests that are being handled, but  *)
(* not for connections a handler has hijacked, as websocket.Accept does.   *)
(* So are the runtime and the signals: NotifyContext catches SIGINT and    *)
(* SIGTERM until stop is called, before and after that they kill.          *)
(***************************************************************************)
EXTENDS Integers

CONSTANTS
  Request  \* HTTP requests, each made at most once

VARIABLES
  command,   \* os.Args[1] and the flags of serve
  main,      \* where the main goroutine stands
  result,    \* what runMigrate, runImport or runServe is going to return
  exit,      \* how the process ended
  ctx,       \* ctx.Done() is closed
  store,     \* the *sql.DB behind the Store
  server,    \* the http.Server
  starter,   \* the goroutine that calls srv.Start
  errCh,     \* its channel: what is buffered, and whether it is closed
  request,   \* the state of each request
  poller,    \* Poller.Run
  loop,      \* the prune ticker and the broadcast loop
  asked,     \* history: a signal has been caught
  failure    \* history: a step of main or Start has failed

mainVars == <<main, result, store, failure>>
startVars == <<server, starter, errCh>>
loopVars == <<poller, loop>>
world == <<command, request, asked>>
vars == <<world, mainVars, startVars, loopVars, exit, ctx>>

Command ==
  [name : {"migrate", "import"}]
    \union [name : {"serve"}, feed : BOOLEAN, positiveInterval : BOOLEAN]

Loops == {"prune", "broadcast"}

Running == exit = "running"

------------------------------------------------------------------------------
Init ==
  /\ command \in Command
  /\ main = "open"
  /\ result = "nil"
  /\ exit = "running"
  /\ ctx = FALSE
  /\ store = "none"
  /\ server = "new"
  /\ starter = "none"
  /\ errCh = [buffered |-> FALSE, closed |-> FALSE]
  /\ request = [r \in Request |-> "none"]
  /\ poller = "none"
  /\ loop = [l \in Loops |-> "none"]
  /\ asked = FALSE
  /\ failure = FALSE

------------------------------------------------------------------------------
(* The main goroutine.                                                     *)

MainMoves(from, to) ==
  /\ Running
  /\ main = from
  /\ main' = to
  /\ UNCHANGED world

\* A step that may return an error, which the deferred calls carry to main.
MainTries(from, next, onError) ==
  /\ Running
  /\ main = from
  /\ \/ main' = next /\ UNCHANGED <<result, failure>>
     \/ main' = onError /\ result' = "error" /\ failure' = TRUE
  /\ UNCHANGED <<world, startVars, loopVars, exit, ctx>>

\* Mutant: the pool is not closed when the ping fails.
OpenStore_Leaks ==
  /\ MainTries("open", "migrate", "return")
  /\ store' = "open"

\* store.New: after a failed ping it closes the pool itself, and the Close of
\* the command is not deferred yet.
OpenStore ==
  /\ MainTries("open", "migrate", "return")
  /\ store' = IF main' = "migrate" THEN "open" ELSE "closed"

Migrate ==
  /\ MainTries("migrate",
       CASE command.name = "migrate" -> "close"
         [] command.name = "import" -> "import"
         [] command.name = "serve" -> "notify", "close")
  /\ UNCHANGED store

Import == MainTries("import", "close", "close") /\ UNCHANGED store

NotifyContext ==
  /\ MainMoves("notify", "spawn")
  /\ UNCHANGED <<result, store, failure, startVars, loopVars, exit, ctx>>

\* The go statements: the poller and the prune ticker with a feed URL only.
SpawnLoops ==
  /\ MainMoves("spawn", "start")
  /\ poller' = IF command.feed THEN "first" ELSE "none"
  /\ loop' = [l \in Loops |->
                IF l = "broadcast" \/ command.feed THEN "waiting" ELSE "none"]
  /\ UNCHANGED <<result, store, failure, startVars, exit, ctx>>

SpawnStart ==
  /\ MainMoves("start", "select")
  /\ starter' = "starting"
  /\ UNCHANGED <<result, store, failure, server, errCh, loopVars, exit, ctx>>

\* The closed channel yields nil once the buffer is empty.
SelectErr ==
  /\ MainMoves("select", "stop")
  /\ errCh.buffered \/ errCh.closed
  /\ result' = IF errCh.buffered THEN "error" ELSE "nil"
  /\ errCh' = [errCh EXCEPT !.buffered = FALSE]
  /\ UNCHANGED <<store, failure, server, starter, loopVars, exit, ctx>>

SelectDone ==
  /\ MainMoves("select", "shutdown")
  /\ ctx
  /\ UNCHANGED <<result, store, failure, startVars, loopVars, exit, ctx>>

ShutdownBegins ==
  /\ MainMoves("shutdown", "draining")
  /\ server' = "closed"
  /\ UNCHANGED <<result, store, failure, starter, errCh, loopVars, exit, ctx>>

\* Mutants: Close instead of Shutdown, and a server that also waits for the
\* connections it has handed over.
ShutdownEnds_AtOnce ==
  /\ MainMoves("draining", "stop")
  /\ UNCHANGED <<result, store, failure, startVars, loopVars, exit, ctx>>

ShutdownEnds_WaitsForHijacked ==
  /\ MainMoves("draining", "stop")
  /\ \A r \in Request : request[r] \notin {"handled", "hijacked"}
  /\ UNCHANGED <<result, store, failure, startVars, loopVars, exit, ctx>>

\* Shutdown(context.Background()): it has no other way out.
ShutdownEnds ==
  /\ MainMoves("draining", "stop")
  /\ \A r \in Request : request[r] # "handled"
  /\ UNCHANGED <<result, store, failure, startVars, loopVars, exit, ctx>>

\* The deferred calls of runServe, last one first: stop cancels ctx.
Stop ==
  /\ MainMoves("stop", "close")
  /\ ctx' = TRUE
  /\ UNCHANGED <<result, store, failure, startVars, loopVars, exit>>

CloseStore ==
  /\ MainMoves("close", "return")
  /\ store' = "closed"
  /\ UNCHANGED <<result, failure, startVars, loopVars, exit, ctx>>

\* func main: os.Exit(1) after an error, else it returns.  Either ends every
\* other goroutine where it stands.
Exit ==
  /\ MainMoves("return", "return")
  /\ exit' = IF result = "error" THEN "exit1" ELSE "exit0"
  /\ UNCHANGED <<result, store, failure, startVars, loopVars, ctx>>

------------------------------------------------------------------------------
(* The goroutine of srv.Start.                                             *)

StarterMoves(from, to) ==
  /\ Running
  /\ starter \in from
  /\ starter' = to
  /\ UNCHANGED <<world, main, result, store, loopVars, exit, ctx>>

Listen ==
  /\ StarterMoves({"starting"}, "serving")
  /\ server = "new"
  /\ server' = "listening"
  /\ UNCHANGED <<failure, errCh>>

\* The address cannot be bound, or Accept fails for good later on.
StartFails ==
  /\ StarterMoves({"starting", "serving"}, "failed")
  /\ server \in {"new", "listening"}
  /\ server' = "broken"
  /\ failure' = TRUE
  /\ UNCHANGED errCh

\* ErrServerClosed, also when Shutdown came before Start.
ServerClosed ==
  /\ StarterMoves({"starting", "serving"}, "closing")
  /\ server = "closed"
  /\ UNCHANGED <<failure, server, errCh>>

\* Mutants: the error is only logged, or the goroutine returns on it.
SendErr_LeftOut ==
  StarterMoves({"failed"}, "closing") /\ UNCHANGED <<failure, server, errCh>>

SendErr_Returns ==
  StarterMoves({"failed"}, "ended") /\ UNCHANGED <<failure, server, errCh>>

\* The channel has room for this one error: nobody need receive it.
SendErr ==
  /\ StarterMoves({"failed"}, "closing")
  /\ errCh' = [errCh EXCEPT !.buffered = TRUE]
  /\ UNCHANGED <<failure, server>>

CloseErrCh ==
  /\ StarterMoves({"closing"}, "ended")
  /\ errCh' = [errCh EXCEPT !.closed = TRUE]
  /\ UNCHANGED <<failure, server>>

------------------------------------------------------------------------------
(* The requests.  A handler may query the store until it returns; the one  *)
(* of /ws does not, and hijacks its connection.                            *)

RequestMoves(r, from, to) ==
  /\ Running
  /\ request[r] = from
  /\ request' = [request EXCEPT ![r] = to]
  /\ UNCHANGED <<command, mainVars, startVars, loopVars, exit, ctx, asked>>

RequestArrives(r) == server = "listening" /\ RequestMoves(r, "none", "handled")
RequestEnds(r) == RequestMoves(r, "handled", "done")
RequestHijacks(r) == RequestMoves(r, "handled", "hijacked")
HijackedEnds(r) == RequestMoves(r, "hijacked", "done")

------------------------------------------------------------------------------
(* Poller.Run, and the two loops of runServe: between two ticks all of     *)
(* them select on ctx.Done and their ticker.                               *)

PollerMoves(from, to) ==
  /\ Running
  /\ poller = from
  /\ poller' = to
  /\ UNCHANGED <<command, mainVars, startVars, loop, ctx, request, asked>>

\* After the first poll: NewTicker panics on an interval that is not positive,
\* and the panic of a goroutine ends the process without any deferred call.
NewTicker ==
  /\ PollerMoves("first", IF command.positiveInterval THEN "waiting" ELSE "panicked")
  /\ exit' = IF command.positiveInterval THEN exit ELSE "panic"

PollStarts == PollerMoves("waiting", "polling") /\ UNCHANGED exit
PollEnds == PollerMoves("polling", "waiting") /\ UNCHANGED exit
PollerStops == ctx /\ PollerMoves("waiting", "stopped") /\ UNCHANGED exit

PollerStep == NewTicker \/ PollStarts \/ PollEnds \/ PollerStops

LoopMoves(l, from, to) ==
  /\ Running
  /\ loop[l] = from
  /\ loop' = [loop EXCEPT ![l] = to]
  /\ UNCHANGED <<command, mainVars, startVars, poller, exit, ctx, request, asked>>

LoopStep(l) ==
  \/ LoopMoves(l, "waiting", "working")
  \/ LoopMoves(l, "working", "waiting")
  \/ ctx /\ LoopMoves(l, "waiting", "stopped")

------------------------------------------------------------------------------
(* SIGINT or SIGTERM.  While runServe listens for them, further ones have  *)
(* no effect.                                                              *)

Caught == main \in {"spawn", "start", "select", "shutdown", "draining", "stop"}

Signal ==
  /\ Running
  /\ IF Caught THEN ctx' = TRUE /\ asked' = TRUE /\ UNCHANGED exit
     ELSE exit' = "killed" /\ UNCHANGED <<ctx, asked>>
  /\ UNCHANGED <<command, mainVars, startVars, loopVars, request>>

MainStep ==
  \/ OpenStore \/ Migrate \/ Import \/ NotifyContext \/ SpawnLoops \/ SpawnStart
  \/ SelectErr \/ SelectDone \/ ShutdownBegins \/ ShutdownEnds
  \/ Stop \/ CloseStore \/ Exit

StarterStep == Listen \/ ServerClosed \/ SendErr \/ CloseErrCh

RequestStep(r) ==
  RequestArrives(r) \/ RequestEnds(r) \/ RequestHijacks(r) \/ HijackedEnds(r)

Ended == ~Running /\ UNCHANGED vars

Next ==
  \/ MainStep
  \/ StarterStep
  \/ StartFails
  \/ \E r \in Request : RequestStep(r)
  \/ PollerStep
  \/ \E l \in Loops : LoopStep(l)
  \/ Signal
  \/ Ended

\* Migrations, imports and handlers return in the end: that depends on the
\* database, none of them has a time limit.  Nothing is assumed of the poller,
\* the loops and the peers of hijacked connections.
Spec ==
  /\ Init
  /\ [][Next]_vars
  /\ WF_vars(MainStep)
  /\ WF_vars(StarterStep)
  /\ \A r \in Request : WF_vars(RequestEnds(r) \/ RequestHijacks(r))

------------------------------------------------------------------------------
TypeOK ==
  /\ command \in Command
  /\ main \in {"open", "migrate", "import", "notify", "spawn", "start", "select",
               "shutdown", "draining", "stop", "close", "return"}
  /\ result \in {"nil", "error"}
  /\ exit \in {"running", "exit0", "exit1", "panic", "killed"}
  /\ ctx \in BOOLEAN
  /\ store \in {"none", "open", "closed"}
  /\ server \in {"new", "listening", "broken", "closed"}
  /\ starter \in {"none", "starting", "serving", "failed", "closing", "ended"}
  /\ errCh \in [buffered : BOOLEAN, closed : BOOLEAN]
  /\ request \in [Request -> {"none", "handled", "hijacked", "done"}]
  /\ poller \in {"none", "first", "waiting", "polling", "stopped", "panicked"}
  /\ loop \in [Loops -> {"none", "waiting", "working", "stopped"}]
  /\ asked \in BOOLEAN
  /\ failure \in BOOLEAN
  /\ main = "return" => store = "closed"

(* A handler that runs has an open store, at every point of a graceful     *)
(* shutdown as well: only the loss of the listener, which returns without  *)
(* Shutdown, closes the store under a handler's feet.                      *)
StoreOutlivesRequests ==
  (Running /\ server # "broken") =>
    \A r \in Request : request[r] = "handled" => store = "open"

(* Status 0 of serve means that it was asked to stop and that every        *)
(* request it accepted was answered, unless the listener broke on the way; *)
(* status 1 means that something failed, for each of the commands.         *)
ExitExplained ==
  /\ exit = "exit0" /\ command.name = "serve" =>
       /\ asked
       /\ server # "broken" => \A r \in Request : request[r] # "handled"
  /\ exit = "exit0" /\ command.name # "serve" => ~failure
  /\ exit = "exit1" => failure

(* A signal ends the server, whatever the clients of the WebSocket, a poll *)
(* under way and the ticker loops do, and even if it comes before Start    *)
(* has begun to listen.                                                    *)
ShutdownCompletes == asked ~> ~Running

(* A listener that cannot be opened or breaks ends the server as well,     *)
(* instead of leaving the loops at work for nobody.                        *)
StartFailureEnds == starter = "failed" ~> ~Running
==============================================================================
