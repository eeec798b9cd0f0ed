------------------------------- MODULE Server -------------------------------
(***************************************************************************)
(* The end of the process: Server.Run of internal/server/server.go from    *)
(* the signal on, and the deferred calls of runServe (cmd/media-delivery/  *)
(* serve.go), among the requests, singleflight's fetches, asynchronous     *)
(* writes and background loops that are still under way.                   *)
(*                                                                         *)
(* http.Server.Shutdown is a library: it closes the listener, then waits   *)
(* until no request is being served or its context is done.  One deadline, *)
(* shutdownTimeout, serves both Shutdowns and the wait for the WaitGroup.  *)
(***************************************************************************)
EXTENDS FiniteSets, Naturals

CONSTANTS
    ProxyRequest,   \* requests to the proxy server
    AdminRequest,   \* requests to the admin server
    Background      \* goroutines that leave on ctx.Done: cleaner, GC loops

ASSUME ServerAssumption == ProxyRequest \cap AdminRequest = {}

VARIABLES
    phase,      \* where Run and, after it, runServe are
    expired,    \* the deadline of the shutdown has passed
    orderly,    \* Run came to its end with nothing cut off by the deadline
    cancelled,  \* cancelBg was called: ShutdownCtx and the loops' ctx
    request,    \* [ProxyRequest \cup AdminRequest -> RequestState]
    fetching,   \* proxy requests whose originFetch, on a goroutine of its own, runs
    writes,     \* proxy requests whose asynchronous writes run: the WaitGroup
    loop        \* [Background -> LoopState]

runVars == <<phase, expired, orderly, cancelled>>
vars == <<runVars, request, fetching, writes, loop>>

Request == ProxyRequest \cup AdminRequest
RequestState == {"none", "active", "waiting", "answered"}
LoopState == {"waiting", "running", "left"}
Phase == {"serving", "failed", "stop proxy", "stop admin", "wait", "returned", "exited"}
Alive == phase # "exited"

Active(S) == {r \in S : request[r] \in {"active", "waiting"}}

Init ==
    /\ phase = "serving"
    /\ expired = FALSE
    /\ orderly = FALSE
    /\ cancelled = FALSE
    /\ request = [r \in Request |-> "none"]
    /\ fetching = {}
    /\ writes = {}
    /\ loop = [b \in Background |-> "waiting"]

-----------------------------------------------------------------------------
(* Requests.                                                               *)

Listening(r) ==
    \/ phase \in {"serving", "failed"}
    \/ phase = "stop proxy" /\ r \in AdminRequest

Arrive(r) ==
    /\ Listening(r)
    /\ request[r] = "none"
    /\ request' = [request EXCEPT ![r] = "active"]
    /\ UNCHANGED <<runVars, fetching, writes, loop>>

\* A proxy request that misses starts a fetch, which nothing but singleflight
\* knows of.  (One that finds a flight is not told apart here.)
StartFetch(r) ==
    /\ Alive
    /\ r \in ProxyRequest
    /\ request[r] = "active"
    /\ request' = [request EXCEPT ![r] = "waiting"]
    /\ fetching' = fetching \cup {r}
    /\ UNCHANGED <<runVars, writes, loop>>

FetchEnds(r) ==
    /\ Alive
    /\ r \in fetching
    /\ fetching' = fetching \ {r}
    /\ UNCHANGED <<runVars, request, writes, loop>>

\* Mutant: every answer of either server starts writes.
Bug_AnswerAndWrite(r) ==
    /\ Alive
    /\ r \notin fetching
    /\ request[r] \in {"active", "waiting"}
    /\ request' = [request EXCEPT ![r] = "answered"]
    /\ writes' = writes \cup {r}
    /\ UNCHANGED <<runVars, fetching, loop>>

\* A hit or a fetched result: the goroutines of the writes are added to the
\* WaitGroup before the handler returns.
AnswerAndWrite(r) ==
    /\ Alive
    /\ r \in ProxyRequest \ fetching
    /\ request[r] \in {"active", "waiting"}
    /\ request' = [request EXCEPT ![r] = "answered"]
    /\ writes' = writes \cup {r}
    /\ UNCHANGED <<runVars, fetching, loop>>

\* Admin requests, refusals, errors, and callers that give up on their fetch.
Answer(r) ==
    /\ Alive
    /\ request[r] \in {"active", "waiting"}
    /\ request' = [request EXCEPT ![r] = "answered"]
    /\ UNCHANGED <<runVars, fetching, writes, loop>>

WritesEnd(r) ==
    /\ Alive
    /\ r \in writes
    /\ writes' = writes \ {r}
    /\ UNCHANGED <<runVars, request, fetching, loop>>

-----------------------------------------------------------------------------
(* The background loops: select over ctx.Done and a ticker.                *)

LoopRuns(b) ==
    /\ Alive
    /\ loop[b] = "waiting"
    /\ loop' = [loop EXCEPT ![b] = "running"]
    /\ UNCHANGED <<runVars, request, fetching, writes>>

LoopWaits(b) ==
    /\ Alive
    /\ loop[b] = "running"
    /\ loop' = [loop EXCEPT ![b] = "waiting"]
    /\ UNCHANGED <<runVars, request, fetching, writes>>

LoopLeaves(b) ==
    /\ Alive
    /\ cancelled
    /\ loop[b] = "waiting"
    /\ loop' = [loop EXCEPT ![b] = "left"]
    /\ UNCHANGED <<runVars, request, fetching, writes>>

-----------------------------------------------------------------------------
(* Run.                                                                    *)

Goto(p) ==
    /\ phase' = p
    /\ UNCHANGED <<cancelled, request, fetching, writes, loop>>

\* SIGTERM or SIGINT.
Signal ==
    /\ phase = "serving"
    /\ Goto("stop proxy")
    /\ orderly' = TRUE
    /\ UNCHANGED expired

\* An error of either ListenAndServe makes Run return at once; the other
\* server goes on until the process ends.
ListenFails ==
    /\ phase = "serving"
    /\ Goto("failed")
    /\ UNCHANGED <<expired, orderly>>

DeadlinePasses ==
    /\ phase \in {"stop proxy", "stop admin", "wait"}
    /\ ~expired
    /\ expired' = TRUE
    /\ UNCHANGED <<phase, orderly, cancelled, request, fetching, writes, loop>>

\* The two Shutdowns: to their end, or cut off and logged.
Stopped(S, at, next) ==
    /\ phase = at
    /\ Active(S) = {} \/ expired
    /\ orderly' = (orderly /\ Active(S) = {})
    /\ Goto(next)
    /\ UNCHANGED expired

\* Mutant: Shutdown is called on a goroutine of its own and not waited for.
Bug_StopProxy == Stopped({}, "stop proxy", "stop admin")

StopProxy == Stopped(ProxyRequest, "stop proxy", "stop admin")

\* Mutant: the admin server gets a context of its own without a deadline.
Bug_StopAdmin ==
    /\ Active(AdminRequest) = {}
    /\ Stopped(AdminRequest, "stop admin", "wait")

StopAdmin == Stopped(AdminRequest, "stop admin", "wait")

\* Mutant: done is closed whether or not the count is zero.
Bug_WaitForWrites ==
    /\ phase = "wait"
    /\ Goto("returned")
    /\ UNCHANGED <<expired, orderly>>

WaitForWrites ==
    /\ phase = "wait"
    /\ writes = {} \/ expired
    /\ orderly' = (orderly /\ writes = {})
    /\ Goto("returned")
    /\ UNCHANGED expired

\* The deferred calls of runServe, last one first; then converter.Shutdown,
\* and the process ends with whatever still runs.
CancelBackground ==
    /\ phase \in {"returned", "failed"}
    /\ ~cancelled
    /\ cancelled' = TRUE
    /\ UNCHANGED <<phase, expired, orderly, request, fetching, writes, loop>>

Exit ==
    /\ phase \in {"returned", "failed"}
    /\ cancelled
    /\ Goto("exited")
    /\ UNCHANGED <<expired, orderly>>

ShuttingDown ==
    \/ DeadlinePasses
    \/ StopProxy \/ StopAdmin \/ WaitForWrites
    \/ CancelBackground \/ Exit

Next ==
    \/ \E r \in Request :
          \/ Arrive(r) \/ StartFetch(r) \/ FetchEnds(r)
          \/ AnswerAndWrite(r) \/ Answer(r) \/ WritesEnd(r)
    \/ \E b \in Background : LoopRuns(b) \/ LoopWaits(b) \/ LoopLeaves(b)
    \/ Signal
    \/ ListenFails
    \/ ShuttingDown

Spec == Init /\ [][Next]_vars

\* Once begun, a shutdown proceeds; requests, fetches and writes may hang.
FairSpec == Spec /\ WF_vars(ShuttingDown)

-----------------------------------------------------------------------------
TypeOK ==
    /\ phase \in Phase
    /\ {expired, orderly, cancelled} \subseteq BOOLEAN
    /\ request \in [Request -> RequestState]
    /\ fetching \subseteq ProxyRequest
    /\ writes \subseteq ProxyRequest
    /\ loop \in [Background -> LoopState]
    /\ phase = "serving" => ~expired /\ ~orderly /\ ~cancelled

(***************************************************************************)
(* README.md:824: a shutdown that the deadline did not cut short has let   *)
(* every request finish and every asynchronous write too, those started by *)
(* the last requests included: the WaitGroup is waited for only when no    *)
(* handler is left that could add to it.                                   *)
(***************************************************************************)
OrderlyExitCompletesAll ==
    phase \in {"returned", "exited"} /\ orderly => Active(Request) = {} /\ writes = {}

(***************************************************************************)
(* The rule of sync.WaitGroup: nothing is added from a zero count while    *)
(* Wait is under way (server.go:103), unless the deadline has cut off a    *)
(* handler.                                                                *)
(***************************************************************************)
NoAddDuringWait ==
    [][phase = "wait" /\ orderly => writes' \subseteq writes]_vars

(***************************************************************************)
(* Once the signal has come the process ends, although requests, fetches   *)
(* and writes may hang for ever.                                           *)
(***************************************************************************)
ShutdownEnds == phase = "stop proxy" ~> phase = "exited"
=============================================================================
