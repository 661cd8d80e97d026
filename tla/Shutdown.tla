------------------------------ MODULE Shutdown ------------------------------
(***************************************************************************)
(* ShutdownManager (src/server/shutdown.js): the middleware that counts    *)
(* requests in flight, and the shutdown a signal starts, which waits for   *)
(* them, runs the teardown handlers one after another and exits, against a *)
(* timer that exits whatever is still going on.  The timer is unref'd: it  *)
(* does not keep the event loop alive, and a loop with nothing to wait for *)
(* ends, with exit code 0.                                                 *)
(***************************************************************************)
EXTENDS Integers, FiniteSets

CONSTANTS
    HttpRequests,
    Teardowns        \* how many teardown handlers are registered

ASSUME ShutdownAssumption == IsFiniteSet(HttpRequests) /\ Teardowns \in Nat

VARIABLES
    isShuttingDown,
    inFlightCount,
    http,        \* per request: [pc, listeners], listeners of finish and close
    shutdown,    \* performShutdown: "none", "wait", "teardown", "done"
    torn,        \* number of teardown handlers that returned or threw
    resources,   \* a socket, pool or timer besides the connections is open
    forceTimer,  \* the timer is armed
    exitCode     \* -1 while the process runs

shutdownVars == <<isShuttingDown, inFlightCount, http, shutdown, torn, resources, forceTimer, exitCode>>

Running == exitCode = -1

ShutdownInit ==
    /\ isShuttingDown = FALSE /\ inFlightCount = 0
    /\ http = [r \in HttpRequests |-> [pc |-> "none", listeners |-> {}]]
    /\ shutdown = "none" /\ torn = 0 /\ resources = TRUE /\ forceTimer = FALSE /\ exitCode = -1

\* What the event loop waits for: the check every 50 ms, connections, resources.
LoopAlive ==
    \/ shutdown # "teardown" \/ resources
    \/ \E r \in HttpRequests : http[r].pc \in {"open", "finish"}

\* The middleware: 503 during a shutdown, otherwise counted.
RequestArrives(r) ==
    /\ Running
    /\ http[r].pc = "none"
    /\ \/ /\ isShuttingDown /\ LoopAlive
          /\ http' = [http EXCEPT ![r].pc = "rejected"]
          /\ UNCHANGED inFlightCount
       \/ /\ ~isShuttingDown
          /\ inFlightCount' = inFlightCount + 1
          /\ http' = [http EXCEPT ![r] = [pc |-> "open", listeners |-> {"finish", "close"}]]
    /\ UNCHANGED <<isShuttingDown, shutdown, torn, resources, forceTimer, exitCode>>

\* cleanup: takes itself off both events and counts down, never below 0.
Cleanup(r, event) ==
    IF event \in http[r].listeners
    THEN /\ inFlightCount' = IF inFlightCount = 0 THEN 0 ELSE inFlightCount - 1
         /\ http' = [http EXCEPT ![r] = [pc |-> event, listeners |-> {}]]
    ELSE http' = [http EXCEPT ![r].pc = event] /\ UNCHANGED inFlightCount

\* The response is complete.
ResponseFinishes(r) ==
    /\ Running
    /\ http[r].pc = "open"
    /\ Cleanup(r, "finish")
    /\ UNCHANGED <<isShuttingDown, shutdown, torn, resources, forceTimer, exitCode>>

\* The connection closes, after the response or instead of it.
ConnectionCloses(r) ==
    /\ Running
    /\ http[r].pc \in {"open", "finish"}
    /\ Cleanup(r, "close")
    /\ UNCHANGED <<isShuttingDown, shutdown, torn, resources, forceTimer, exitCode>>

\* SIGTERM or SIGINT: performShutdown up to its first await.  A second signal
\* finds isShuttingDown and returns.
PerformShutdown ==
    /\ Running
    /\ ~isShuttingDown
    /\ isShuttingDown' = TRUE
    /\ forceTimer' = TRUE
    /\ shutdown' = "wait"
    /\ UNCHANGED <<inFlightCount, http, torn, resources, exitCode>>

\* check finds the count at 0 (it is repeated every 50 ms).
WaitForInFlightRequests ==
    /\ Running
    /\ shutdown = "wait"
    /\ inFlightCount = 0
    /\ shutdown' = "teardown"
    /\ UNCHANGED <<isShuttingDown, inFlightCount, http, torn, resources, forceTimer, exitCode>>

\* The next handler returns or throws; it may also never do so.
TeardownEnds ==
    /\ Running
    /\ shutdown = "teardown"
    /\ torn < Teardowns
    /\ torn' = torn + 1
    /\ UNCHANGED <<isShuttingDown, inFlightCount, http, shutdown, resources, forceTimer, exitCode>>

\* A handler has closed the last of what kept the loop alive, whether or not it
\* returns.
ResourcesClose ==
    /\ Running
    /\ shutdown = "teardown"
    /\ resources
    /\ resources' = FALSE
    /\ UNCHANGED <<isShuttingDown, inFlightCount, http, shutdown, torn, forceTimer, exitCode>>

\* All of them have: the timer is cleared, exit(0).
ExitCleanly ==
    /\ Running
    /\ shutdown = "teardown"
    /\ torn = Teardowns
    /\ shutdown' = "done"
    /\ forceTimer' = FALSE
    /\ exitCode' = 0
    /\ UNCHANGED <<isShuttingDown, inFlightCount, http, torn, resources>>

\* Mutant: the timer is armed only once the requests are done.
ForceExit_AfterWait ==
    /\ Running
    /\ forceTimer /\ LoopAlive /\ shutdown # "wait"
    /\ exitCode' = 1
    /\ UNCHANGED <<isShuttingDown, inFlightCount, http, shutdown, torn, resources, forceTimer>>

\* timeoutMs have passed in a loop that is alive.
ForceExit ==
    /\ Running
    /\ forceTimer /\ LoopAlive
    /\ exitCode' = 1
    /\ UNCHANGED <<isShuttingDown, inFlightCount, http, shutdown, torn, resources, forceTimer>>

\* A handler is pending and the loop has nothing left: the timer does not hold it.
LoopDrains ==
    /\ Running
    /\ torn < Teardowns /\ ~LoopAlive
    /\ exitCode' = 0
    /\ UNCHANGED <<isShuttingDown, inFlightCount, http, shutdown, torn, resources, forceTimer>>

ShutdownNext ==
    \/ \E r \in HttpRequests : RequestArrives(r) \/ ResponseFinishes(r) \/ ConnectionCloses(r)
    \/ PerformShutdown \/ WaitForInFlightRequests \/ TeardownEnds \/ ResourcesClose
    \/ ExitCleanly \/ ForceExit \/ LoopDrains

\* The event loop goes on while it is alive, and ends when it is not; a request or a
\* handler may hang for ever.
ShutdownFairness ==
    /\ WF_shutdownVars(WaitForInFlightRequests) /\ WF_shutdownVars(ExitCleanly)
    /\ WF_shutdownVars(ForceExit) /\ WF_shutdownVars(LoopDrains)

ShutdownSpec == ShutdownInit /\ [][ShutdownNext]_shutdownVars /\ ShutdownFairness

-----------------------------------------------------------------------------
(* Properties.                                                             *)

\* The teardown handlers run only once the last admitted request is over, although
\* finish and close both call cleanup; and the process exits with 0 only when no
\* admitted request was cut off and every handler had its turn, or else nothing was
\* left open that a handler could have closed (lines 52-58, 81-105).
CleanExit ==
    /\ shutdown \in {"teardown", "done"} \/ exitCode = 0 => \A r \in HttpRequests : http[r].pc # "open"
    /\ exitCode = 0 => torn = Teardowns \/ ~resources

\* A signal is followed by an exit, even if a request or a handler hangs, and although
\* the timer by itself keeps nothing alive (lines 73-83).
ShutdownEnds == isShuttingDown ~> ~Running

\* Both: the shutdown comes to an end, and a clean one cuts nobody off
\* (performShutdown, lines 68-106).
OrderlyShutdown == []CleanExit /\ ShutdownEnds

=============================================================================
