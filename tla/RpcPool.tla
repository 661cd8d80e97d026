------------------------------ MODULE RpcPool ------------------------------
(***************************************************************************)
(* The Soroban RPC pool (rpcPool.ts): round-robin selection, quarantine    *)
(* after consecutive failures, and the health check loop.  Nodes are       *)
(* 0..NodeCount-1 in configuration order.  Time is counted in ticks:       *)
(* window is unhealthyUntil - Date.now(), at least 0.  A health check      *)
(* keeps the time at which it began and uses it for unhealthyUntil after   *)
(* its awaits; age is how long ago that was.                               *)
(***************************************************************************)
EXTENDS Integers, FiniteSets

CONSTANTS
    PoolCallers,
    NodeCount,
    FailureThreshold,
    QuarantineWindow,  \* ticks of quarantine
    MaxChecks        \* bound: checks of all nodes in flight at a time

ASSUME PoolAssumption ==
    /\ NodeCount \in Nat \ {0} /\ FailureThreshold \in Nat \ {0}
    /\ QuarantineWindow \in Nat /\ MaxChecks \in Nat

Nodes == 0..(NodeCount - 1)

VARIABLES
    node,       \* per node: [healthy, window, failures]
    rrIndex,
    rpcCall,    \* per caller: the node it called, or -1
    checks,     \* health checks in flight: set of [node, age]
    checking,   \* the health timer is set
    quarantine, \* history per node: [ago, cleared] since it was last marked
    missed      \* history per node: picks that went elsewhere since it was picked

poolVars == <<node, rrIndex, rpcCall, checks, checking, quarantine, missed>>

PoolInit ==
    /\ node = [n \in Nodes |-> [healthy |-> TRUE, window |-> 0, failures |-> 0]]
    /\ rrIndex = 0
    /\ rpcCall = [c \in PoolCallers |-> -1]
    /\ checks = {}
    /\ checking = FALSE
    /\ quarantine = [n \in Nodes |-> [ago |-> QuarantineWindow, cleared |-> TRUE]]
    /\ missed = [n \in Nodes |-> 0]

\* In rotation, or to be taken back by the next pick that meets it.
Available(n) == node[n].healthy \/ node[n].window = 0

\* Where rrIndex stands after a search that looked at so many nodes.
NextIndex(steps) == (rrIndex + steps) % NodeCount

Readmitted(n) ==
    IF node[n].healthy THEN node[n]
                       ELSE [node[n] EXCEPT !.healthy = TRUE, !.failures = 0]

\* pick() returns the first available node of one rotation.  When there is none
\* it returns null, and the rotation has ended where it began.
Pick(c) ==
    /\ rpcCall[c] = -1
    /\ \E steps \in 1..NodeCount :
          LET n == (rrIndex + steps - 1) % NodeCount
          IN  /\ Available(n)
              /\ \A i \in 1..(steps - 1) : ~Available((rrIndex + i - 1) % NodeCount)
              /\ rrIndex' = NextIndex(steps)
              /\ node' = [node EXCEPT ![n] = Readmitted(n)]
              /\ rpcCall' = [rpcCall EXCEPT ![c] = n]
              /\ missed' = [m \in Nodes |-> IF m = n \/ ~Available(m) THEN 0
                                            ELSE IF missed[m] < NodeCount THEN missed[m] + 1
                                            ELSE NodeCount]
    /\ UNCHANGED <<checks, checking, quarantine>>

\* A success ends any quarantine, whenever the call began.
Recovered == [healthy |-> TRUE, window |-> 0, failures |-> 0]

\* Mutant: the window of a node that is already marked is lost.
Failed_Unmarks(n, window) ==
    LET failures == node[n].failures + 1
    IN  IF failures >= FailureThreshold
        THEN [healthy |-> FALSE, window |-> IF node[n].healthy THEN window ELSE 0, failures |-> FailureThreshold]
        ELSE [node[n] EXCEPT !.failures = failures]

\* The failure count is compared with the threshold only: it is capped there.
Failed(n, window) ==
    LET failures == node[n].failures + 1
    IN  CASE failures >= FailureThreshold /\ node[n].healthy ->
                [healthy |-> FALSE, window |-> window, failures |-> FailureThreshold]
          [] failures >= FailureThreshold /\ ~node[n].healthy ->
                [node[n] EXCEPT !.failures = FailureThreshold]
          [] OTHER -> [node[n] EXCEPT !.failures = failures]

\* History of a change of node n whose quarantine counts from so long ago.
Marks(n, ago) ==
    /\ quarantine' = [quarantine EXCEPT ![n] =
            IF node[n].healthy /\ ~node'[n].healthy
            THEN [ago |-> ago, cleared |-> FALSE]
            ELSE [ago |-> @.ago, cleared |-> @.cleared \/ node'[n] = Recovered]]
    /\ missed' = IF node'[n].healthy THEN missed ELSE [missed EXCEPT ![n] = 0]

ReportSuccess(c) ==
    /\ rpcCall[c] # -1
    /\ node' = [node EXCEPT ![rpcCall[c]] = Recovered]
    /\ rpcCall' = [rpcCall EXCEPT ![c] = -1]
    /\ Marks(rpcCall[c], 0)
    /\ UNCHANGED <<rrIndex, checks, checking>>

ReportFailure(c) ==
    /\ rpcCall[c] # -1
    /\ node' = [node EXCEPT ![rpcCall[c]] = Failed(rpcCall[c], QuarantineWindow)]
    /\ rpcCall' = [rpcCall EXCEPT ![c] = -1]
    /\ Marks(rpcCall[c], 0)
    /\ UNCHANGED <<rrIndex, checks, checking>>

-----------------------------------------------------------------------------
(* Health checks.  A slow answer does not hold up the next round.          *)

SwitchHealthChecks ==
    /\ checking' = ~checking
    /\ UNCHANGED <<node, rrIndex, rpcCall, checks, quarantine, missed>>

\* The synchronous part of checkNode for every node.
RunHealthChecks ==
    /\ checking
    /\ Cardinality(checks) + NodeCount <= MaxChecks
    /\ checks' = checks \cup {[node |-> n, age |-> 0] : n \in {m \in Nodes : Available(m)}}
    /\ UNCHANGED <<node, rrIndex, rpcCall, checking, quarantine, missed>>

CheckPasses(k) ==
    /\ checks' = checks \ {k}
    /\ node' = [node EXCEPT ![k.node] = Recovered]
    /\ Marks(k.node, 0)
    /\ UNCHANGED <<rrIndex, rpcCall, checking>>

\* An error, the five second timeout, or an answer of the wrong form.
CheckFails(k) ==
    /\ checks' = checks \ {k}
    /\ node' = [node EXCEPT ![k.node] = Failed(k.node, QuarantineWindow - k.age)]
    /\ Marks(k.node, k.age)
    /\ UNCHANGED <<rrIndex, rpcCall, checking>>

PoolTick ==
    /\ node' = [n \in Nodes |-> [node[n] EXCEPT !.window = IF @ > 0 THEN @ - 1 ELSE 0]]
    /\ checks' = {[k EXCEPT !.age = IF @ < QuarantineWindow THEN @ + 1 ELSE @] : k \in checks}
    /\ quarantine' = [n \in Nodes |->
            [quarantine[n] EXCEPT !.ago = IF @ < QuarantineWindow THEN @ + 1 ELSE @]]
    /\ UNCHANGED <<rrIndex, rpcCall, checking, missed>>

PoolNext ==
    \/ \E c \in PoolCallers : Pick(c) \/ ReportSuccess(c) \/ ReportFailure(c)
    \/ SwitchHealthChecks \/ RunHealthChecks \/ PoolTick
    \/ \E k \in checks : CheckPasses(k) \/ CheckFails(k)

PoolSpec == PoolInit /\ [][PoolNext]_poolVars

-----------------------------------------------------------------------------
(* Properties.                                                             *)

\* A node that was marked unhealthy is not picked until QuarantineWindow has passed
\* since the failure (since the start of the check, when a check marked it), unless
\* a call or a check of it succeeded in the meantime (pick, line 125, against
\* reportFailure, line 174, and checkNode, line 260).
QuarantineHolds ==
    [][\A c \in PoolCallers :
          LET n == rpcCall'[c]
          IN  (rpcCall[c] = -1 /\ n # -1 /\ ~quarantine[n].cleared) => quarantine[n].ago >= QuarantineWindow]_poolVars

\* Round robin starves nobody: a node that stays available is picked at least
\* once in every NodeCount picks, however many nodes are skipped and taken back
\* in between (pick, lines 131-146).
RoundRobinIsFair ==
    \A n \in Nodes : Available(n) => missed[n] < NodeCount

\* The pool neither uses a node it should not nor passes one over.
PoolSound == QuarantineHolds /\ []RoundRobinIsFair

=============================================================================
