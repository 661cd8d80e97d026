----------------------------- MODULE Dashboard -----------------------------
(***************************************************************************)
(* The recipient's page: the wallet (contexts/WalletContext.tsx), the      *)
(* dashboard that shows the stream of the wallet's address (app/dashboard/ *)
(* StreamDashboardClient.tsx) and its socket (utils/websocket.ts).  A load *)
(* reads the stream at the server and its answer arrives later, in any     *)
(* order.  React re-runs the effects that depend on the address in the     *)
(* commit that changes it.  The version of a stream counts its changes.    *)
(***************************************************************************)
EXTENDS Integers, FiniteSets

CONSTANTS
    Addresses,
    Loads,            \* the timer's loads that may be under way at once
    MaxVersion,       \* bound: changes of the streams
    MaxWalletActions, \* bound: what the user does in the wallet
    MaxLoadFaults     \* bound: loads that fail

ASSUME DashboardAssumption ==
    /\ IsFiniteSet(Addresses) /\ IsFiniteSet(Loads)
    /\ MaxVersion \in Nat /\ MaxWalletActions \in Nat /\ MaxLoadFaults \in Nat

VARIABLES
    address,       \* of WalletContext, "none" when disconnected
    savedAddress,  \* localStorage
    wallet,        \* [reconnect, connecting]: the cached address being verified, connect() pending
    version,       \* at the server
    shown,         \* stream: [owner, version], Nothing or NoStream
    fetchError,    \* an error is shown in its place
    load,          \* per load: [for, version]; "effect" is the one with an abort signal, "claim" a claim's
    aborted,       \* loads of the effect that were aborted and have not ended yet
    claimFor,      \* the address of the claim that is being submitted
    socket,        \* the WebSocketManager of the address: "none", "connecting", "open", "ended"
    walletActions, loadFaults

pageVars == <<shown, fetchError>>
loadVars == <<load, aborted>>
walletVars == <<address, savedAddress, wallet, walletActions>>
dashVars == <<walletVars, pageVars, loadVars, version, claimFor, socket, loadFaults>>

\* undefined, before anything was loaded, and null, which reads "No Vesting Stream Found".
Nothing == [owner |-> "none", version |-> 0]
NoStream == [owner |-> "none", version |-> -1]
NoLoad == [for |-> "none", version |-> -1]
Free == {l \in Loads : load[l] = NoLoad}

\* The page is opened with an address in the cache or without one.
DashInit ==
    /\ savedAddress \in Addresses \union {"none"}
    /\ address = savedAddress
    /\ wallet = [reconnect |-> savedAddress, connecting |-> FALSE]
    /\ version = 0
    /\ shown = Nothing /\ fetchError = FALSE
    /\ aborted = 0
    /\ load = [l \in Loads \union {"effect", "claim"} |->
                 IF l = "effect" /\ savedAddress # "none" THEN [for |-> savedAddress, version |-> 0] ELSE NoLoad]
    /\ claimFor = "none"
    /\ socket = IF savedAddress = "none" THEN "none" ELSE "connecting"
    /\ walletActions = 0 /\ loadFaults = 0

WalletAction == walletActions < MaxWalletActions /\ walletActions' = walletActions + 1

\* setAddress, and the effects that depend on it: the load with a signal is aborted and
\* another started, the socket is destroyed and another opened; without an address
\* nothing is shown.
SetAddress(addr) ==
    /\ address' = addr
    /\ IF addr = address THEN UNCHANGED <<loadVars, shown, socket>>
       ELSE /\ load' = [load EXCEPT !["effect"] = IF addr = "none" THEN NoLoad ELSE [for |-> addr, version |-> version]]
            /\ aborted' = IF load["effect"] = NoLoad THEN aborted ELSE aborted + 1
            /\ shown' = IF addr = "none" THEN Nothing ELSE shown
            /\ socket' = IF addr = "none" THEN "none" ELSE "connecting"
    /\ UNCHANGED fetchError

-----------------------------------------------------------------------------
(* WalletContext.                                                          *)

\* isConnected() answers the silent reconnect.  If not, only the cache is cleared.
SilentReconnect(connected) ==
    /\ wallet.reconnect # "none"
    /\ wallet' = [wallet EXCEPT !.reconnect = "none"]
    /\ IF connected THEN SetAddress(wallet.reconnect) /\ UNCHANGED savedAddress
       ELSE savedAddress' = "none" /\ UNCHANGED <<address, pageVars, loadVars, socket>>
    /\ UNCHANGED <<version, claimFor, walletActions, loadFaults>>

ConnectWallet ==
    /\ WalletAction
    /\ ~wallet.connecting
    /\ wallet' = [wallet EXCEPT !.connecting = TRUE]
    /\ UNCHANGED <<address, savedAddress, version, pageVars, loadVars, claimFor, socket, loadFaults>>

\* requestAccess, setAllowed and getAddress have answered.
ConnectReturns(addr) ==
    /\ wallet.connecting
    /\ wallet' = [wallet EXCEPT !.connecting = FALSE]
    /\ SetAddress(addr)
    /\ savedAddress' = addr
    /\ UNCHANGED <<version, claimFor, walletActions, loadFaults>>

ConnectThrows ==
    /\ wallet.connecting
    /\ wallet' = [wallet EXCEPT !.connecting = FALSE]
    /\ UNCHANGED <<address, savedAddress, version, pageVars, loadVars, claimFor, socket, walletActions, loadFaults>>

\* connectWithProvider, and disconnect when the address is "none".
ChooseWallet(addr) ==
    /\ WalletAction
    /\ SetAddress(addr)
    /\ savedAddress' = addr
    /\ UNCHANGED <<wallet, version, claimFor, loadFaults>>

-----------------------------------------------------------------------------
(* StreamDashboardClient.                                                  *)

\* Mutant: the interval of an earlier address is not cleared.
LoadStream_OldTimer(l, addr) ==
    /\ l \in Free
    /\ addr \in Addresses
    /\ load' = [load EXCEPT ![l] = [for |-> addr, version |-> version]]
    /\ UNCHANGED <<walletVars, version, pageVars, aborted, claimFor, socket, loadFaults>>

\* The 10 s timer, which each address sets for itself.
LoadStream(l, addr) ==
    /\ l \in Free
    /\ addr = address /\ addr # "none"
    /\ load' = [load EXCEPT ![l] = [for |-> addr, version |-> version]]
    /\ UNCHANGED <<walletVars, version, pageVars, aborted, claimFor, socket, loadFaults>>

\* fetchStream resolves, for whatever address is current by now.
LoadReturns(l) ==
    /\ load[l] # NoLoad
    /\ shown' = [owner |-> load[l].for, version |-> load[l].version]
    /\ fetchError' = FALSE
    /\ load' = [load EXCEPT ![l] = NoLoad]
    /\ UNCHANGED <<walletVars, version, aborted, claimFor, socket, loadFaults>>

\* The fetch of an aborted load rejects: fetchStream makes null of that, and loadStream
\* sets it like any other answer.
AbortedReturns ==
    /\ aborted > 0
    /\ aborted' = aborted - 1
    /\ shown' = NoStream
    /\ fetchError' = FALSE
    /\ UNCHANGED <<walletVars, version, load, claimFor, socket, loadFaults>>

\* fetchStream throws: an error is set, the old stream stays.
LoadFails(l) ==
    /\ load[l] # NoLoad
    /\ loadFaults < MaxLoadFaults
    /\ loadFaults' = loadFaults + 1
    /\ fetchError' = TRUE
    /\ load' = [load EXCEPT ![l] = NoLoad]
    /\ UNCHANGED <<walletVars, version, shown, aborted, claimFor, socket>>

\* handleClaim: transaction built, signed and submitted for the address it began with.
\* The button is there while a stream is shown, and disabled until the load after the
\* claim has ended.
StartClaim ==
    /\ claimFor = "none" /\ load["claim"] = NoLoad
    /\ address # "none" /\ shown \notin {Nothing, NoStream} /\ ~fetchError
    /\ claimFor' = address
    /\ UNCHANGED <<walletVars, version, pageVars, loadVars, socket, loadFaults>>

\* The claim went through, and the stream of that address is loaded, without a signal.
ClaimSucceeds ==
    /\ claimFor # "none"
    /\ version < MaxVersion
    /\ version' = version + 1
    /\ load' = [load EXCEPT !["claim"] = [for |-> claimFor, version |-> version']]
    /\ claimFor' = "none"
    /\ UNCHANGED <<walletVars, pageVars, aborted, socket, loadFaults>>

ClaimFails ==
    /\ claimFor # "none"
    /\ claimFor' = "none"
    /\ UNCHANGED <<walletVars, version, pageVars, loadVars, socket, loadFaults>>

\* The indexer changes the streams.
StreamChanges ==
    /\ version < MaxVersion
    /\ version' = version + 1
    /\ UNCHANGED <<walletVars, pageVars, loadVars, claimFor, socket, loadFaults>>

-----------------------------------------------------------------------------
(* WebSocketManager.  A destroyed one delivers nothing and never reconnects. *)

\* onopen and onclose: 1000 ends it, after anything else, an attempt that failed
\* included, it is connecting again, the wait before the next attempt being part of that.
SocketMoves ==
    /\ \/ socket = "connecting" /\ socket' = "open"
       \/ socket = "open" /\ socket' \in {"connecting", "ended"}
    /\ UNCHANGED <<walletVars, version, pageVars, loadVars, claimFor, loadFaults>>

\* A stream_update of the socket's recipient.
SocketMessage ==
    /\ socket = "open"
    /\ shown' = [owner |-> address, version |-> version]
    /\ UNCHANGED <<walletVars, version, fetchError, loadVars, claimFor, socket, loadFaults>>

DashNext ==
    \/ \E c \in BOOLEAN : SilentReconnect(c)
    \/ ConnectWallet \/ ConnectThrows \/ \E addr \in Addresses : ConnectReturns(addr)
    \/ \E addr \in Addresses \union {"none"} : ChooseWallet(addr)
    \/ \E l \in DOMAIN load : LoadReturns(l) \/ LoadFails(l)
    \/ \E l \in Loads, addr \in Addresses : LoadStream(l, addr)
    \/ AbortedReturns
    \/ StartClaim \/ ClaimSucceeds \/ ClaimFails \/ StreamChanges \/ SocketMoves \/ SocketMessage

\* The interval fires again and again and every fetch is answered.
DashFairness ==
    /\ \A l \in Loads, addr \in Addresses : WF_dashVars(LoadStream(l, addr))
    /\ \A l \in Loads \union {"effect", "claim"} : WF_dashVars(LoadReturns(l))

DashSpec == DashInit /\ [][DashNext]_dashVars /\ DashFairness

-----------------------------------------------------------------------------
(* Properties.                                                             *)

\* Once a wallet stays connected, the dashboard comes to show the latest state of that
\* wallet's stream for good and no error, although loads and claims begun for another
\* address, answers overtaken by newer ones and the null of a load that was aborted
\* are shown when they arrive (lines 83, 162-268).
DashboardConverges ==
    \A addr \in Addresses :
        <>[](address = addr) => <>[](shown = [owner |-> addr, version |-> version] /\ ~fetchError)

=============================================================================
