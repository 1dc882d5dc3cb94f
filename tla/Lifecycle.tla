----------------------------- MODULE Lifecycle -----------------------------
(***************************************************************************)
(* The server process from `spivot-server serve` to its exit               *)
(* (cmd/spivot-server/main.go runServe, internal/app/app.go,               *)
(* internal/server/api/server.go Start and Shutdown), composed with the    *)
(* store it opens (Store) and the CA it loads (IdentityCA).  Beside it run *)
(* `invite create` (another opener of the store) and the `ca` commands     *)
(* (other users of the identity directory).                                *)
(*                                                                         *)
(* Four goroutines share the running server: main in ListenAndServe, the   *)
(* signal goroutine of runServe, the shutdown goroutine of App.Serve, and  *)
(* the request handlers.                                                   *)
(***************************************************************************)
EXTENDS Store, IdentityCA

CONSTANTS
    Server,      \* the server process, as an opener and as a CA user
    MaxRunning   \* bound: requests being handled at once

ASSUME LifecycleAssumption ==
    /\ Server \in Openers \cap CAUsers
    /\ MaxRunning \in Nat \ {0}

VARIABLE srv

vars == <<storeVars, caVars, srv>>

\* Signals the buffered channel sigCh can hold.
SignalBuffer == 2

Down == [pc |-> "down", signals |-> 0, cancelled |-> FALSE,
         hook |-> "waiting", running |-> 0, cut |-> FALSE]

Running == {"entered", "published", "serving", "returned"}

Init ==
    /\ StoreInit
    /\ CAInit
    /\ srv = Down

ServerLeaves(cut) ==
    /\ LeaveStore(Server)
    /\ LeaveCA(Server)
    /\ srv' = [Down EXCEPT !.cut = cut]

-----------------------------------------------------------------------------
(* Start of the server, in the order of runServe.  Bootstrap invite and     *)
(* macaroon root, the other two things runServe ensures, are actions of     *)
(* Enrollment and Sessions.                                                 *)

\* The operator does not start the server in the middle of a `ca` command:
\* keystore.go locks nothing and leaves that to the caller.
RunServe(b) ==
    /\ srv.pc = "down"
    /\ \A u \in CAUsers : caUser[u].pc \notin CAInTheMiddle
    /\ Open(Server, b)
    /\ srv' = [Down EXCEPT !.pc = "starting"]
    /\ UNCHANGED caVars

ServerOpensStore ==
    /\ srv.pc = "starting"
    /\ StoreStep(Server) \/ EnsureServerPolicySnapshot(Server)
    /\ UNCHANGED <<caVars, srv>>

ServerLoadsCA ==
    /\ srv.pc = "starting"
    /\ opener[Server].pc = "ready"
    /\ StartCA(Server) \/ CAStep(Server)
    /\ UNCHANGED <<storeVars, srv>>

\* runServe returns the error of the step that failed.
AbandonStart ==
    /\ srv.pc = "starting"
    /\ opener[Server].pc = "failed" \/ caUser[Server].pc = "failed"
    /\ ServerLeaves(FALSE)

\* signal.Notify, the signal goroutine, NewServer, and App.Serve with its
\* shutdown goroutine.
EnterServe ==
    /\ srv.pc = "starting"
    /\ caUser[Server].pc = "ready"
    /\ srv' = [srv EXCEPT !.pc = "entered"]
    /\ UNCHANGED <<storeVars, caVars>>

-----------------------------------------------------------------------------
(* main: Server.Start                                                       *)

PublishServer ==
    /\ srv.pc = "entered"
    /\ srv' = [srv EXCEPT !.pc = "published"]
    /\ UNCHANGED <<storeVars, caVars>>

\* ListenAndServe refuses at once when Shutdown came first, and returns an
\* error when the address is taken.
Listen ==
    /\ srv.pc = "published"
    /\ \/ /\ srv.hook \in {"waiting", "missed"}
          /\ srv' = [srv EXCEPT !.pc = "serving"]
       \/ srv' = [srv EXCEPT !.pc = "returned"]
    /\ UNCHANGED <<storeVars, caVars>>

\* ListenAndServe returns as soon as Shutdown has closed the listener; it
\* does not wait for the handlers that are still running.
ListenAndServeReturns ==
    /\ srv.pc = "serving"
    /\ srv.hook \in {"closed", "drained", "expired"}
    /\ srv' = [srv EXCEPT !.pc = "returned"]
    /\ UNCHANGED <<storeVars, caVars>>

\* Serve and runServe return, the deferred store.Close runs, the process ends.
ExitServer ==
    /\ srv.pc = "returned"
    /\ ServerLeaves(srv.running > 0 /\ srv.hook # "expired")

-----------------------------------------------------------------------------
(* Signals, the shutdown goroutine, requests                                *)

SignalArrives ==
    /\ srv.pc \in Running
    /\ srv.signals < SignalBuffer
    /\ srv' = [srv EXCEPT !.signals = @ + 1]
    /\ UNCHANGED <<storeVars, caVars>>

FirstSignal ==
    /\ srv.pc \in Running
    /\ srv.signals > 0
    /\ ~srv.cancelled
    /\ srv' = [srv EXCEPT !.signals = @ - 1, !.cancelled = TRUE]
    /\ UNCHANGED <<storeVars, caVars>>

SecondSignalIgnored ==
    /\ srv.pc \in Running
    /\ srv.signals > 0
    /\ srv.cancelled
    /\ srv' = [srv EXCEPT !.signals = @ - 1]
    /\ UNCHANGED <<storeVars, caVars>>

\* os.Exit(1).
SecondSignal ==
    /\ srv.pc \in Running
    /\ srv.signals > 0
    /\ srv.cancelled
    /\ ServerLeaves(FALSE)

\* The shutdown goroutine reads s.server, which Start assigns without any
\* synchronisation: nil before the assignment, either before ListenAndServe
\* has been entered, the server after that.  On nil Shutdown does nothing.
ShutdownHook ==
    /\ srv.pc \in Running
    /\ srv.cancelled
    /\ srv.hook = "waiting"
    /\ \/ /\ srv.pc \in {"entered", "published"}
          /\ srv' = [srv EXCEPT !.hook = "missed"]
       \/ /\ srv.pc # "entered"
          /\ srv' = [srv EXCEPT !.hook = "closed"]
    /\ UNCHANGED <<storeVars, caVars>>

\* http.Server.Shutdown waits for the running requests, at most 30 seconds.
Drain ==
    /\ srv.pc \in Running
    /\ srv.hook = "closed"
    /\ srv' = [srv EXCEPT !.hook = IF srv.running = 0 THEN "drained" ELSE "expired"]
    /\ UNCHANGED <<storeVars, caVars>>

\* Also, after the listener has been closed, on a connection accepted before.
RequestArrives ==
    /\ srv.pc = "serving"
    /\ srv.hook # "drained"
    /\ srv.running < MaxRunning
    /\ srv' = [srv EXCEPT !.running = @ + 1]
    /\ UNCHANGED <<storeVars, caVars>>

\* Also the way out of a handler whose storage call fails because ctx, the
\* base context of every request, has been cancelled.
RequestEnds ==
    /\ srv.pc \in Running
    /\ srv.running > 0
    /\ srv' = [srv EXCEPT !.running = @ - 1]
    /\ UNCHANGED <<storeVars, caVars>>

-----------------------------------------------------------------------------
(* The commands run beside the server                                       *)

InviteCommand(p) ==
    /\ p # Server
    /\ \/ \E b \in Binaries : Open(p, b)
       \/ StoreStep(p)
       \/ opener[p].pc # "down" /\ LeaveStore(p)
    /\ UNCHANGED <<caVars, srv>>

\* `ca init` and `ca cert`: run while the server is down or past its own
\* LoadOrCreate.
CACommand(u) ==
    /\ u # Server
    /\ \/ srv.pc # "starting" /\ StartCA(u)
       \/ CAStep(u)
       \/ caUser[u].pc # "idle" /\ LeaveCA(u)
    /\ UNCHANGED <<storeVars, srv>>

-----------------------------------------------------------------------------
(* Faults                                                                   *)

\* SIGKILL, a panic, a signal before signal.Notify, or an I/O error of one of
\* the steps of the start, which runServe returns.
KillServer ==
    /\ srv.pc # "down"
    /\ ServerLeaves(FALSE)

PowerLoss ==
    /\ StorePowerLoss
    /\ CAPowerLoss
    /\ srv' = Down

-----------------------------------------------------------------------------

Next ==
    \/ \E b \in Binaries : RunServe(b)
    \/ ServerOpensStore
    \/ ServerLoadsCA
    \/ AbandonStart
    \/ EnterServe
    \/ PublishServer
    \/ Listen
    \/ ListenAndServeReturns
    \/ ExitServer
    \/ SignalArrives
    \/ FirstSignal
    \/ SecondSignal
    \/ ShutdownHook
    \/ Drain
    \/ RequestArrives
    \/ RequestEnds
    \/ \E p \in Openers : InviteCommand(p)
    \/ \E u \in CAUsers : CACommand(u)
    \/ KillServer
    \/ PowerLoss

\* Straight-line code of a goroutine that nothing blocks is eventually run:
\* the steps of the start, main's way out of ListenAndServe, and the signal
\* and shutdown goroutines.  Nothing makes signals or requests arrive, a
\* handler end, or a command run.
Fairness ==
    /\ WF_vars(ServerOpensStore)
    /\ WF_vars(ServerLoadsCA)
    /\ WF_vars(AbandonStart)
    /\ WF_vars(EnterServe)
    /\ WF_vars(PublishServer)
    /\ WF_vars(Listen)
    /\ WF_vars(ListenAndServeReturns)
    /\ WF_vars(ExitServer)
    /\ WF_vars(FirstSignal)
    /\ WF_vars(SecondSignal)
    /\ WF_vars(ShutdownHook)

Spec == Init /\ [][Next]_vars /\ Fairness

-----------------------------------------------------------------------------

ServerState ==
    [pc : Running \cup {"down", "starting"}, signals : 0..SignalBuffer, cancelled : BOOLEAN,
     hook : {"waiting", "missed", "closed", "drained", "expired"},
     running : 0..MaxRunning, cut : BOOLEAN]

LifecycleTypeOK ==
    /\ StoreTypeOK
    /\ CATypeOK
    /\ srv \in ServerState

\* A server that takes requests has everything runServe set out to ensure,
\* although other processes migrate the same file, create the same CA and die
\* at any point: its whole schema, its policy snapshot, and a certificate on
\* file for the key it signs with.
ServingIsReady ==
    srv.pc = "serving" =>
        /\ 1..opener[Server].binary \subseteq Applied
        /\ Contains(commits, PolicySnapshot(opener[Server].binary))
        /\ VisibleKey = caUser[Server].key
        /\ Exists("cert") /\ Found("cert").key = caUser[Server].key

\* No start is stopped by what an earlier one left behind.  A start fails for
\* an I/O error of its own, because the database belongs to a newer build, or
\* because another process has just applied the migration it was about to
\* apply (so that running it again succeeds), never because of a torn file or
\* a certificate that does not match the key.
NoStartNeedsRepair ==
    /\ \A p \in Openers :
          /\ opener[p].why = "future" => LatestMigration > opener[p].binary
          /\ opener[p].why = "race" => 1..opener[p].at \subseteq Applied
    /\ \A u \in CAUsers : caUser[u].why = "none"

\* Every start comes to an end: the server serves, or the process is gone.
StartupDecides == srv.pc = "starting" ~> srv.pc \in {"serving", "down"}

\* Shutdown works: once the shutdown goroutine has closed the listener, or a
\* second signal is pending, the process ends, whatever its requests do.
ServerStops ==
    (srv.hook \in {"closed", "drained", "expired"} \/ (srv.cancelled /\ srv.signals > 0))
        ~> srv.pc = "down"

\* What app.go promises of Serve: a graceful shutdown bounded at 30 seconds.  A
\* request still running when the process ends of its own accord was given
\* those 30 seconds.
ShutdownIsGraceful == ~srv.cut

-----------------------------------------------------------------------------
(* What makes the invariants inductive.                                    *)

\* runServe goes through the store, then the CA, then serves.
ServerIsInOrder ==
    /\ srv.pc = "down" => opener[Server].pc = "down"
    /\ caUser[Server].pc # "idle" => srv.pc # "down" /\ opener[Server].pc = "ready"
    /\ srv.pc \in Running => caUser[Server].pc = "ready"

LifecycleInv ==
    /\ LifecycleTypeOK
    /\ StoreInv
    /\ CAInv
    /\ ServerIsInOrder
=============================================================================
