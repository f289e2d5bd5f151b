---------------------------- MODULE VaultBroker ----------------------------
(***************************************************************************)
(* The one-shot broker between a worker's relay and the vault's server     *)
(* (src/plugins/chrono-vault/broker.py).  A supervisor starts it, hands    *)
(* the port and token to one worker, and closes it.  Three parties run     *)
(* concurrently: the supervisor's thread (start, require_ready, close),    *)
(* the serve thread, and the processes that connect to the loopback port:  *)
(* the worker's relay, which may be retried, and other local processes.    *)
(* The listener's backlog is the operating system's.                       *)
(***************************************************************************)
EXTENDS Naturals, FiniteSets, Sequences, SequencesExt

CONSTANTS Clients,      \* connections that may be made to the port
          Kind,         \* [Clients -> {"relay", "stray", "silent"}]
          Aperture,     \* aperture of the bound context: "none" or another
          MaxFaults     \* deaths of the backend, failed closes, survived kills

Absent == "none"

BrokerAssumption ==
    /\ Kind \in [Clients -> {"relay", "stray", "silent"}]
    /\ MaxFaults \in Nat /\ Absent \notin Clients

VARIABLES
    sup,        \* progress of the supervisor
    backend,    \* the server process: "none", "alive", "exited"
    thread,     \* progress of the serve thread
    serving,    \* the accepted connection, or Absent
    listening,  \* the listener is open
    stop,       \* the stop event
    failure,    \* "none", "failed", "denied"
    complaints, \* what close has found it could not do
    client,     \* progress of each connection, as its process sees it
    backlog,    \* connections made and not accepted
    bridged,    \* clients whose bytes reached the backend
    launched,   \* the worker was launched
    faults      \* number of faults so far

vars == <<sup, backend, thread, serving, listening, stop, failure, complaints,
          client, backlog, bridged, launched, faults>>

Init ==
    /\ sup = "new" /\ backend = Absent /\ thread = Absent /\ serving = Absent
    /\ listening = TRUE /\ stop = FALSE /\ failure = "none"
    /\ complaints = {}
    /\ client = [c \in Clients |-> "idle"]
    /\ backlog = <<>> /\ bridged = {} /\ launched = FALSE /\ faults = 0

Connected(c) == client[c] = "waiting"

----------------------------------------------------------------------------
(* The supervisor. *)

\* start: only a permitted aperture has a backend.
NeedsBackend == Aperture # "none"

\* start, _start_backend: the child is spawned and must survive the grace period.
StartBackend ==
    /\ sup = "new"
    /\ IF NeedsBackend
       THEN \/ backend' = "alive" /\ sup' = "spawned" /\ faults' = faults
            \/ /\ faults < MaxFaults /\ faults' = faults + 1
               /\ backend' \in {Absent, "exited"} /\ sup' = "closing"
       ELSE backend' = backend /\ sup' = "spawned" /\ faults' = faults
    /\ UNCHANGED <<thread, serving, listening, stop, failure, client, backlog,
                   bridged, launched, complaints>>

\* start: the serve thread is started.
StartThread ==
    /\ sup = "spawned" /\ sup' = "starting"
    /\ thread' = "accept"
    /\ UNCHANGED <<backend, serving, listening, stop, failure, client, backlog,
                   bridged, launched, faults, complaints>>

ThreadAlive == thread \in {"accept", "auth", "bridge"}

\* require_ready.
IsReady ==
    /\ ThreadAlive /\ listening /\ failure = "none"
    /\ NeedsBackend => backend = "alive"

\* start's last checks: a broker that is not ready raises, and __enter__ closes it.
Ready ==
    /\ sup = "starting"
    /\ sup' = IF IsReady THEN "ready" ELSE "closing"
    /\ UNCHANGED <<backend, thread, serving, listening, stop, failure, client,
                   backlog, bridged, launched, faults, complaints>>

\* The supervisor proves readiness again and launches the worker.
Launch ==
    /\ sup = "ready" /\ ~launched
    /\ IF IsReady THEN launched' = TRUE /\ sup' = sup
                  ELSE launched' = launched /\ sup' = "closing"
    /\ UNCHANGED <<backend, thread, serving, listening, stop, failure, client,
                   backlog, bridged, faults, complaints>>

\* The attempt is over.
Finish ==
    /\ sup = "ready" /\ launched /\ sup' = "closing"
    /\ UNCHANGED <<backend, thread, serving, listening, stop, failure, client,
                   backlog, bridged, launched, faults, complaints>>

\* Mutant: the listener is closed before the stop event is set.
CloseListenerFirst ==
    \/ /\ sup = "closing" /\ sup' = "stopping"
       /\ listening' = FALSE /\ stop' = stop
    \/ /\ sup = "stopping" /\ sup' = "reaping" /\ stop' = TRUE
       /\ listening' = listening

\* close: the stop event is set, then the listener is closed.
CloseListener ==
    \/ /\ sup = "closing" /\ sup' = "stopping"
       /\ stop' = TRUE /\ listening' = listening
    \/ /\ sup = "stopping" /\ sup' = "reaping" /\ listening' = FALSE
       /\ stop' = stop

(* The connections of the backlog are reset when the listener closes.  An  *)
(* error of the listener's close is kept for the end; its descriptor is    *)
(* gone all the same.                                                      *)
CloseStep ==
    /\ CloseListener
    /\ backlog' = IF listening' THEN backlog ELSE <<>>
    /\ client' = [c \in Clients |->
            IF ~listening' /\ Contains(backlog, c) /\ Connected(c)
            THEN "reset" ELSE client[c]]
    /\ \/ UNCHANGED <<complaints, faults>>
       \/ /\ sup = "stopping" /\ faults < MaxFaults /\ faults' = faults + 1
          /\ complaints' = complaints \cup {"listener"}
    /\ UNCHANGED <<backend, thread, serving, failure, bridged, launched>>

(* close: a running backend gets SIGTERM and, when it outlives it, SIGKILL.*)
(* One that is still there two seconds later (the kill was not permitted,  *)
(* or has not taken effect) is left, and close complains of it.            *)
StopBackend ==
    /\ sup = "reaping" /\ sup' = "joining"
    /\ \/ backend # "alive" /\ UNCHANGED <<backend, complaints, faults>>
       \/ backend = "alive" /\ backend' = "exited" /\ UNCHANGED <<complaints, faults>>
       \/ /\ backend = "alive" /\ faults < MaxFaults /\ faults' = faults + 1
          /\ complaints' = complaints \cup {"backend"} /\ backend' = backend
    /\ UNCHANGED <<thread, serving, listening, stop, failure, client, backlog,
                   bridged, launched>>

(* close: the thread is joined for two seconds.  A connection being        *)
(* authenticated may hold it for three, so the join may give up.  Whatever *)
(* close has to complain of, it raises at the end.                         *)
Join ==
    /\ sup = "joining"
    /\ complaints' = complaints \cup (IF ThreadAlive THEN {"thread"} ELSE {})
                                 \cup (IF failure = "failed" THEN {"runtime"} ELSE {})
    /\ sup' = IF complaints' = {} THEN "closed" ELSE "raised"
    /\ UNCHANGED <<backend, thread, serving, listening, stop, failure, client,
                   backlog, bridged, launched, faults>>

----------------------------------------------------------------------------
(* The serve thread. *)

\* _serve: the next connection is accepted.
Accept ==
    /\ thread = "accept" /\ listening /\ backlog # <<>>
    /\ serving' = Head(backlog) /\ backlog' = Tail(backlog)
    /\ thread' = "auth"
    /\ UNCHANGED <<sup, backend, listening, stop, failure, client, bridged,
                   launched, faults, complaints>>

\* _serve: accept fails on a closed listener.
AcceptEnds ==
    /\ thread = "accept" /\ ~listening
    /\ thread' = "end"
    /\ failure' = IF stop THEN failure ELSE "failed"
    /\ UNCHANGED <<sup, backend, serving, listening, stop, client, backlog,
                   bridged, launched, faults, complaints>>

Answer(c, a) == IF Connected(c) THEN [client EXCEPT ![c] = a] ELSE client

\* The thread ends with the failure f.
Ends(f) == thread' = "end" /\ serving' = Absent /\ failure' = f

\* _serve: the supplied line is the bound token and identity.
Matches(c) == Kind[c] = "relay"

(* _serve: a line that does not match is denied and the loop goes on.      *)
(* Writing the denial to a process that has left may fail, which ends the  *)
(* thread.                                                                 *)
Deny ==
    /\ thread = "auth" /\ ~Matches(serving) /\ Kind[serving] # "silent"
    /\ client' = Answer(serving, "denied")
    /\ \/ /\ thread' = IF stop THEN "end" ELSE "accept"
          /\ serving' = Absent /\ failure' = failure
       \/ ~Connected(serving) /\ Ends("failed")
    /\ UNCHANGED <<sup, backend, listening, stop, backlog, bridged, launched,
                   faults, complaints>>

\* _serve: no line within the timeout is an OSError, which ends the thread.
AuthTimeout ==
    /\ thread = "auth" /\ Kind[serving] = "silent"
    /\ client' = Answer(serving, "closed")
    /\ Ends("failed")
    /\ UNCHANGED <<sup, backend, listening, stop, backlog, bridged, launched,
                   faults, complaints>>

\* _serve: the bound relay is refused for aperture none, with a typed denial,
\* unless it has left and the write fails.
DenyAperture ==
    /\ thread = "auth" /\ Matches(serving) /\ Aperture = "none"
    /\ client' = Answer(serving, "denied")
    /\ Ends("denied") \/ (~Connected(serving) /\ Ends("failed"))
    /\ UNCHANGED <<sup, backend, listening, stop, backlog, bridged, launched,
                   faults, complaints>>

\* _serve: the backend has died.
Unavailable ==
    /\ thread = "auth" /\ Matches(serving) /\ Aperture # "none"
    /\ backend # "alive"
    /\ client' = Answer(serving, "denied")
    /\ Ends("failed")
    /\ UNCHANGED <<sup, backend, listening, stop, backlog, bridged, launched,
                   faults, complaints>>

\* _serve: the thread stays in _bridge and then returns.
AfterAuth == "bridge"

(* _serve: the relay is accepted and bridged.  The bytes of a relay that   *)
(* gave up are still in the socket's buffer: it is accepted all the same,  *)
(* unless writing to it fails.                                             *)
Authenticate ==
    /\ thread = "auth" /\ Matches(serving) /\ Aperture # "none"
    /\ backend = "alive"
    /\ client' = Answer(serving, "bridged")
    /\ \/ thread' = AfterAuth /\ bridged' = bridged \cup {serving}
          /\ serving' = serving /\ failure' = failure
       \/ ~Connected(serving) /\ Ends("failed") /\ bridged' = bridged
    /\ UNCHANGED <<sup, backend, listening, stop, backlog, launched, faults, complaints>>

(* _bridge: the client's end of input closes the backend's stdin, on which *)
(* the backend exits; the input thread does so after the bridge, too.      *)
BridgeInput ==
    /\ backend = "alive" /\ \E c \in bridged : client[c] # "bridged"
    /\ backend' = "exited"
    /\ UNCHANGED <<sup, thread, serving, listening, stop, failure, client,
                   backlog, bridged, launched, faults, complaints>>

\* _bridge: a backend that exits ends the bridge.
BridgeEnds ==
    /\ thread = "bridge" /\ backend = "exited"
    /\ client' = [client EXCEPT ![serving] = IF @ = "bridged" THEN "done" ELSE @]
    /\ thread' = "end" /\ serving' = Absent
    /\ UNCHANGED <<sup, backend, listening, stop, failure, backlog, bridged,
                   launched, faults, complaints>>

\* _bridge: what the backend says cannot be written to a relay that has left.
BridgeBreaks ==
    /\ thread = "bridge" /\ client[serving] = "gone" /\ backend = "alive"
    /\ Ends("failed")
    /\ UNCHANGED <<sup, backend, listening, stop, client, backlog, bridged,
                   launched, faults, complaints>>

----------------------------------------------------------------------------
(* The processes that connect. *)

\* relay: create_connection, then the auth line is sent.
Connect(c) ==
    /\ client[c] = "idle" /\ listening
    /\ Kind[c] = "relay" => launched
    /\ client' = [client EXCEPT ![c] = "waiting"]
    /\ backlog' = Append(backlog, c)
    /\ UNCHANGED <<sup, backend, thread, serving, listening, stop, failure,
                   bridged, launched, faults, complaints>>

\* relay: nobody listens.
Unreachable(c) ==
    /\ client[c] = "idle" /\ ~listening
    /\ client' = [client EXCEPT ![c] = "reset"]
    /\ UNCHANGED <<sup, backend, thread, serving, listening, stop, failure,
                   backlog, bridged, launched, faults, complaints>>

\* relay: no answer within the timeout, and the connection is closed; another
\* process leaves when it likes.
GiveUp(c) ==
    /\ Connected(c) /\ Kind[c] # "silent"
    /\ \/ Kind[c] = "stray"
       \/ serving # c /\ serving # Absent       \* somebody else is being served
       \/ thread \in {Absent, "end"}            \* nobody serves any more
    /\ client' = [client EXCEPT ![c] = "gone"]
    /\ UNCHANGED <<sup, backend, thread, serving, listening, stop, failure,
                   backlog, bridged, launched, faults, complaints>>

\* relay: the worker's MCP client ends its session.
Leave(c) ==
    /\ client[c] = "bridged"
    /\ client' = [client EXCEPT ![c] = "gone"]
    /\ UNCHANGED <<sup, backend, thread, serving, listening, stop, failure,
                   backlog, bridged, launched, faults, complaints>>

\* The backend dies by itself.
BackendDies ==
    /\ backend = "alive" /\ faults < MaxFaults
    /\ backend' = "exited" /\ faults' = faults + 1
    /\ UNCHANGED <<sup, thread, serving, listening, stop, failure, client,
                   backlog, bridged, launched, complaints>>

----------------------------------------------------------------------------
Supervise == StartBackend \/ StartThread \/ Ready \/ Launch \/ Finish
             \/ CloseStep \/ StopBackend \/ Join

Serve == Accept \/ AcceptEnds \/ Deny \/ AuthTimeout \/ DenyAperture
         \/ Unavailable \/ Authenticate \/ BridgeInput \/ BridgeEnds
         \/ BridgeBreaks

Next == \/ Supervise \/ Serve \/ BackendDies
        \/ \E c \in Clients : Connect(c) \/ Unreachable(c) \/ GiveUp(c) \/ Leave(c)

Spec == Init /\ [][Next]_vars

(* The two threads run and the attempt ends; nobody has to connect.        *)
FairSpec == Spec /\ WF_vars(Supervise) /\ WF_vars(Serve)

----------------------------------------------------------------------------
(* Properties. *)

\* Type invariant.
BrokerTypeOK ==
    /\ sup \in {"new", "spawned", "starting", "ready", "closing", "stopping",
                "reaping", "joining", "closed", "raised"}
    /\ backend \in {Absent, "alive", "exited"}
    /\ thread \in {Absent, "accept", "auth", "bridge", "end"}
    /\ serving \in Clients \cup {Absent}
    /\ listening \in BOOLEAN /\ stop \in BOOLEAN /\ launched \in BOOLEAN
    /\ failure \in {"none", "failed", "denied"}
    /\ complaints \subseteq {"listener", "backend", "thread", "runtime"}
    /\ client \in [Clients -> {"idle", "waiting", "denied", "bridged", "closed",
                               "reset", "gone", "done"}]
    /\ backlog \in Seq(Clients) /\ bridged \subseteq Clients
    /\ faults \in 0..MaxFaults
    /\ serving # Absent <=> thread \in {"auth", "bridge"}

(* One attempt's vault session is one session: whatever connects, in       *)
(* whatever order, at most one connection ever reaches the backend, and it *)
(* presented the bound token and identity (_serve returns after _bridge).  *)
OneSession ==
    /\ Cardinality(bridged) <= 1
    /\ \A c \in bridged : Kind[c] = "relay"

(* Whatever was running when close began, close ends with no listening     *)
(* port, and a server process or a serve thread that is still there is one *)
(* close has said it could not stop: it raises unless nothing is left.     *)
CloseLeavesNothing ==
    sup \in {"closed", "raised"} =>
        /\ ~listening
        /\ backend = "alive" => "backend" \in complaints
        /\ ThreadAlive => "thread" \in complaints
        /\ sup = "closed" <=> complaints = {}

(* A failure that close reports has a cause: a fault, a connection that    *)
(* sent nothing, a process that left before its answer, or a relay that    *)
(* was turned away.  Closing the listener under a blocked accept is never  *)
(* reported as one.                                                        *)
FailureHasCause ==
    failure = "failed" =>
        \/ faults > 0
        \/ \E c \in Clients :
            client[c] \in IF Kind[c] = "relay" THEN {"gone", "denied"}
                                              ELSE {"gone", "closed"}

(* Aperture none: there is neither a backend nor a bridged connection,     *)
(* whoever presents the bound token.                                       *)
NoneIsADenial == Aperture = "none" => backend = Absent /\ bridged = {}

=============================================================================
