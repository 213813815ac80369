----------------------------- MODULE SSEManager -----------------------------
(***************************************************************************)
(* The live event stream of the dashboard and its shutdown: sse_manager.py,*)
(* the generator behind GET /stream (api/heartbeat.py) and the two-phase   *)
(* shutdown of dashboard_backend.py.                                       *)
(*                                                                         *)
(* Threads: one generator per client, polled by the web server; whoever    *)
(* broadcasts; the heartbeat thread; the threads that run stop(); the main *)
(* thread.  A step is what one of them does under the manager's lock, or   *)
(* between two operations on a queue or an event.  Time is abstracted: a   *)
(* timed wait may time out, and idle[c] says that IDLE_TIMEOUT has passed  *)
(* since c's last_data_event.  So are the messages: an event, a heartbeat  *)
(* and the shutdown notice are one "message", and messages that wait in a  *)
(* queue one behind the other are one.                                     *)
(***************************************************************************)
EXTENDS Naturals, Sequences, FiniteSets

CONSTANTS
    Client,      \* SSEClient objects, one per request
    MaxClients,  \* MAX_SSE_CLIENTS
    NULL         \* the poison pill

ASSUME SSEAssumption ==
    IsFiniteSet(Client) /\ MaxClients \in Nat /\ NULL # "message"

VARIABLES
    clients,         \* the registry
    connected,       \* flag of each client
    event_queue,     \* queue of each client
    idle,            \* no data event for IDLE_TIMEOUT
    request,         \* where the handler and generator of each client are
    shutdown_event,  \* _shutdown_event of the manager
    heartbeat,       \* where the heartbeat thread is
    stop,            \* where each run of stop() is
    should_exit,     \* the flag that asks the web server to end
    main             \* where the main thread is

vars == <<clients, connected, event_queue, idle, request, shutdown_event,
          heartbeat, stop, should_exit, main>>

clientVars == <<clients, connected, event_queue, idle>>
lifeVars == <<shutdown_event, heartbeat, stop, should_exit, main>>

\* stop() is run by the thread of the signal handler or by the main thread.
Stopper == {"signal", "main"}

\* All other threads are daemons: they end with the main thread.
Running == main \notin {"done", "quit"}

Put(queue, msg) ==
    IF queue # <<>> /\ queue[Len(queue)] = msg THEN queue ELSE Append(queue, msg)

\* A message to the clients of one set, SSEClient.close() of those of another.
Post(to, closed) ==
    /\ connected' = [c \in Client |-> c \notin closed /\ connected[c]]
    /\ event_queue' = [c \in Client |->
                          IF c \in closed THEN Put(event_queue[c], NULL)
                          ELSE IF c \in to THEN Put(event_queue[c], "message")
                          ELSE event_queue[c]]

Alive == {c \in clients : connected[c]}

-----------------------------------------------------------------------------
(* The request handler sse_stream and its generator. *)

Go(c, from, to) ==
    /\ Running
    /\ request[c] = from
    /\ request' = [request EXCEPT ![c] = to]

\* The first look at the cap, before the client exists.
Request(c) ==
    /\ main = "serving"
    /\ Go(c, "none", IF Cardinality(clients) < MaxClients THEN "register" ELSE "ended")
    /\ UNCHANGED <<clientVars, lifeVars>>

\* Variant with a bug: the first look is taken for good.
RegisterUnchecked(c) ==
    /\ Go(c, "register", "check")
    /\ clients' = clients \cup {c}
    /\ connected' = [connected EXCEPT ![c] = TRUE]
    /\ UNCHANGED <<event_queue, idle, lifeVars>>

Register(c) ==
    /\ IF Cardinality(clients) < MaxClients
       THEN /\ Go(c, "register", "check")
            /\ clients' = clients \cup {c}
            /\ connected' = [connected EXCEPT ![c] = TRUE]
       ELSE /\ Go(c, "register", "ended")
            /\ UNCHANGED <<clients, connected>>
    /\ UNCHANGED <<event_queue, idle, lifeVars>>

CheckConnected(c) ==
    /\ Go(c, "check", IF connected[c] THEN "get" ELSE "close")
    /\ UNCHANGED <<clientVars, lifeVars>>

\* The poison pill ends the loop, any other message is yielded.
GetMessage(c) ==
    /\ event_queue[c] # <<>>
    /\ Go(c, "get", IF Head(event_queue[c]) = NULL THEN "close" ELSE "yield")
    /\ event_queue' = [event_queue EXCEPT ![c] = Tail(@)]
    /\ UNCHANGED <<clients, connected, idle, lifeVars>>

GetTimesOut(c) ==
    /\ event_queue[c] = <<>>
    /\ Go(c, "get", "check")
    /\ UNCHANGED <<clientVars, lifeVars>>

\* The message was sent, or the browser has gone and the generator is closed
\* where it yielded.
Resume(c) ==
    /\ Go(c, "yield", "check")
    /\ UNCHANGED <<clientVars, lifeVars>>

Disconnect(c) ==
    /\ Go(c, "yield", "close")
    /\ UNCHANGED <<clientVars, lifeVars>>

\* The finally clause.
CloseClient(c) ==
    /\ Go(c, "close", "unregister")
    /\ Post({}, {c})
    /\ UNCHANGED <<clients, idle, lifeVars>>

\* The object with its queue is garbage from then on.
Unregister(c) ==
    /\ Go(c, "unregister", "ended")
    /\ clients' = clients \ {c}
    /\ event_queue' = [event_queue EXCEPT ![c] = <<>>]
    /\ idle' = [idle EXCEPT ![c] = FALSE]
    /\ UNCHANGED <<connected, lifeVars>>

-----------------------------------------------------------------------------
(* Broadcasts, the heartbeat thread and the passing of time. *)

Broadcast ==
    /\ Running
    /\ clients' = Alive
    /\ Post(Alive, {})
    /\ idle' = [c \in Client |-> c \notin Alive /\ idle[c]]
    /\ UNCHANGED <<request, lifeVars>>

GrowIdle(c) ==
    /\ Running /\ c \in clients /\ ~idle[c]
    /\ idle' = [idle EXCEPT ![c] = TRUE]
    /\ UNCHANGED <<clients, connected, event_queue, request, lifeVars>>

\* The wait ends after HEARTBEAT_INTERVAL or with the shutdown event.
HeartbeatWake ==
    /\ Running /\ heartbeat = "wait"
    /\ heartbeat' = IF shutdown_event THEN "ended" ELSE "sweep"
    /\ UNCHANGED <<clientVars, request, shutdown_event, stop, should_exit, main>>

\* Variant with a bug: the sweep looks at the connection only.
SweepKeepsIdle ==
    /\ Running /\ heartbeat = "sweep"
    /\ heartbeat' = "wait"
    /\ Post(Alive, clients \ Alive)
    /\ clients' = Alive
    /\ UNCHANGED <<idle, request, shutdown_event, stop, should_exit, main>>

\* Disconnected and idle clients are closed and dropped, the others get a
\* heartbeat.  shutdown_event is not looked at again under the lock.
HeartbeatSweep ==
    LET dead == {c \in clients : ~connected[c] \/ idle[c]}
    IN  /\ Running /\ heartbeat = "sweep"
        /\ heartbeat' = "wait"
        /\ Post(clients \ dead, dead)
        /\ clients' = clients \ dead
        /\ UNCHANGED <<idle, request, shutdown_event, stop, should_exit, main>>

-----------------------------------------------------------------------------
(* stop() *)

StopGo(s, from, to) ==
    /\ Running
    /\ stop[s] = from
    /\ stop' = [stop EXCEPT ![s] = to]

StopBegin(s) ==
    /\ StopGo(s, "begin", "announce")
    /\ shutdown_event' = TRUE
    /\ UNCHANGED <<clientVars, request, heartbeat, should_exit, main>>

\* The join that follows ends with the heartbeat thread or after 3 s.
StopAnnounce(s) ==
    /\ StopGo(s, "announce", "close")
    /\ Post(clients, {})
    /\ UNCHANGED <<clients, idle, request, shutdown_event, heartbeat,
                   should_exit, main>>

\* Variant with a bug: the registry is cleared, the clients stay open.
StopForgets(s) ==
    /\ StopGo(s, "close", "done")
    /\ clients' = {}
    /\ UNCHANGED <<connected, event_queue, idle, request, shutdown_event,
                   heartbeat, should_exit, main>>

StopClose(s) ==
    /\ StopGo(s, "close", "done")
    /\ Post({}, clients)
    /\ clients' = {}
    /\ UNCHANGED <<idle, request, shutdown_event, heartbeat, should_exit, main>>

-----------------------------------------------------------------------------
(* The main thread: run_server. *)

\* The first interrupt: start a thread that runs stop(), then ask the web
\* server to exit.
Interrupt ==
    /\ Running /\ ~should_exit
    /\ should_exit' = TRUE
    /\ stop' = [stop EXCEPT !["signal"] = "begin"]
    /\ UNCHANGED <<clientVars, request, shutdown_event, heartbeat, main>>

\* A second interrupt ends the process at once.
ForceQuit ==
    /\ Running /\ should_exit
    /\ main' = "quit"
    /\ UNCHANGED <<clientVars, request, shutdown_event, heartbeat, stop,
                   should_exit>>

\* The web server notices the flag and accepts no further connection.
StopAccepting ==
    /\ main = "serving" /\ should_exit
    /\ main' = "draining"
    /\ UNCHANGED <<clientVars, request, shutdown_event, heartbeat, stop,
                   should_exit>>

\* It returns when every response is complete.
ServerReturns ==
    /\ main = "draining"
    /\ \A c \in Client : request[c] \in {"none", "ended"}
    /\ main' = "finally"
    /\ UNCHANGED <<clientVars, request, shutdown_event, heartbeat, stop,
                   should_exit>>

\* It also returns when it cannot start, before any request.
ServerFails ==
    /\ main = "serving"
    /\ \A c \in Client : request[c] = "none"
    /\ main' = "finally"
    /\ UNCHANGED <<clientVars, request, shutdown_event, heartbeat, stop,
                   should_exit>>

\* The guard against a second stop() looks at the event only.
MainStop ==
    /\ main = "finally"
    /\ IF shutdown_event
       THEN main' = "done" /\ UNCHANGED stop
       ELSE main' = "stopping" /\ stop' = [stop EXCEPT !["main"] = "begin"]
    /\ UNCHANGED <<clientVars, request, shutdown_event, heartbeat, should_exit>>

MainStopped ==
    /\ main = "stopping" /\ stop["main"] = "done"
    /\ main' = "done"
    /\ UNCHANGED <<clientVars, request, shutdown_event, heartbeat, stop,
                   should_exit>>

-----------------------------------------------------------------------------
Init ==
    /\ clients = {}
    /\ connected = [c \in Client |-> FALSE]
    /\ event_queue = [c \in Client |-> <<>>]
    /\ idle = [c \in Client |-> FALSE]
    /\ request = [c \in Client |-> "none"]
    /\ shutdown_event = FALSE
    /\ heartbeat = "wait"
    /\ stop = [s \in Stopper |-> "idle"]
    /\ should_exit = FALSE
    /\ main = "serving"

ClientStep(c) ==
    \/ Register(c) \/ CheckConnected(c) \/ GetMessage(c) \/ GetTimesOut(c)
    \/ Resume(c)
    \/ CloseClient(c) \/ Unregister(c)

HeartbeatStep == HeartbeatWake \/ HeartbeatSweep

StopStep(s) == StopBegin(s) \/ StopAnnounce(s) \/ StopClose(s)

MainStep == StopAccepting \/ ServerReturns \/ MainStop \/ MainStopped

\* What nobody has to do: requests, broadcasts, time, operators.
External ==
    \/ \E c \in Client : Request(c) \/ Disconnect(c) \/ GrowIdle(c)
    \/ Broadcast
    \/ Interrupt \/ ForceQuit \/ ServerFails

Next ==
    \/ \E c \in Client : ClientStep(c)
    \/ HeartbeatStep
    \/ \E s \in Stopper : StopStep(s)
    \/ MainStep
    \/ External

Spec == Init /\ [][Next]_vars

\* Every thread that can go on does, as long as the process runs.
Fairness ==
    /\ \A c \in Client : WF_vars(ClientStep(c))
    /\ WF_vars(HeartbeatStep)
    /\ \A s \in Stopper : WF_vars(StopStep(s))
    /\ WF_vars(MainStep)

FairSpec == Spec /\ Fairness

-----------------------------------------------------------------------------
(* Properties *)

Looping == {"check", "get", "yield", "close", "unregister"}

\* Every variable has its shape; the heartbeat thread ends for a shutdown only.
SSETypeOK ==
    /\ clients \subseteq Client
    /\ connected \in [Client -> BOOLEAN]
    /\ event_queue \in [Client -> Seq({"message", NULL})]
    /\ idle \in [Client -> BOOLEAN]
    /\ request \in [Client -> {"none", "register", "ended"} \cup Looping]
    /\ shutdown_event \in BOOLEAN
    /\ heartbeat \in {"wait", "sweep", "ended"}
    /\ heartbeat = "ended" => shutdown_event
    /\ stop \in [Stopper -> {"idle", "begin", "announce", "close", "done"}]
    /\ should_exit \in BOOLEAN
    /\ main \in {"serving", "draining", "finally", "stopping", "done", "quit"}

\* The cap holds although it is first looked at outside the lock, and every
\* place under it belongs to a generator that is still there to give it back
\* (api/heartbeat.py:102-111, sse_manager.py:107-114).
SlotsHeld ==
    /\ Cardinality(clients) <= MaxClients
    /\ \A c \in clients : request[c] \in Looping

\* A generator outside the registry can no longer be told anything; whoever
\* dropped it has told it to end (sse_manager.py:99-102, 139-148, 159-174).
DroppedKnows ==
    \A c \in Client :
        request[c] \in Looping \ {"close", "unregister"} /\ c \notin clients =>
            ~connected[c]

\* A client that stop() finds in the registry has its generator ended, or the
\* process is over (sse_manager.py:99-102).
StopEndsClients ==
    \A c \in Client :
        (c \in clients /\ \E s \in Stopper : stop[s] = "close")
            ~> (request[c] = "ended" \/ ~Running)

\* An idle client is dropped unless data or the shutdown comes first
\* (sse_manager.py:165-174): the heartbeat thread comes round and sees it,
\* whoever connects and disconnects in the meantime.
IdleReaped ==
    \A c \in Client :
        (c \in clients /\ idle[c])
            ~> (c \notin clients \/ ~idle[c] \/ shutdown_event \/ ~Running)

\* Nobody is left to close a client that registers when stop() is through.
Orphan(c) == c \in clients /\ \E s \in Stopper : stop[s] = "done"

\* "Once SSE queues receive their poison pill the generators finish and uvicorn
\* can complete its graceful shutdown" (dashboard_backend.py:117-118).
Drains == should_exit ~> ~Running

\* It does whenever no client registers after stop() went through.
DrainsUnlessOrphan == should_exit ~> (~Running \/ \E c \in Client : Orphan(c))

=============================================================================
