-------------------------- MODULE SSEManager_proofs --------------------------
(***************************************************************************)
(* Safety of the event stream for any number of clients and any cap: the   *)
(* conjunction of the type invariant, SlotsHeld and DroppedKnows is        *)
(* inductive.                                                              *)
(***************************************************************************)
EXTENDS SSEManager, FiniteSetTheorems, TLAPS

Posted == {"message", NULL}

\* A queue stays a queue of messages and pills.
LEMMA PutType ==
    ASSUME NEW q \in Seq(Posted), NEW m \in Posted
    PROVE  Put(q, m) \in Seq(Posted)
BY DEF Put

\* Posting keeps the shape of the flags and the queues.
LEMMA PostType ==
    ASSUME SSETypeOK, NEW to, NEW closed, Post(to, closed)
    PROVE  /\ connected' \in [Client -> BOOLEAN]
           /\ event_queue' \in [Client -> Seq(Posted)]
<1>1. connected' \in [Client -> BOOLEAN]
  BY Zenon DEF Post, SSETypeOK
<1>2. ASSUME NEW c \in Client
      PROVE  /\ Put(event_queue[c], NULL) \in Seq(Posted)
             /\ Put(event_queue[c], "message") \in Seq(Posted)
             /\ event_queue[c] \in Seq(Posted)
  <2>1. event_queue[c] \in Seq(Posted)
    BY DEF SSETypeOK, Posted
  <2>2. NULL \in Posted /\ "message" \in Posted
    BY DEF Posted
  <2> QED BY <2>1, <2>2, PutType
<1> QED BY <1>1, <1>2 DEF Post

\* Only the flags of the clients to be closed fall.
LEMMA PostFlags ==
    ASSUME NEW to, NEW closed, Post(to, closed), NEW c \in Client
    PROVE  connected'[c] <=> (c \notin closed /\ connected[c])
BY DEF Post

\* A smaller registry is within the cap, too.
LEMMA Fewer ==
    ASSUME SSETypeOK, Cardinality(clients) <= MaxClients,
           NEW S \in SUBSET clients
    PROVE  Cardinality(S) <= MaxClients
<1>1. IsFiniteSet(clients)
  BY SSEAssumption, FS_Subset DEF SSETypeOK
<1>2. Cardinality(S) <= Cardinality(clients) /\ IsFiniteSet(S)
  BY <1>1, FS_Subset
<1>3. Cardinality(S) \in Nat /\ Cardinality(clients) \in Nat
  BY <1>1, <1>2, FS_CardinalityType
<1> QED BY <1>2, <1>3, SSEAssumption

SSEInv == SSETypeOK /\ SlotsHeld /\ DroppedKnows

LEMMA SSEInitially == Init => SSEInv
<1> SUFFICES ASSUME Init PROVE SSEInv
  OBVIOUS
<1>1. SSETypeOK
  <2>1. event_queue \in [Client -> Seq({"message", NULL})]
    BY DEF Init
  <2>2. request \in [Client -> {"none", "register", "ended"} \cup Looping]
    BY DEF Init
  <2> QED BY <2>1, <2>2 DEF Init, SSETypeOK
<1>2. SlotsHeld
  BY FS_EmptySet, SSEAssumption DEF Init, SlotsHeld
<1>3. DroppedKnows
  BY DEF Init, DroppedKnows, Looping
<1> QED BY <1>1, <1>2, <1>3 DEF SSEInv

\* The steps of a request and its generator.
LEMMA ClientKeeps ==
    ASSUME SSEInv, NEW c \in Client,
           ClientStep(c) \/ Request(c) \/ Disconnect(c) \/ GrowIdle(c)
    PROVE  SSEInv'
<1> USE DEF SSEInv
<1>1. CASE Request(c)
  <2>1. SSETypeOK'
    BY <1>1 DEF Request, Go, SSETypeOK, clientVars, lifeVars, Looping
  <2>2. SlotsHeld' /\ DroppedKnows'
    BY <1>1 DEF Request, Go, SSETypeOK, SlotsHeld, DroppedKnows, clientVars, Looping
  <2> QED BY <2>1, <2>2
<1>2. CASE Register(c)
  <2>1. SSETypeOK'
    BY <1>2 DEF Register, Go, SSETypeOK, lifeVars, Looping
  <2>2. Cardinality(clients') <= MaxClients
    <3>1. CASE Cardinality(clients) < MaxClients
      <4>1. IsFiniteSet(clients)
        BY SSEAssumption, FS_Subset DEF SSETypeOK
      <4>2. /\ Cardinality(clients) \in Nat
            /\ Cardinality(clients \cup {c}) =
                  IF c \in clients THEN Cardinality(clients) ELSE Cardinality(clients) + 1
        BY <4>1, FS_AddElement, FS_CardinalityType
      <4>3. clients' = clients \cup {c}
        BY <1>2, <3>1 DEF Register
      <4> QED BY <3>1, <4>2, <4>3, SSEAssumption
    <3>2. CASE ~(Cardinality(clients) < MaxClients)
      BY <1>2, <3>2 DEF Register, SlotsHeld
    <3> QED BY <3>1, <3>2
  <2>3. \A k \in clients' : request'[k] \in Looping
    BY <1>2 DEF Register, Go, SSETypeOK, SlotsHeld, Looping
  <2>4. DroppedKnows'
    BY <1>2 DEF Register, Go, SSETypeOK, DroppedKnows, Looping
  <2> QED BY <2>1, <2>2, <2>3, <2>4 DEF SlotsHeld
<1>3. CASE CheckConnected(c)
  <2>1. SSETypeOK'
    BY <1>3 DEF CheckConnected, Go, SSETypeOK, clientVars, lifeVars, Looping
  <2>2. SlotsHeld' /\ DroppedKnows'
    BY <1>3 DEF CheckConnected, Go, SSETypeOK, SlotsHeld, DroppedKnows, clientVars, Looping
  <2> QED BY <2>1, <2>2
<1>4. CASE GetMessage(c)
  <2>1. Tail(event_queue[c]) \in Seq(Posted)
    BY <1>4 DEF GetMessage, SSETypeOK, Posted
  <2>2. SSETypeOK'
    BY <1>4, <2>1 DEF GetMessage, Go, SSETypeOK, lifeVars, Looping, Posted
  <2>3. SlotsHeld' /\ DroppedKnows'
    BY <1>4 DEF GetMessage, Go, SSETypeOK, SlotsHeld, DroppedKnows, Looping
  <2> QED BY <2>2, <2>3
<1>5. CASE GetTimesOut(c) \/ Resume(c) \/ Disconnect(c)
  <2>1. SSETypeOK'
    BY <1>5 DEF GetTimesOut, Resume, Disconnect, Go, SSETypeOK, clientVars, lifeVars, Looping
  <2>2. SlotsHeld' /\ DroppedKnows'
    BY <1>5 DEF GetTimesOut, Resume, Disconnect, Go, SSETypeOK, SlotsHeld, DroppedKnows,
                clientVars, Looping
  <2> QED BY <2>1, <2>2
<1>6. CASE CloseClient(c)
  <2>1. Post({}, {c}) /\ clients' = clients /\ idle' = idle
        /\ lifeVars' = lifeVars /\ request' = [request EXCEPT ![c] = "unregister"]
        /\ request[c] = "close"
    BY <1>6 DEF CloseClient, Go
  <2>2. SSETypeOK'
    BY <2>1, PostType DEF SSETypeOK, lifeVars, Looping, Posted
  <2>3. SlotsHeld'
    BY <2>1 DEF SSETypeOK, SlotsHeld, Looping
  <2>4. DroppedKnows'
    BY <2>1, PostFlags DEF SSETypeOK, DroppedKnows, Looping
  <2> QED BY <2>2, <2>3, <2>4
<1>7. CASE Unregister(c)
  <2>1. SSETypeOK'
    BY <1>7 DEF Unregister, Go, SSETypeOK, lifeVars, Looping
  <2>2. SlotsHeld'
    BY <1>7, Fewer DEF Unregister, Go, SSETypeOK, SlotsHeld, Looping
  <2>3. DroppedKnows'
    BY <1>7 DEF Unregister, Go, SSETypeOK, DroppedKnows, Looping
  <2> QED BY <2>1, <2>2, <2>3
<1>8. CASE GrowIdle(c)
  BY <1>8 DEF GrowIdle, SSETypeOK, SlotsHeld, DroppedKnows, lifeVars
<1> QED BY <1>1, <1>2, <1>3, <1>4, <1>5, <1>6, <1>7, <1>8 DEF ClientStep

\* The steps that go through the whole registry.
LEMMA RegistryKeeps ==
    ASSUME SSEInv, NEW to, NEW closed, NEW rest \in SUBSET clients,
           Post(to, closed), clients' = rest, request' = request,
           \A c \in clients \ rest : c \in closed \/ ~connected[c],
           idle' \in [Client -> BOOLEAN],
           UNCHANGED <<shutdown_event, should_exit, main>>,
           heartbeat' \in {"wait", heartbeat},
           stop' \in [Stopper -> {"idle", "begin", "announce", "close", "done"}]
    PROVE  SSEInv'
<1> USE DEF SSEInv
<1>1. SSETypeOK'
  BY PostType DEF SSETypeOK, Posted
<1>2. SlotsHeld'
  BY Fewer DEF SlotsHeld
<1>3. DroppedKnows'
  BY PostFlags DEF DroppedKnows
<1> QED BY <1>1, <1>2, <1>3

\* Steps that leave the clients and their requests alone.
LEMMA OthersKeep ==
    ASSUME SSEInv, UNCHANGED <<clientVars, request>>, SSETypeOK'
    PROVE  SSEInv'
BY DEF SSEInv, SlotsHeld, DroppedKnows, clientVars

LEMMA SSEStep == SSEInv /\ [Next]_vars => SSEInv'
<1> SUFFICES ASSUME SSEInv, [Next]_vars PROVE SSEInv'
  OBVIOUS
<1> USE DEF SSEInv
<1>1. ASSUME NEW c \in Client,
             ClientStep(c) \/ Request(c) \/ Disconnect(c) \/ GrowIdle(c)
      PROVE  SSEInv'
  BY <1>1, ClientKeeps
<1>2. CASE Broadcast
  <2>1. /\ Alive \in SUBSET clients
        /\ \A c \in clients \ Alive : ~connected[c]
    BY DEF Alive
  <2>2. /\ Post(Alive, {}) /\ clients' = Alive /\ request' = request
        /\ UNCHANGED <<shutdown_event, should_exit, main>>
        /\ heartbeat' = heartbeat /\ stop' = stop
    BY <1>2 DEF Broadcast, lifeVars
  <2>3. idle' \in [Client -> BOOLEAN]
    BY <1>2 DEF Broadcast, SSETypeOK
  <2> QED BY <2>1, <2>2, <2>3, RegistryKeeps DEF SSETypeOK
<1>3. CASE HeartbeatSweep
  <2> DEFINE dead == {c \in clients : ~connected[c] \/ idle[c]}
  <2>1. /\ Post(clients \ dead, dead) /\ clients' = clients \ dead /\ request' = request
        /\ UNCHANGED <<shutdown_event, should_exit, main>>
        /\ heartbeat' = "wait" /\ stop' = stop /\ idle' = idle
    BY <1>3 DEF HeartbeatSweep
  <2> HIDE DEF dead
  <2>2. \A c \in clients \ (clients \ dead) : c \in dead
    OBVIOUS
  <2> QED BY <2>1, <2>2, RegistryKeeps DEF SSETypeOK
<1>4. ASSUME NEW s \in Stopper, StopAnnounce(s)
      PROVE  SSEInv'
  <2>1. /\ Post(clients, {}) /\ clients' = clients /\ request' = request
        /\ UNCHANGED <<shutdown_event, should_exit, main>>
        /\ heartbeat' = heartbeat /\ idle' = idle
    BY <1>4 DEF StopAnnounce
  <2>2. stop' \in [Stopper -> {"idle", "begin", "announce", "close", "done"}]
    BY <1>4 DEF StopAnnounce, StopGo, SSETypeOK
  <2> QED BY <2>1, <2>2, RegistryKeeps DEF SSETypeOK
<1>5. ASSUME NEW s \in Stopper, StopClose(s)
      PROVE  SSEInv'
  <2>1. /\ Post({}, clients) /\ clients' = {} /\ request' = request
        /\ UNCHANGED <<shutdown_event, should_exit, main>>
        /\ heartbeat' = heartbeat /\ idle' = idle
    BY <1>5 DEF StopClose
  <2>2. stop' \in [Stopper -> {"idle", "begin", "announce", "close", "done"}]
    BY <1>5 DEF StopClose, StopGo, SSETypeOK
  <2> QED BY <2>1, <2>2, RegistryKeeps DEF SSETypeOK
<1>6. ASSUME NEW s \in Stopper, StopBegin(s)
      PROVE  SSEInv'
  <2>1. UNCHANGED <<clientVars, request>>
    BY <1>6 DEF StopBegin
  <2>2. SSETypeOK'
    BY <1>6 DEF StopBegin, StopGo, SSETypeOK, clientVars
  <2> QED BY <2>1, <2>2, OthersKeep
<1>7. CASE HeartbeatWake
  <2>1. UNCHANGED <<clientVars, request>>
    BY <1>7 DEF HeartbeatWake
  <2>2. SSETypeOK'
    BY <1>7 DEF HeartbeatWake, SSETypeOK, clientVars
  <2> QED BY <2>1, <2>2, OthersKeep
<1>8. CASE Interrupt \/ ForceQuit \/ ServerFails \/ MainStep
  <2>1. UNCHANGED <<clientVars, request>>
    BY <1>8 DEF Interrupt, ForceQuit, ServerFails, MainStep, StopAccepting,
                ServerReturns, MainStop, MainStopped
  <2>2. UNCHANGED <<shutdown_event, heartbeat>>
    BY <1>8 DEF Interrupt, ForceQuit, ServerFails, MainStep, StopAccepting,
                ServerReturns, MainStop, MainStopped
  <2>3. /\ stop' \in [Stopper -> {"idle", "begin", "announce", "close", "done"}]
        /\ should_exit' \in BOOLEAN
        /\ main' \in {"serving", "draining", "finally", "stopping", "done", "quit"}
    BY <1>8 DEF Interrupt, ForceQuit, ServerFails, MainStep, StopAccepting,
                ServerReturns, MainStop, MainStopped, SSETypeOK
  <2>4. SSETypeOK'
    BY <2>1, <2>2, <2>3 DEF SSETypeOK, clientVars
  <2> QED BY <2>1, <2>4, OthersKeep
<1>9. CASE UNCHANGED vars
  BY <1>9 DEF vars, SSETypeOK, SlotsHeld, DroppedKnows
<1> QED
  BY <1>1, <1>2, <1>3, <1>4, <1>5, <1>6, <1>7, <1>8, <1>9
     DEF Next, External, HeartbeatStep, StopStep

LEMMA SSEInvariant == Spec => []SSEInv
BY SSEInitially, SSEStep, PTL DEF Spec

-----------------------------------------------------------------------------
\* Every variable of the stream keeps its shape, and the heartbeat thread runs
\* until the shutdown (sse_manager.py:152-174).
THEOREM SSETypeCorrect == Spec => []SSETypeOK
BY SSEInvariant, PTL DEF SSEInv

\* The cap on clients is never exceeded, however many requests race between
\* its two checks, and no place leaks (api/heartbeat.py:102-111).
THEOREM SlotsAreHeld == Spec => []SlotsHeld
BY SSEInvariant, PTL DEF SSEInv

\* Whoever drops a client from the registry has told its generator to end
\* (sse_manager.py:99-102, 139-148, 159-174).
THEOREM DroppedKnow == Spec => []DroppedKnows
BY SSEInvariant, PTL DEF SSEInv

=============================================================================
