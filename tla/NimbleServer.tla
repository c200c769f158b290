---------------------------- MODULE NimbleServer ----------------------------
(***************************************************************************)
(* The nimble authoritative step server (src/src/lib/server.c, req_step.c, *)
(* transport_connection.c) together with the host application that drives *)
(* it and the clients that send it datagrams.                              *)
(*                                                                         *)
(* The host calls the server from one thread: nimbleServerUpdate drains up *)
(* to Batch datagrams from the multitransport and feeds each one to the    *)
(* request dispatcher; between updates the host may notify connects and    *)
(* disconnects, restart the game, and must provide a game state when       *)
(* nimbleServerMustProvideGameState says so.  The transport (the OS side)  *)
(* connects and disconnects slots and delivers datagrams at any time.      *)
(*                                                                         *)
(* A handler is modelled as a function from a server state record          *)
(*   [tcs, conns, auth, parts, err]                                        *)
(* to the state it leaves, so that every call it makes, and an error part  *)
(* way through, is part of the one step that feeds the datagram.           *)
(*                                                                         *)
(* Abstractions: a client's predicted step for tick t is the value t, so   *)
(* the authoritative ring records which tick each contribution was meant   *)
(* for; one participant per connection (MAX_LOCAL_PLAYERS = 1); stats,     *)
(* logging, ordered-datagram-out sequence numbers and blob-stream channels *)
(* are left out.                                                           *)
(***************************************************************************)
EXTENDS Integers, Sequences, FiniteSets, FiniteSetsExt

CONSTANTS
    Slots,              \* transport connection indices the transport reports
    Pool,               \* participant connection pool (maxConnectionCount)
    ParticipantIds,     \* participant ids the registry hands out
    Window,             \* NBS_WINDOW_SIZE
    CatchUp,            \* NBD_REASONABLE_NUMBER_OF_STEPS_TO_CATCHUP_FOR_JOINERS
    Batch,              \* datagrams drained per nimbleServerUpdate (32)
    MaxStepsInDatagram, \* predicted steps one GameStep datagram carries
    MaxStepId,          \* model bound: no step id reaches MaxStepId
    ReInitStepIds,      \* step ids the host restarts a game at
    DebugIsFrozen,      \* game->debugIsFrozen
    None,               \* model value: a null pointer / unset id
    Forced              \* model value: a synthesized (forced) step

ASSUME Window \in Nat \ {0} /\ Batch \in Nat \ {0}
ASSUME ReInitStepIds \subseteq 0..MaxStepId
ASSUME Pool \subseteq Nat /\ ParticipantIds \subseteq Nat \ {0}

Steps == INSTANCE NimbleSteps

StepIds == 0..MaxStepId

(* nextAuthoritativeStepIdToSend before an initial state is determined:  *)
(* 0xFFFFFFFF in the code, above every step id; TLC's integers are 32-bit *)
(* signed, so the first value above the model's step ids stands for it.   *)
UnsetStepId == MaxStepId + 1

Phases == {"Idle", "InitialStateDetermined", "WaitingForReconnect"}

Commands == {"JoinGameRequest", "DownloadGameStateRequest",
             "DownloadGameStateStatus", "Unknown"}

(* Datagrams a client may send: a GameStep carries the step the client is *)
(* waiting for and a run of predicted steps first..first+count-1.         *)
Messages ==
    [cmd : {"GameStep"}, waiting : StepIds, first : 0..MaxStepId - 1,
     count : 1..MaxStepsInDatagram]
    \cup {[cmd |-> c] : c \in Commands}

VARIABLES
    transportConnections, \* self->transportConnections[]
    connections,          \* self->connections: the participant connection pool
    authoritativeSteps,   \* game.authoritativeSteps
    latestStateStepId,    \* game.latestState.stepId
    participants,         \* participant ids the game has handed out
    draining,             \* inside nimbleServerReadFromMultiTransport
    drainedCount,         \* its loop index i
    hostMustProvide,      \* the host saw nimbleServerMustProvideGameState
    transportConnected    \* the transport's own view of each slot

vars == <<transportConnections, connections, authoritativeSteps,
          latestStateStepId, participants, draining, drainedCount,
          hostMustProvide, transportConnected>>

-----------------------------------------------------------------------------
(* Transport connection (transport_connection.c) *)

TransportConnectionInit(tc) ==
    [tc EXCEPT !.isUsed = TRUE,
               !.phase = "Idle",
               !.nextAuthoritativeStepIdToSend = UnsetStepId]

(* Mutant: the cursor set to the last step already known, one before.   *)
SetGameStateTickIdOneBefore(tc, stepId) ==
    [tc EXCEPT !.phase = "InitialStateDetermined",
               !.nextAuthoritativeStepIdToSend = stepId - 1]

(* Mutant: the phase moves on but the cursor keeps its old value. *)
SetGameStateTickIdKeepsCursor(tc, stepId) ==
    [tc EXCEPT !.phase = "InitialStateDetermined"]

TransportConnectionSetGameStateTickId(tc, stepId) ==
    [tc EXCEPT !.phase = "InitialStateDetermined",
               !.nextAuthoritativeStepIdToSend = stepId]

(* Participant connection pool (participant_connection.h; the .c files    *)
(* are not in this repository).                                           *)

FreedParticipantConnection ==
    [isUsed |-> FALSE, transportConnectionId |-> None, participantId |-> None,
     steps |-> Steps!ReInit(0), forcedStepInRowCounter |-> 0]

ParticipantConnectionInit(transportConnectionId, participantId, latestAuthoritativeStepId) ==
    [isUsed |-> TRUE, transportConnectionId |-> transportConnectionId,
     participantId |-> participantId,
     steps |-> Steps!ReInit(latestAuthoritativeStepId),
     forcedStepInRowCounter |-> 0]

(* nbdParticipantConnectionsFindConnection: the first pool entry created  *)
(* for the slot, in use or freed.                                         *)
FindConnection(conns, connectionIndex) ==
    LET found == {c \in Pool : conns[c].transportConnectionId = connectionIndex}
    IN  IF found = {} THEN None ELSE Min(found)

UsedConnections(conns) == {c \in Pool : conns[c].isUsed}

-----------------------------------------------------------------------------
(* Game *)

(* nimbleServerMustProvideGameState.  The code compares an int difference *)
(* of two uint32 ids with a size_t, so a negative difference would count  *)
(* as huge; in every reachable state latest <= write id, so the plain     *)
(* difference is the same value.                                          *)
MustProvideGameState(auth, latest) ==
    Steps!ExpectedWriteId(auth) - latest > CatchUp

-----------------------------------------------------------------------------
(* The GameStep request (req_step.c) *)

(* Mutant: trims at the threshold instead of above it, one step too many. *)
DiscardOneTooMany(auth) ==
    LET maxCapacity == Window \div 3
    IN  IF Steps!StepsCount(auth) >= maxCapacity /\ Steps!StepsCount(auth) > 0
        THEN Steps!DiscardCount(auth, Steps!StepsCount(auth) - maxCapacity + 1)
        ELSE auth

DiscardAuthoritativeStepsIfBufferGettingFull(auth) ==
    LET maxCapacity == Window \div 3
    IN  IF Steps!StepsCount(auth) > maxCapacity
        THEN Steps!DiscardCount(auth, Steps!StepsCount(auth) - maxCapacity)
        ELSE auth

(* Append predicted steps id..id+n-1 to an incoming ring: earlier ids are *)
(* duplicates and dropped, a gap or a full ring is an error.               *)
RECURSIVE IngestSteps(_, _, _)
IngestSteps(ring, id, n) ==
    IF n = 0 THEN [ring |-> ring, err |-> FALSE]
    ELSE IF id < Steps!ExpectedWriteId(ring) THEN IngestSteps(ring, id + 1, n - 1)
    ELSE IF id > Steps!ExpectedWriteId(ring) \/ Steps!IsFull(ring)
         THEN [ring |-> ring, err |-> TRUE]
    ELSE IngestSteps(Steps!Write(ring, id), id + 1, n - 1)

(* nimbleServerHandleIncomingSteps: steps go to the participant           *)
(* connection the transport connection is assigned.                       *)
HandleIncomingSteps(st, s, msg) ==
    LET c == st.tcs[s].assignedParticipantConnection
    IN  IF c = None THEN [st EXCEPT !.err = TRUE]
        ELSE LET in == IngestSteps(st.conns[c].steps, msg.first, msg.count)
             IN  [st EXCEPT !.conns[c].steps = in.ring, !.err = in.err]

(* One authoritative step: each used connection's step for the tick, or a *)
(* forced step; every incoming ring moves past the tick.                  *)
ComposeOneStep(st) ==
    LET t     == Steps!ExpectedWriteId(st.auth)
        users == UsedConnections(st.conns)
        has(c) == Steps!HasStep(st.conns[c].steps, t)
        stepOf(c) == IF has(c) THEN Steps!StepAt(st.conns[c].steps, t) ELSE Forced
        owner(pid) == CHOOSE c \in users : st.conns[c].participantId = pid
        combined == [pid \in {st.conns[c].participantId : c \in users} |-> stepOf(owner(pid))]
    IN  [st EXCEPT
            !.auth  = Steps!Write(@, combined),
            !.conns = [c \in Pool |->
                        IF c \in users
                        THEN [st.conns[c] EXCEPT
                                !.steps = Steps!DiscardUpTo(@, t + 1),
                                !.forcedStepInRowCounter = IF has(c) THEN 0 ELSE @ + 1]
                        ELSE st.conns[c]]]

(* nimbleServerComposeAuthoritativeSteps: compose while every used         *)
(* connection has its step; when forcing, compose while any has one.       *)
RECURSIVE ComposeAuthoritativeSteps(_, _)
ComposeAuthoritativeSteps(st, forcing) ==
    LET t      == Steps!ExpectedWriteId(st.auth)
        users  == UsedConnections(st.conns)
        has(c) == Steps!HasStep(st.conns[c].steps, t)
    IN  IF \/ t >= MaxStepId
           \/ ~\E c \in users : has(c)
           \/ ~forcing /\ \E c \in users : ~has(c)
        THEN st
        ELSE IF Steps!IsFull(st.auth) THEN [st EXCEPT !.err = TRUE]
        ELSE ComposeAuthoritativeSteps(ComposeOneStep(st), forcing)

(* nimbleServerSendStepRanges: nothing for a client that fell off the     *)
(* ring or has been sent everything; otherwise every step from            *)
(* max(waiting, next to send) up to the head is sent in the reply.        *)
SendStepRanges(st, s, clientWaitingForStepId) ==
    LET tc    == st.tcs[s]
        start == Max({clientWaitingForStepId, tc.nextAuthoritativeStepIdToSend})
        head  == Steps!ExpectedWriteId(st.auth)
    IN  IF clientWaitingForStepId < st.auth.expectedReadId \/ start >= head
        THEN st
        ELSE [st EXCEPT !.tcs[s].nextAuthoritativeStepIdToSend = head,
                        !.reply = [kind |-> "StepRanges", start |-> start, end |-> head]]

ReadIncomingStepsAndCreateAuthoritativeSteps(st, s, msg, forcing) ==
    LET trimmed  == [st EXCEPT !.auth = DiscardAuthoritativeStepsIfBufferGettingFull(@)]
        received == HandleIncomingSteps(trimmed, s, msg)
    IN  IF received.err \/ DebugIsFrozen THEN received
        ELSE ComposeAuthoritativeSteps(received, forcing)

ReqGameStep(st, s, msg, forcing) ==
    LET composed == ReadIncomingStepsAndCreateAuthoritativeSteps(st, s, msg, forcing)
    IN  IF composed.err THEN composed
        ELSE SendStepRanges(composed, s, msg.waiting)

-----------------------------------------------------------------------------
(* The other requests (not in this repository; modelled from the spec) *)

(* Mutant: a repeated join takes a new connection and participant.      *)
ReqGameJoinAlwaysAllocates(st, s) ==
    LET free    == {c \in Pool : ~st.conns[c].isUsed}
        freeIds == ParticipantIds \ st.parts
    IN  IF free = {} \/ freeIds = {} THEN [st EXCEPT !.err = TRUE]
        ELSE [st EXCEPT
                !.conns[Min(free)] = ParticipantConnectionInit(s, Min(freeIds), Steps!ExpectedWriteId(st.auth)),
                !.parts = @ \cup {Min(freeIds)},
                !.tcs[s].assignedParticipantConnection = Min(free),
                !.reply = [kind |-> "JoinGameResponse"]]

(* nbdReqGameJoin: a slot whose assigned connection is live gets its      *)
(* participants again; otherwise a free pool entry and the smallest free  *)
(* participant id are taken, the ring starting at the authoritative head. *)
ReqGameJoin(st, s) ==
    LET assigned == st.tcs[s].assignedParticipantConnection
        free     == {c \in Pool : ~st.conns[c].isUsed}
        freeIds  == ParticipantIds \ st.parts
    IN  IF assigned # None /\ st.conns[assigned].isUsed
        THEN [st EXCEPT !.reply = [kind |-> "JoinGameResponse"]]
        ELSE IF free = {} \/ freeIds = {} THEN [st EXCEPT !.err = TRUE]
        ELSE LET c == Min(free)
                 pid == Min(freeIds)
             IN  [st EXCEPT
                    !.conns[c] = ParticipantConnectionInit(s, pid, Steps!ExpectedWriteId(st.auth)),
                    !.parts = @ \cup {pid},
                    !.tcs[s].assignedParticipantConnection = c,
                    !.reply = [kind |-> "JoinGameResponse"]]

(* nbdReqDownloadGameState: the client will synchronise from the latest   *)
(* game state, whose step id the reply carries; the blob stream that      *)
(* carries its octets is not modelled.                                    *)
ReqDownloadGameState(st, s) ==
    [st EXCEPT !.tcs[s] = TransportConnectionSetGameStateTickId(@, latestStateStepId),
               !.reply = [kind |-> "DownloadGameStateResponse", stepId |-> latestStateStepId]]

(* The command switch of nimbleServerFeed.  A DownloadGameStateStatus ack *)
(* only drives the blob stream; an unknown command is dropped.            *)
Dispatch(st, s, msg, forcing) ==
    CASE msg.cmd = "GameStep"                 -> ReqGameStep(st, s, msg, forcing)
      [] msg.cmd = "JoinGameRequest"          -> ReqGameJoin(st, s)
      [] msg.cmd = "DownloadGameStateRequest" -> ReqDownloadGameState(st, s)
      [] OTHER                                -> st

-----------------------------------------------------------------------------
(* Server entry points (server.c) *)

(* nimbleServerConnectionConnected: -44 on a slot already in use. *)
ConnectionConnected(tcs, connectionIndex) ==
    IF tcs[connectionIndex].isUsed THEN tcs
    ELSE [tcs EXCEPT ![connectionIndex] = TransportConnectionInit(@)]

(* nimbleServerFeed: the ordered-in filter's verdict is not looked at;    *)
(* its state only records that a datagram arrived.                        *)
(* A handler error drops the reply; otherwise a reply, if the handler    *)
(* wrote one, is sent.                                                    *)
Feed(st, s, msg, forcing) ==
    LET done == Dispatch(st, s, msg, forcing)
    IN  IF done.err THEN [done EXCEPT !.reply = None] ELSE done

HostIdle == ~draining /\ ~hostMustProvide

(* nimbleServerUpdate starts draining the multitransport. *)
UpdateBegin ==
    /\ HostIdle
    /\ draining' = TRUE
    /\ drainedCount' = 0
    /\ UNCHANGED <<transportConnections, connections, authoritativeSteps,
                   latestStateStepId, participants, hostMustProvide, transportConnected>>

(* The server state, reply included, after the datagram msg of slot s is *)
(* fed; a slot whose transport connection is unused is connected first.   *)
Received(s, msg, forcing) ==
    Feed([tcs   |-> ConnectionConnected(transportConnections, s),
          conns |-> connections, auth |-> authoritativeSteps,
          parts |-> participants, err |-> FALSE, reply |-> None],
         s, msg, forcing)

(* One iteration of nimbleServerReadFromMultiTransport: a datagram from   *)
(* slot s is fed, and the update ends if the feed failed or the batch is  *)
(* full; the host then asks whether it must provide a game state.         *)
ReceiveDatagram(s, msg, forcing) ==
    /\ draining
    /\ transportConnected[s]
    /\ \E st \in {Received(s, msg, forcing)} :
       LET ends == st.err \/ drainedCount + 1 = Batch
       IN  /\ transportConnections' = st.tcs
           /\ connections' = st.conns
           /\ authoritativeSteps' = st.auth
           /\ participants' = st.parts
           /\ drainedCount' = drainedCount + 1
           /\ draining' = ~ends
           /\ hostMustProvide' = (ends /\ MustProvideGameState(st.auth, latestStateStepId))
    /\ UNCHANGED <<latestStateStepId, transportConnected>>

(* receiveFrom returned 0: the update ends. *)
ReceiveNothing ==
    /\ draining
    /\ draining' = FALSE
    /\ hostMustProvide' = MustProvideGameState(authoritativeSteps, latestStateStepId)
    /\ UNCHANGED <<transportConnections, connections, authoritativeSteps,
                   latestStateStepId, participants, drainedCount, transportConnected>>

(* nimbleServerSetGameState with the state after the last composed step. *)
SetGameState ==
    /\ ~draining /\ hostMustProvide
    /\ latestStateStepId' = Steps!ExpectedWriteId(authoritativeSteps)
    /\ hostMustProvide' = FALSE
    /\ UNCHANGED <<transportConnections, connections, authoritativeSteps,
                   participants, draining, drainedCount, transportConnected>>

(* The transport establishes a connection on a slot. *)
TransportConnects(s) ==
    /\ ~transportConnected[s]
    /\ transportConnected' = [transportConnected EXCEPT ![s] = TRUE]
    /\ UNCHANGED <<transportConnections, connections, authoritativeSteps,
                   latestStateStepId, participants, draining, drainedCount, hostMustProvide>>

(* The host forwards the transport's connect notification. *)
HostConnectionConnected(s) ==
    /\ HostIdle /\ transportConnected[s]
    /\ transportConnections' = ConnectionConnected(transportConnections, s)
    /\ UNCHANGED <<connections, authoritativeSteps, latestStateStepId,
                   participants, draining, drainedCount, hostMustProvide, transportConnected>>

(* The transport loses slot s and the host calls                           *)
(* nimbleServerConnectionDisconnected: -2 without a participant connection *)
(* for the slot, -4 if it is already freed; otherwise the connection is   *)
(* freed and the ordered-in state forgets its first datagram.             *)
ConnectionDisconnected(s) ==
    /\ HostIdle /\ transportConnected[s]
    /\ transportConnected' = [transportConnected EXCEPT ![s] = FALSE]
    /\ LET c == FindConnection(connections, s)
       IN  IF c # None /\ connections[c].isUsed
           THEN connections' = [connections EXCEPT ![c].isUsed = FALSE]
           ELSE UNCHANGED connections
    /\ UNCHANGED <<transportConnections, authoritativeSteps, latestStateStepId,
                   participants, draining, drainedCount, hostMustProvide>>

(* nimbleServerReInitWithGame: a new game at stepId; the participant      *)
(* connection pool is reset, the transport connections are not.           *)
ReInitWithGame(stepId) ==
    /\ HostIdle
    /\ participants' = {}
    /\ latestStateStepId' = stepId
    /\ authoritativeSteps' = Steps!ReInit(stepId)
    /\ connections' = [c \in Pool |-> FreedParticipantConnection]
    /\ UNCHANGED <<transportConnections, draining, drainedCount,
                   hostMustProvide, transportConnected>>

-----------------------------------------------------------------------------

(* nimbleServerInit followed by nimbleServerReInitWithGame at step 0. *)
Init ==
    /\ transportConnections =
          [s \in Slots |-> [isUsed |-> FALSE, phase |-> "Idle",
                            nextAuthoritativeStepIdToSend |-> UnsetStepId,
                            assignedParticipantConnection |-> None]]
    /\ connections = [c \in Pool |-> FreedParticipantConnection]
    /\ authoritativeSteps = Steps!ReInit(0)
    /\ latestStateStepId = 0
    /\ participants = {}
    /\ draining = FALSE
    /\ drainedCount = 0
    /\ hostMustProvide = FALSE
    /\ transportConnected = [s \in Slots |-> FALSE]

Next ==
    \/ UpdateBegin
    \/ \E s \in Slots, msg \in Messages, forcing \in BOOLEAN : ReceiveDatagram(s, msg, forcing)
    \/ ReceiveNothing
    \/ SetGameState
    \/ \E s \in Slots : TransportConnects(s)
    \/ \E s \in Slots : HostConnectionConnected(s)
    \/ \E s \in Slots : ConnectionDisconnected(s)
    \/ \E id \in ReInitStepIds : ReInitWithGame(id)

Spec == Init /\ [][Next]_vars

-----------------------------------------------------------------------------
(* Properties *)

CombinedSteps ==
    UNION {[P -> StepIds \cup {Forced}] : P \in SUBSET ParticipantIds}

(* Every variable keeps its shape, and no ring holds more than Window.    *)
TypeOK ==
    /\ transportConnections \in
         [Slots -> [isUsed : BOOLEAN, phase : Phases,
                    nextAuthoritativeStepIdToSend : StepIds \cup {UnsetStepId},
                    assignedParticipantConnection : Pool \cup {None}]]
    /\ \A c \in Pool :
         /\ connections[c].isUsed \in BOOLEAN
         /\ connections[c].transportConnectionId \in Slots \cup {None}
         /\ connections[c].participantId \in ParticipantIds \cup {None}
         /\ Steps!IsRing(connections[c].steps, StepIds, StepIds \cup {MaxStepId + 1})
         /\ connections[c].forcedStepInRowCounter \in Nat
    /\ Steps!IsRing(authoritativeSteps, CombinedSteps, StepIds)
    /\ latestStateStepId \in StepIds
    /\ participants \subseteq ParticipantIds
    /\ draining \in BOOLEAN /\ hostMustProvide \in BOOLEAN
    /\ drainedCount \in 0..Batch
    /\ transportConnected \in [Slots -> BOOLEAN]

(* The trim in discardAuthoritativeStepsIfBufferGettingFull and the       *)
(* host's check of nimbleServerMustProvideGameState work together: at     *)
(* every tick boundary where the host is not asked for a new game state,  *)
(* the latest game state is still at or after the oldest authoritative    *)
(* step, so a joiner downloading it can be sent every step after it.      *)
SnapshotReachableBetweenTicks ==
    HostIdle => latestStateStepId >= authoritativeSteps.expectedReadId

(* A transport slot is in use only while the transport has it connected *)
(* (spec section 8, invariant 5).                                         *)
InUseOnlyWhileConnected ==
    \A s \in Slots : transportConnections[s].isUsed => transportConnected[s]

(* The participant connection a slot feeds its steps into belongs to that *)
(* slot whenever it is in use.                                            *)
AssignedConnectionBelongsToSlot ==
    \A s \in Slots :
      LET c == transportConnections[s].assignedParticipantConnection
      IN  c # None /\ connections[c].isUsed => connections[c].transportConnectionId = s

(* A game whose every client has disconnected can still admit a joiner:   *)
(* nimbleServerConnectionDisconnected frees the participant connection,  *)
(* and the participants it held must not keep every id taken, or         *)
(* nbdReqGameJoin refuses every later join of the game.                  *)
EmptyGameAdmitsJoin ==
    (\A c \in Pool : ~connections[c].isUsed) => ParticipantIds \ participants # {}
=============================================================================
