---------------------------- MODULE NimbleSession ----------------------------
(***************************************************************************)
(* The server of NimbleServer composed with its clients and the datagram  *)
(* network between them.                                                   *)
(*                                                                         *)
(* The multitransport queues datagrams in arrival order; receiveFrom in    *)
(* nimbleServerReadFromMultiTransport takes the oldest one and returns 0   *)
(* only when none is queued.  A reply the feed sends goes back through the *)
(* same slot and is queued for its client.  A bounded number of datagrams, *)
(* in either direction, may be lost.                                       *)
(*                                                                         *)
(* The client (not part of this repository) follows the protocol of the    *)
(* spec (sections 2, 4.5-4.7, 6): it repeats JoinGameRequest until joined, *)
(* then DownloadGameStateRequest until it has a game state, then plays:    *)
(* each GameStep datagram names the authoritative step it waits for and    *)
(* carries its predicted steps from that step on; a StepRanges reply that  *)
(* contains the step it waits for moves it past the reply's end.  It       *)
(* predicts at most Lookahead ticks past the step it waits for.            *)
(*                                                                         *)
(* A client may crash a bounded number of times: its transport slot      *)
(* disconnects, dropping what was queued on it, the host calls           *)
(* nimbleServerConnectionDisconnected, and the client starts over.  Games *)
(* are not restarted here: the questions are about the clients of one     *)
(* game.                                                                  *)
(***************************************************************************)
EXTENDS NimbleServer

LOCAL Seqs == INSTANCE SequencesExt

CONSTANTS
    Clients,    \* the slots a client uses
    Lookahead,  \* ticks a client predicts past the step it waits for
    NetCap,     \* datagrams the transport queues in each direction
    MaxLosses,  \* datagrams the network may lose in a behaviour
    ForcingModes, \* composition modes the composer may use: TRUE forces
    MaxCrashes  \* client crashes in a behaviour

ASSUME Clients \subseteq Slots /\ NetCap \in Nat \ {0} /\ MaxLosses \in Nat
ASSUME MaxCrashes \in Nat
ASSUME ForcingModes \subseteq BOOLEAN /\ ForcingModes # {}

VARIABLES
    clientPhase,      \* "Connecting", "Joining", "Downloading" or "Playing"
    clientWaiting,    \* the authoritative step the client waits for
    clientPredicted,  \* the first tick the client has not predicted yet
    inbox,            \* <<slot, datagram>> queued for receiveFrom, oldest first
    outbox,           \* replies queued for each client, oldest first
    lost,             \* datagrams lost so far
    crashes           \* client crashes so far

clientVars == <<clientPhase, clientWaiting, clientPredicted>>
sessionOnly == <<clientVars, inbox, outbox, lost, crashes>>
sessionVars == <<vars, sessionOnly>>

-----------------------------------------------------------------------------
(* Clients *)

(* The datagram a client sends in its current phase. *)
Request(s) ==
    CASE clientPhase[s] = "Joining"     -> [cmd |-> "JoinGameRequest"]
      [] clientPhase[s] = "Downloading" -> [cmd |-> "DownloadGameStateRequest"]
      [] OTHER ->
           [cmd |-> "GameStep", waiting |-> clientWaiting[s], first |-> clientWaiting[s],
            count |-> Min({clientPredicted[s] - clientWaiting[s], MaxStepsInDatagram})]

(* Requests of s queued or answered and not yet read: a client has at    *)
(* most NetCap of them, so every answer it can get has room in its reply  *)
(* queue and one client's datagrams never crowd out another's.            *)
Outstanding(s) ==
    Len(outbox[s]) + Cardinality({i \in 1..Len(inbox) : inbox[i][1] = s})

(* The client opens its transport connection. *)
ClientConnects(s) ==
    /\ clientPhase[s] = "Connecting"
    /\ TransportConnects(s)
    /\ clientPhase' = [clientPhase EXCEPT ![s] = "Joining"]
    /\ UNCHANGED <<clientWaiting, clientPredicted, inbox, outbox, lost, crashes>>

ClientSend(s) ==
    /\ clientPhase[s] # "Connecting"
    /\ Outstanding(s) < NetCap
    /\ inbox' = Append(inbox, <<s, Request(s)>>)
    /\ UNCHANGED <<vars, clientVars, outbox, lost, crashes>>

ClientPredict(s) ==
    /\ clientPhase[s] = "Playing"
    /\ clientPredicted[s] < clientWaiting[s] + Lookahead
    /\ clientPredicted[s] < MaxStepId
    /\ clientPredicted' = [clientPredicted EXCEPT ![s] = @ + 1]
    /\ UNCHANGED <<vars, clientPhase, clientWaiting, inbox, outbox, lost, crashes>>

(* The client reads its oldest reply; one that does not fit its phase, or *)
(* a range without the step it waits for, is ignored.                     *)
ClientReceive(s) ==
    /\ outbox[s] # <<>>
    /\ outbox' = [outbox EXCEPT ![s] = Tail(@)]
    /\ LET r == Head(outbox[s])
       IN  CASE r.kind = "JoinGameResponse" /\ clientPhase[s] = "Joining" ->
                  /\ clientPhase' = [clientPhase EXCEPT ![s] = "Downloading"]
                  /\ UNCHANGED <<clientWaiting, clientPredicted>>
             [] r.kind = "DownloadGameStateResponse" /\ clientPhase[s] = "Downloading" ->
                  /\ clientPhase' = [clientPhase EXCEPT ![s] = "Playing"]
                  /\ clientWaiting' = [clientWaiting EXCEPT ![s] = r.stepId]
                  /\ clientPredicted' = [clientPredicted EXCEPT ![s] = r.stepId]
             [] r.kind = "StepRanges" /\ clientPhase[s] = "Playing"
                  /\ r.start <= clientWaiting[s] /\ clientWaiting[s] < r.end ->
                  /\ clientWaiting' = [clientWaiting EXCEPT ![s] = r.end]
                  /\ clientPredicted' = [clientPredicted EXCEPT ![s] = Max({@, r.end})]
                  /\ UNCHANGED clientPhase
             [] OTHER -> UNCHANGED clientVars
    /\ UNCHANGED <<vars, inbox, lost, crashes>>

-----------------------------------------------------------------------------
(* The multitransport and the host *)

(* receiveFrom hands the oldest queued datagram to the feed; a reply the  *)
(* feed sends is queued for the datagram's slot.                           *)
DeliverDatagram ==
    /\ inbox # <<>>
    /\ LET s   == Head(inbox)[1]
           msg == Head(inbox)[2]
       IN  \E forcing \in ForcingModes :
             /\ ReceiveDatagram(s, msg, forcing)
             /\ \E r \in {Received(s, msg, forcing).reply} :
                  outbox' = IF r = None THEN outbox
                            ELSE [outbox EXCEPT ![s] = Append(@, r)]
    /\ inbox' = Tail(inbox)
    /\ UNCHANGED <<clientVars, lost, crashes>>

(* receiveFrom returns 0: nothing is queued. *)
DeliverNothing ==
    /\ inbox = <<>>
    /\ ReceiveNothing
    /\ UNCHANGED sessionOnly

HostUpdate == UpdateBegin /\ UNCHANGED sessionOnly

HostSetGameState == SetGameState /\ UNCHANGED sessionOnly

HostNotifiesConnect(s) == HostConnectionConnected(s) /\ UNCHANGED sessionOnly

(* The network loses a queued datagram, in either direction. *)
Lose ==
    /\ lost < MaxLosses
    /\ lost' = lost + 1
    /\ \/ \E i \in 1..Len(inbox) :
            /\ inbox' = Seqs!RemoveAt(inbox, i)
            /\ UNCHANGED outbox
       \/ \E s \in Clients : \E i \in 1..Len(outbox[s]) :
            /\ outbox' = [outbox EXCEPT ![s] = Seqs!RemoveAt(@, i)]
            /\ UNCHANGED inbox
    /\ UNCHANGED <<vars, clientVars, crashes>>

(* The client crashes.  Its transport connection closes, so the datagrams *)
(* queued on its slot in either direction are dropped, and the host calls *)
(* nimbleServerConnectionDisconnected for the slot.  The client restarts *)
(* from scratch.                                                          *)
ClientCrashes(s) ==
    /\ crashes < MaxCrashes
    /\ clientPhase[s] # "Connecting"
    /\ ConnectionDisconnected(s)
    /\ crashes' = crashes + 1
    /\ clientPhase' = [clientPhase EXCEPT ![s] = "Connecting"]
    /\ clientWaiting' = [clientWaiting EXCEPT ![s] = 0]
    /\ clientPredicted' = [clientPredicted EXCEPT ![s] = 0]
    /\ inbox' = SelectSeq(inbox, LAMBDA d : d[1] # s)
    /\ outbox' = [outbox EXCEPT ![s] = <<>>]
    /\ UNCHANGED lost

-----------------------------------------------------------------------------

SessionInit ==
    /\ Init
    /\ clientPhase = [s \in Clients |-> "Connecting"]
    /\ clientWaiting = [s \in Clients |-> 0]
    /\ clientPredicted = [s \in Clients |-> 0]
    /\ inbox = <<>>
    /\ outbox = [s \in Clients |-> <<>>]
    /\ lost = 0
    /\ crashes = 0

SessionNext ==
    \/ HostUpdate
    \/ DeliverDatagram
    \/ DeliverNothing
    \/ HostSetGameState
    \/ \E s \in Clients : HostNotifiesConnect(s)
    \/ \E s \in Clients : ClientConnects(s)
    \/ \E s \in Clients : ClientSend(s)
    \/ \E s \in Clients : ClientPredict(s)
    \/ \E s \in Clients : ClientReceive(s)
    \/ \E s \in Clients : ClientCrashes(s)
    \/ Lose

(* The host calls nimbleServerUpdate every frame, a drain never blocks    *)
(* (receiveFrom returns 0 when nothing is queued), and the host provides  *)
(* a game state when asked; a client keeps connecting, sending,           *)
(* predicting and reading replies.  Losses and the host's connect         *)
(* notifications are not required to happen.                              *)
DrainStep == DeliverDatagram \/ DeliverNothing

(* A drain step can be taken exactly while the host is draining: the      *)
(* queue is empty, or its oldest datagram comes from a client, which has  *)
(* connected before sending; a crash drops its slot's datagrams.  Weak    *)
(* fairness of the drain step is stated over this predicate because       *)
(* TLC's evaluation of ENABLED would repeat the whole feed.               *)
DrainEnabled == draining

Fairness ==
    /\ WF_sessionVars(HostUpdate)
    /\ []<>~DrainEnabled \/ []<><<DrainStep>>_sessionVars
    /\ WF_sessionVars(HostSetGameState)
    /\ \A s \in Clients :
         /\ WF_sessionVars(ClientConnects(s))
         /\ WF_sessionVars(ClientSend(s))
         /\ WF_sessionVars(ClientPredict(s))
         /\ WF_sessionVars(ClientReceive(s))

SessionSpec == SessionInit /\ [][SessionNext]_sessionVars /\ Fairness

-----------------------------------------------------------------------------
(* Properties *)

SessionTypeOK ==
    /\ TypeOK
    /\ clientPhase \in [Clients -> {"Connecting", "Joining", "Downloading", "Playing"}]
    /\ clientWaiting \in [Clients -> StepIds]
    /\ clientPredicted \in [Clients -> StepIds]
    /\ Len(inbox) <= NetCap * Cardinality(Clients)
    /\ \A s \in Clients : Len(outbox[s]) <= NetCap
    /\ lost \in 0..MaxLosses
    /\ crashes \in 0..MaxCrashes

(* nimbleServerReadFromMultiTransport ends an update only when receiveFrom *)
(* has nothing more or Batch datagrams were drained (spec sections 4.8    *)
(* and 5); a datagram whose handler fails only loses its reply (section  *)
(* 7), it does not hold back the datagrams queued behind it.              *)
DrainEndsOnlyWhenEmptyOrFull ==
    [][draining /\ ~draining' => inbox' = <<>> \/ drainedCount' = Batch]_sessionVars

(* A client that is not playing, at the start or after a crash, gets      *)
(* (back) into the game although the network loses datagrams: it repeats *)
(* JoinGameRequest and DownloadGameStateRequest, nbdReqGameJoin answers a *)
(* repeated join from a slot whose connection is live without taking a    *)
(* second connection or participant, and a rejoin after                   *)
(* nimbleServerConnectionDisconnected finds a free connection again.      *)
ClientRejoins ==
    \A s \in Clients : clientPhase[s] # "Playing" ~> clientPhase[s] = "Playing"

(* A playing client that waits for a step the server has composed is     *)
(* eventually sent it: the step-range sender of nimbleServerReqGameStep,  *)
(* the snapshot download and the trim together never leave a client      *)
(* waiting for a step it will not get.                                    *)
ClientEventuallyServed ==
    \A s \in Clients, w \in StepIds :
        (/\ clientPhase[s] = "Playing" /\ clientWaiting[s] = w
         /\ w < Steps!ExpectedWriteId(authoritativeSteps))
        ~> clientWaiting[s] > w
=============================================================================
