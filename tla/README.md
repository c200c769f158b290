# TLA+ models of nimble-server-lib

These modules model the authoritative-step server in `src/src/lib` and check
them with TLC. The server is a single-threaded C library driven by its host.
Concurrency in the model therefore means two things:

- the interleaving of host calls: update, connect, disconnect, set-game-state and reinit;
- datagrams from several clients arriving in any order, duplicated or stale.

It does not mean threads. `NimbleSession.tla` adds clients and an order-keeping,
lossy datagram network around the server, to ask liveness questions.

## The system

| Part | Code | What it does |
|---|---|---|
| Top-level loop | `server.c` `nimbleServerUpdate`, `nimbleServerReadFromMultiTransport` | Drains up to 32 datagrams from the multitransport per update and feeds each one. It returns from the drain on the first feed error. |
| Dispatcher | `server.c` `nimbleServerFeed` | Checks the slot index, implicitly connects the slot, runs the ordered-in filter (whose verdict is ignored) and switches on the command byte. |
| Transport connection | `transport_connection.c` | Per-slot state: `isUsed`, `phase`, `nextAuthoritativeStepIdToSend` and the assigned participant connection. |
| Participant connection pool | `participant_connection.h` | One per joined client. Each holds an incoming step ring and a forced-step counter. |
| Game | `server.c`, `req_step.c` | The authoritative step ring, the latest game-state snapshot's step id and the participants. |
| GameStep request | `req_step.c` | Trims the authoritative ring to a third of its window, then ingests the client's steps, composes authoritative steps and sends step ranges back. |
| Snapshot contract | `server.c` `nimbleServerMustProvideGameState`, `nimbleServerSetGameState` | After an update the host must hand a serialized state at the write head if it is more than 80 ticks old. |
| Join and download | `nbdReqGameJoin`, `nbdReqDownloadGameState` | Not in this repository. Join takes a free pool entry and participant ids. Download sets the transport's next step to the snapshot's. |
| Step ring | nimble-steps `NbsSteps` | Not in this repository. It is a bounded FIFO of steps identified by consecutive step ids. |

Interactions:

- A client's GameStep datagram writes into its participant connection's ring (found through the transport connection's assigned pointer).
- Composition reads every used connection's ring and writes the game's authoritative ring.
- The sender reads the authoritative ring from the transport's cursor.
- The host reads `MustProvideGameState` and writes the snapshot.
- Replies go back through the datagram's slot (`sendOnlyToSpecifiedTransport`).
- Disconnect and reinit free pool entries while transport connections keep pointing at them. This is where the findings below come from.

## Modules

- `NimbleSteps.tla`: the step ring as a record `[expectedReadId, steps]`.
  - Operators: `ReInit`, `Write` (fails when full), `DiscardCount`, `DiscardUpTo`, `HasStep`, `StepAt`.
  - It is modelled from spec section 4.1 because the library is not in `src/`.
- `NimbleServer.tla`: the server, with one action per host call.
  - `UpdateBegin`, `ReceiveDatagram`, `ReceiveNothing`: `nimbleServerUpdate` split at its loop iterations.
  - `SetGameState`, `HostConnectionConnected`, `ConnectionDisconnected`, `ReInitWithGame`: the host calls of the same name.
  - `TransportConnects`: the environment. A slot can only deliver datagrams while the transport has it connected.

  Handlers are functions over a state record `[tcs, conns, auth, parts, err, reply]`. A handler that fails part way keeps what it already changed, exactly like the C code, which has no rollback. `reply` is the datagram the handler sends back; `Feed` drops it when the handler fails (`server.c:101-104`). `ReqGameStep` runs trim, ingest, compose and send in one step, as `nimbleServerReqGameStep` does. `Received` is the feed of one datagram from the current state.
- `NimbleSession.tla` extends `NimbleServer` with clients and the multitransport.
  - `inbox` is the multitransport queue: `DeliverDatagram` feeds its oldest datagram, and `DeliverNothing` is `receiveFrom` returning 0. A reply is appended to the client's `outbox`.
  - `Lose` removes one queued datagram in either direction, at most `MaxLosses` times.
  - The client is not code of this repository. It follows spec sections 2, 4.5-4.7 and 6:
    - it repeats `JoinGameRequest` until joined, then `DownloadGameStateRequest` until it has a state;
    - it then sends GameSteps that name the step it waits for and carry up to `MaxStepsInDatagram` predicted steps;
    - a `StepRanges` reply `[start, end)` that contains the awaited step moves it to `end`.
  - Flow control: a client has at most `NetCap` requests queued or answered and unread (`Outstanding`). One client therefore cannot crowd another out of the queue.
  - `ForcingModes` says which composition modes the composer may use. Forcing is an open policy of a composer outside this repository, so composing only in lockstep (`{FALSE}`) is one valid choice of it.
  - `ClientCrashes` is the fault model: at most `MaxCrashes` times, a client crashes.
    - Its transport connection closes and the datagrams queued on its slot, in either direction, are dropped.
    - The host calls `nimbleServerConnectionDisconnected` (`ConnectionDisconnected` of the core model).
    - The client starts over from `Connecting`.
    - It happens between updates, where the host sees transport events.
  - Games are not restarted here; the core model covers reinit.
- `TransportSlotIndex.tla`: how the entry points index the transport connection table with a `uint8` connection index.
  - `HostFeed`, `HostConnect` and `ReceiveFrom` record which entries they read or write, and what the feed returns.
  - Reading `isUsed` past the table is undefined behaviour, so the value read is either boolean.
  - The table has `TableSize` entries, and the feed's check is `index > TableSize`, as the code's `> 64` is against 64 entries. The run uses 2 entries and indices 0-3.
- `GameStateDeadline.tla`: `nimbleServerMustProvideGameState` in the code's fixed-width arithmetic.
  - The state holds the game's start id (any `uint32` the host passes to reinit), the ticks composed, and the tick of the latest state. The wrapped ids the code holds are derived from these.
  - `MustProvideGameState` is the `uint32` subtraction, the conversion to `int` and the comparison as `size_t`.
  - `Update`, `SetGameState` and `ReInitWithGame` are the host calls. The host provides a state at the write head when asked.
  - Widths are scaled: 5-bit ids and int, 10-bit size_t, `CatchUp=5`, which keeps `CatchUp < 2^(Width-1)` as `80 < 2^31` does.
- `MCNimbleServer.tla`, `MCNimbleSession.tla`: model values and symmetry for TLC.

Abstractions:

- **Step ids.** TLC integers are 32-bit signed, so the `0xFFFFFFFF` "unset" id is the sentinel `UnsetStepId == MaxStepId + 1`. Step ids stay at or below `MaxStepId`; composition stops there.
- **Step payloads.** A client step is the tick id it is meant for. An authoritative entry is a function from participant id to the step it took, or `Forced`.
- **Forcing.** The composer's rule for forcing a silent connection is not in this repository, and the spec leaves it open. Each GameStep chooses nondeterministically between lockstep composition (all connections have a step) and forcing (compose while any has one).
- **Dropped or folded fields.**
  - `hasReceivedInitialDatagram` is written by feed and disconnect but read by nothing the model keeps, so it is left out.
  - The participant connection `id` marker `0x100` is folded into `isUsed`.
- **WaitingForReconnect.** The phase is in the type but is never set, because no code sets it.
- **The int/size_t comparison** in `MustProvideGameState` is modelled as the plain difference. In every reachable state the snapshot is at or behind the write head, so both give the same value.

## Refinement

There is no refinement check. An earlier version checked `NimbleServer` against an abstract append-only stream, through a refinement mapping from the authoritative ring. Every change to the ring made by code in `src/` is one of three kinds: the trim drops the oldest steps, reinit restarts the stream, and an orchestration that fails part way keeps what it did. Each of these is a legal step of that abstract stream, whatever it drops. Only the spec-modelled ingest could break the property, so the check said nothing about this repository's code, and it was removed.

## Fairness

Only the session runs assume fairness. Each assumption follows from the code or from the host contract:

- `HostUpdate`: the host calls `nimbleServerUpdate` every frame.
- The drain step: `receiveFrom` never blocks; it returns 0 when the queue is empty. While the server drains, a drain step is always possible.
  - This is stated as `[]<>~DrainEnabled \/ []<><<DrainStep>>_sessionVars`, which is weak fairness with `ENABLED` replaced by `draining`.
  - The expanded form is used because evaluating `ENABLED` through the recursive feed is exponential in TLC.
- `HostSetGameState`: the host must hand a state when `MustProvideGameState` says so.
- Each client keeps connecting, sending, predicting and reading.

`Lose`, `ClientCrashes` and the host's connect notification are not fair. A loss may happen or not, and delivery implicitly connects the slot anyway.

## Runs

| Run | Config | Expect | Shows |
|---|---|---|---|
| `server_core` | `MCNimbleServer.cfg` | pass | Two slots, two pool entries, two participant ids; clients join, step, download, disconnect and reconnect, the host reinitialises and provides states. `TypeOK` and `SnapshotReachableBetweenTicks` hold. The second says that whenever the host is idle, the snapshot has not fallen off the ring. About 113,000 distinct states in 15 seconds. |
| `game_state_deadline` | `MCGameStateDeadline.cfg` | pass | `MustProvideMatchesAge`: games started at every id, including just below the wrap; the code's answer equals "the latest state is more than CatchUp ticks old". The int/size_t conversions make the wrapped subtraction exact. |
| `stale_assignment` | `MCStaleAssignment.cfg` | violation | `AssignedConnectionBelongsToSlot`. See finding 1. |
| `disconnect_keeps_slot` | `MCDisconnectKeepsSlot.cfg` | violation | `InUseOnlyWhileConnected`. See finding 2. |
| `participant_leak` | `MCParticipantLeak.cfg` | violation | `EmptyGameAdmitsJoin`. See finding 5. |
| `slot_index` | `MCSlotIndex.cfg` | violation | `OnlyTableEntriesAddressed`. See finding 6. |
| `session_served` | `MCSessionServed.cfg` | pass | `SessionTypeOK`, checked in this run only, and `ClientEventuallyServed`: over a lossless network, a playing client waiting for a composed step is eventually moved past it. |
| `session_join_retry` | `MCSessionJoinRetry.cfg` | pass | `ClientRejoins`: with one loss, a pool of one and one client crash, a client that is not playing, at the start or after the crash, gets (back) into the game. A join from a live slot reuses its connection, and the disconnect frees the pool entry for the rejoin. Two participant ids are needed: with one, the id leak of finding 5 keeps the crashed client out for good. |
| `session_lockstep` | `MCSessionLockstep.cfg` | pass | `ClientEventuallyServed` for two clients in lockstep, with two requests each in flight and a prediction lead of `Window/3`. |
| `lockstep_falloff` | `MCSessionLockstepFallOff.cfg` | violation | `ClientEventuallyServed` with a lead of 2 > `Window/3`. See finding 7. |
| `lost_reply` | `MCSessionLostReply.cfg` | violation | `ClientEventuallyServed` with one loss. See finding 3. |
| `drain_abort` | `MCSessionDrainAbort.cfg` | violation | `DrainEndsOnlyWhenEmptyOrFull`. See finding 4. |

Each passing property has a mutant in `PROJECT.json`, and TLC catches every one:

- a tick-id off-by-one on download;
- a download that leaves the send cursor where it was;
- trimming one step too many;
- a join that always allocates a new connection;
- `MustProvideGameState` comparing the ids without the wrap;
- a reinit that keeps the old game's state.

Bounds:

- **Core run.** `Window=3`, `CatchUp=1`, `MaxStepId=2`, `Batch=2`, one step per datagram.
  - With `Window=3` the trim (`Window \div 3 = 1`) fires on every second step.
  - `CatchUp=1 = Window \div 3` is the tight case of the condition under which `SnapshotReachableBetweenTicks` holds. The snapshot can therefore lag, be trimmed past, and be refreshed.
  - The condition is `CatchUp <= Window \div 3`. In the code, `CatchUp` is 80 (`server.c:235`) and the trim keeps `NBS_WINDOW_SIZE / 3` (`req_step.c:19`). The property therefore needs `NBS_WINDOW_SIZE >= 240`.
  - `NBS_WINDOW_SIZE` is defined in the nimble-steps library, which is not in this repository. The spec's own test 2 uses `WINDOW_SIZE=90`, which trims to 30 steps against a catch-up of 80.
  - With `CatchUp = 2 > Window \div 3` in `MCNimbleServer.cfg`, TLC finds the property violated after 196 states: the host is not yet asked for a state when the trim has passed the snapshot.
  - Two slots against two pool entries make pool reuse by another slot possible.
- **Session runs.** One client, `MaxStepId=3`, `Lookahead=2`, `NetCap=2`, two steps per datagram.
  - Two requests in flight let a repeated join or download arrive after its answer.
  - With forcing, two clients exceed five minutes, so the forcing runs use one client. With one client, forced and lockstep composition compose the same steps, so no run shows a client left behind while forcing runs others ahead.
  - `session_lockstep` uses two clients, lockstep only, `Lookahead=1 = Window \div 3`; 156,000 states in about 90 seconds. `lockstep_falloff` takes the lead to 2 with `MaxStepId=2`.
  - `session_join_retry` allows one crash, enough for a crash in every phase followed by a full rejoin; two participant ids because one leaks per crash.
  - `drain_abort` uses two clients and a pool of one, so that one join fails while the other's datagram is queued.

Slots are symmetric model values in the core run. Pool indices and participant ids are not, because the code always takes the smallest free one.

## Findings

1. **Code bug, `server.c:226`.** `nimbleServerConnectionDisconnected` frees the participant connection but leaves the transport connection's `assignedParticipantConnection` pointing at it. The trace TLC finds:
   1. Slot A joins.
   2. A disconnects.
   3. Slot B joins and takes the same pool entry. The invariant fails here, and the trace ends.

   A's transport connection now points at B's live entry. `HandleIncomingSteps` uses that pointer without checking it. A GameStep datagram on slot A, whose transport connection is still in use (finding 2), would therefore go into B's step ring. That last consequence is read from the code; TLC's trace does not show it.
2. **Divergence from spec section 8 invariant 5, `server.c:229`.** Disconnect never clears the transport connection's `isUsed` and never sets `WaitingForReconnect`. A reconnecting client keeps its old phase and cursor. `nimbleServerReInitWithGame` likewise never resets the transport connections, although the spec says a reinit leaves no connections.
3. **Spec gap, `req_step.c:91`.** A lost `StepRanges` reply is never sent again.
   - The sender starts at `max(waiting, nextAuthoritativeStepIdToSend)`, and the cursor is already past the lost range.
   - The client repeats its GameStep for step 0 forever.
   - Once the trim passes the awaited step, the client has fallen off the ring. Spec 4.6 leaves the recovery to "higher-level logic" that re-downloads the state; no code in the repository does that.
   - The same stall happens without loss when the awaited step is trimmed before the client's next GameStep (finding 7).
4. **Divergence from spec sections 4.8, 5 and 7, `server.c:322`.** The drain loop returns on the first feed error. In TLC's trace, a join that fails because the pool is full ends the update while the other client's join is still queued.
5. **Spec gap, `server.c:226`.** Disconnect frees the participant connection but not its participants; the spec says participants live for the game's lifetime. In TLC's trace, two clients join and both disconnect. No client is left, yet both participant ids are taken, and every later join fails until the host reinitialises the game.
6. **Code bug, `server.c:58`.** `nimbleServerFeed` rejects only indices `> 64`, so index 64 addresses one entry past the 64-entry table. The spec says an index of 64 or more returns -13. The capacity check at line 51 only logs. Through the multitransport, line 308 reads `transportConnections[connectionId]` (and line 311 may initialise it) before any check, so any `uint8` index is used.
7. **Spec gap, `req_step.c:41`.** `nimbleServerReqGameStep` trims the ring to `Window/3` before it ingests, composes and replies. TLC's trace, in lockstep without loss:
   1. A sends steps 0-1 first; nothing composes, because B has sent nothing.
   2. B's GameStep composes 0 and 1; only B gets a reply.
   3. A's next GameStep trims step 0, which A still waits for, before the send. A is never sent anything again.

   A client whose prediction lead exceeds `Window/3` can therefore fall off. In production that is about 21,845 steps. The spec calls fall-off recoverable by a snapshot handoff that no code here performs.

## Not modelled

- Blob-stream download transfer and the `DownloadGameStateStatus` acknowledgement.
- Stats, logging, allocators, and the datagram wire format. They change no state any property distinguishes.
- Datagram packing of step ranges (1200 octets). The model's rings are far smaller.
- Reinit in the session model; client code, which is not in the repository.
- What remains partly modelled has no code here to model from.
  - The step ring (`NbsSteps`), the participant registry, join and download, and the step-range sender are collaborator libraries. They are modelled from the spec.
  - The rest of `participant_connection.h` and `transport_connection.c` is fields and stats. No handler here reads those fields in a way a property can tell apart.

## Plan

Done:
- first sitting: step ring, server actions, core safety, findings 1-2;
- second sitting: the abstract stream and refinement, clients, the lossy network, fairness and liveness, findings 3-6;
- third sitting: the fixed-width game-state deadline, the forced-step counter, two-client lockstep liveness, finding 7;
- fourth sitting: client crash and rejoin in the session model (`ClientCrashes`, `ClientRejoins`);
- fifth sitting: removed the refinement and the forced-step counter property, which no code in `src/` could break, and documented the window condition of `SnapshotReachableBetweenTicks`.

Next: two clients with crashes, which would need a larger pool than five minutes of TLC allow. Such a run could bring finding 1 into the session model as lost liveness.
