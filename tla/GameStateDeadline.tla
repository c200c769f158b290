-------------------------- MODULE GameStateDeadline --------------------------
(***************************************************************************)
(* When the host must hand the server a new game state, in the server's   *)
(* own fixed-width arithmetic.  Step ids are uint32 and wrap; a game may   *)
(* start at any step id the host passes to nimbleServerReInitWithGame.     *)
(* nimbleServerMustProvideGameState subtracts the snapshot's id from the   *)
(* write id in uint32, stores the difference in an int, and compares that *)
(* with a size_t constant.                                                 *)
(*                                                                         *)
(* The model keeps, beside the wrapped ids the code holds, how many ticks *)
(* the game has composed and at which of them the snapshot was taken: the *)
(* age the spec speaks of.  The widths are scaled down (Width for uint32   *)
(* and int, SizeWidth > Width for size_t) keeping CatchUp < 2^(Width-1),   *)
(* as 80 < 2^31.  A uint32 above INT_MAX converted to int is              *)
(* implementation-defined; the compilers the library builds with wrap it. *)
(***************************************************************************)
EXTENDS Integers

CONSTANTS
    Width,          \* bits of StepId and int (32)
    SizeWidth,      \* bits of size_t (64)
    CatchUp,        \* NBD_REASONABLE_NUMBER_OF_STEPS_TO_CATCHUP_FOR_JOINERS (80)
    StepsPerUpdate, \* authoritative steps one update can compose
    MaxTicks        \* model bound on the ticks of one game

ASSUME /\ Width \in Nat \ {0} /\ SizeWidth > Width
       /\ CatchUp \in 1..(2^(Width - 1) - 1)

VARIABLES
    gameStartId,     \* the step id the host started the game at
    writeTicks,      \* authoritative steps composed since then
    stateTicks,      \* the tick of the latest game state
    hostMustProvide  \* the host saw nimbleServerMustProvideGameState

vars == <<gameStartId, writeTicks, stateTicks, hostMustProvide>>

StepIdValues == 0..(2^Width - 1)

(* The uint32 fields the code holds. *)
ExpectedWriteId == (gameStartId + writeTicks) % 2^Width
LatestStateStepId == (gameStartId + stateTicks) % 2^Width

(* uint32 subtraction, then the conversions to int and to size_t. *)
UInt32Sub(a, b) == (a - b) % 2^Width
ToInt(u) == IF u >= 2^(Width - 1) THEN u - 2^Width ELSE u
ToSizeT(i) == IF i < 0 THEN i + 2^SizeWidth ELSE i

(* Mutant: the ids compared as plain numbers, ignoring the wrap. *)
MustProvideWithoutWrap(writeId, latestId) == writeId > latestId + CatchUp

MustProvideGameState(writeId, latestId) ==
    ToSizeT(ToInt(UInt32Sub(writeId, latestId))) > CatchUp

(* Mutant: the new game keeps the old game's state. *)
ReInitKeepsState(stepId) ==
    /\ ~hostMustProvide
    /\ gameStartId' = stepId
    /\ writeTicks' = 0
    /\ UNCHANGED <<stateTicks, hostMustProvide>>

(* nimbleServerReInitWithGame: a new game whose state and write head are *)
(* at stepId.                                                             *)
ReInitWithGame(stepId) ==
    /\ ~hostMustProvide
    /\ gameStartId' = stepId
    /\ writeTicks' = 0
    /\ stateTicks' = 0
    /\ UNCHANGED hostMustProvide

(* nimbleServerUpdate composes up to StepsPerUpdate steps; the host then *)
(* asks whether it must provide a game state.                            *)
Update ==
    /\ ~hostMustProvide
    /\ \E n \in 0..StepsPerUpdate :
         /\ writeTicks + n <= MaxTicks
         /\ writeTicks' = writeTicks + n
         /\ hostMustProvide' =
              MustProvideGameState((gameStartId + writeTicks + n) % 2^Width, LatestStateStepId)
    /\ UNCHANGED <<gameStartId, stateTicks>>

(* nimbleServerSetGameState with the state at the write head. *)
SetGameState ==
    /\ hostMustProvide
    /\ stateTicks' = writeTicks
    /\ hostMustProvide' = FALSE
    /\ UNCHANGED <<gameStartId, writeTicks>>

Init ==
    /\ gameStartId \in StepIdValues
    /\ writeTicks = 0
    /\ stateTicks = 0
    /\ hostMustProvide = FALSE

Next ==
    \/ \E stepId \in StepIdValues : ReInitWithGame(stepId)
    \/ Update
    \/ SetGameState

Spec == Init /\ [][Next]_vars

-----------------------------------------------------------------------------

TypeOK ==
    /\ gameStartId \in StepIdValues
    /\ writeTicks \in 0..MaxTicks
    /\ stateTicks \in 0..writeTicks
    /\ hostMustProvide \in BOOLEAN

(* nimbleServerMustProvideGameState, computed from the wrapped uint32 ids *)
(* through an int and a size_t, says yes exactly when the latest game     *)
(* state is more than CatchUp ticks behind the write head (spec section  *)
(* 4.8), also when the write id has wrapped past 0 and the state's id has *)
(* not.                                                                   *)
MustProvideMatchesAge ==
    MustProvideGameState(ExpectedWriteId, LatestStateStepId) = (writeTicks - stateTicks > CatchUp)
=============================================================================
