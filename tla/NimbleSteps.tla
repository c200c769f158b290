----------------------------- MODULE NimbleSteps -----------------------------
(***************************************************************************)
(* The step ring of the nimble-steps collaborator (NbsSteps), used by the  *)
(* server both as each participant connection's incoming ring and as the   *)
(* game's authoritative ring.  The library is not part of this repository; *)
(* its operations are modelled from the spec (section 4.1).  A ring is a   *)
(* record: the oldest stored id and the stored steps, oldest first; the    *)
(* expected write id is derived, so ids are consecutive by construction.   *)
(***************************************************************************)
EXTENDS Naturals, Sequences

CONSTANT Window   \* NBS_WINDOW_SIZE, the capacity of every ring

(* nbsStepsReInit: an empty ring whose next id to write is startId. *)
ReInit(startId) == [expectedReadId |-> startId, steps |-> <<>>]

ExpectedWriteId(r) == r.expectedReadId + Len(r.steps)

StepsCount(r) == Len(r.steps)

IsFull(r) == StepsCount(r) >= Window

(* nbsStepsWrite succeeds only for the expected id and when not full. *)
Write(r, v) == [r EXCEPT !.steps = Append(@, v)]

(* nbsStepsDiscardCount: drop the n oldest steps. *)
DiscardCount(r, n) ==
    [expectedReadId |-> r.expectedReadId + n,
     steps          |-> SubSeq(r.steps, n + 1, Len(r.steps))]

(* Drop every step older than id; past the write head the ring restarts. *)
DiscardUpTo(r, id) ==
    IF id <= r.expectedReadId THEN r
    ELSE IF id <= ExpectedWriteId(r) THEN DiscardCount(r, id - r.expectedReadId)
    ELSE ReInit(id)

HasStep(r, id) == r.expectedReadId <= id /\ id < ExpectedWriteId(r)

StepAt(r, id) == r.steps[id - r.expectedReadId + 1]

(* The shape of a ring whose ids lie in Ids and whose steps lie in Values. *)
IsRing(r, Values, Ids) ==
    /\ r \in [expectedReadId : Ids, steps : Seq(Values)]
    /\ StepsCount(r) <= Window
=============================================================================
