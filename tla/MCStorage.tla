----------------------------- MODULE MCStorage ------------------------------
(***************************************************************************)
(* The storage of the program, one kind at a time: the arena, a vector, a  *)
(* token queue, a ring buffer and a stack share no state, so that a        *)
(* behavior of all of them is checked as a behavior of each.               *)
(***************************************************************************)
EXTENDS Arena, TokenQueue, RingBuffer, Stack

VARIABLE exercised

AllInit ==
  /\ Init /\ RingInit /\ StackInit
  /\ VectorInit /\ idx = 0
  /\ exercised \in {"arena", "vector", "queue", "ring", "stack"}
  /\ exercised # "arena" => ~mapped
  /\ exercised = "queue" <=> owner = "queue"
  /\ exercised \notin {"vector", "queue"} => owner = "client"
  /\ exercised \notin {"vector", "queue"} => vectorLife = "live"
  /\ exercised # "ring" => ringLife = "live"
  /\ exercised # "stack" => stackLife = "live"

AllNext ==
  /\ \/ exercised = "arena" /\ Next /\ UNCHANGED <<queueVars, ringVars, stackVars>>
     \/ exercised = "vector" /\ VectorNext /\ UNCHANGED <<vars, idx, ringVars, stackVars>>
     \/ exercised = "queue" /\ QueueNext /\ UNCHANGED <<vars, ringVars, stackVars>>
     \/ exercised = "ring" /\ RingNext /\ UNCHANGED <<vars, queueVars, stackVars>>
     \/ exercised = "stack" /\ StackNext /\ UNCHANGED <<vars, queueVars, ringVars>>
  /\ UNCHANGED exercised

AllSpec == AllInit /\ [][AllNext]_<<vars, queueVars, ringVars, stackVars, exercised>>

=============================================================================
