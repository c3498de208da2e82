---------------------------- MODULE RequestPromise ----------------------------
(***************************************************************************)
(* What a request is to the client that polls it, told without the table,  *)
(* the loop and the handlers: it is taken up once in all lives of the      *)
(* daemon, whoever takes it up answers it or gives up, and success is said *)
(* once and for good, by nobody else. The end of the daemon fails what is  *)
(* open and ends all work. RequestPipeline implements this.                *)
(***************************************************************************)
CONSTANT Request

VARIABLES
  state,   \* what the client is told
  taken,   \* how often a request has been taken up, in this life and in earlier ones
  atWork   \* those that are worked on and have not been answered in this life

vars == <<state, taken, atWork>>

Init ==
  /\ state = [r \in Request |-> "new"]
  /\ taken = [r \in Request |-> 0] /\ atWork = {}

Ask(r) ==
  /\ state[r] = "new"
  /\ state' = [state EXCEPT ![r] = "open"]
  /\ UNCHANGED <<taken, atWork>>

\* A request that the end of a life has failed may still be taken up, and then succeed.
TakeUp(r) ==
  /\ state[r] \in {"open", "failed"} /\ taken[r] = 0
  /\ taken' = [taken EXCEPT ![r] = 1]
  /\ atWork' = atWork \cup {r}
  /\ UNCHANGED state

Answer(r, s) ==
  /\ r \in atWork /\ state[r] \in {"open", "failed"}
  /\ state' = [state EXCEPT ![r] = s]
  /\ atWork' = atWork \ {r}
  /\ UNCHANGED taken

GiveUp(r) ==
  /\ r \in atWork
  /\ atWork' = atWork \ {r}
  /\ UNCHANGED <<state, taken>>

Interrupt ==
  /\ state' = [r \in Request |-> IF state[r] = "open" THEN "failed" ELSE state[r]]
  /\ atWork' = {}
  /\ UNCHANGED taken

Next ==
  \/ \E r \in Request :
       Ask(r) \/ TakeUp(r) \/ Answer(r, "done") \/ Answer(r, "failed") \/ GiveUp(r)
  \/ Interrupt

Spec == Init /\ [][Next]_vars
=============================================================================
