----------------------- MODULE RequestPipeline_proofs -----------------------
(***************************************************************************)
(* Proofs about RequestPipeline, for every set of VMs and requests, every  *)
(* spelling of the ids and any number of restarts.                         *)
(***************************************************************************)
EXTENDS RequestPipeline, TLAPS

\* The loop holds a request only between Poll and GoHandler, never one that was
\* not stored or that has a handler, and a handler's request is marked.
PickedStored ==
  /\ dispatcher # "poll" => picked \in created /\ handler[picked] = "none"
  /\ dispatcher = "go" => picked \in started
  /\ \A r \in Request : handler[r] # "none" => r \in created \cap started

\* What a stored request asks for does not change: no RPC uses its id any more.
StoredFixed == \A r \in created : rpc[r] = "none" /\ target[r] \in VM

\* An id the client spelled in another way ends in GetByID, both in the RPC
\* that is under way and in the handler.
TargetKnown == \A r \in Request : rpc[r] # "none" => target[r] \in VM

CanonicalWork ==
  \A r \in Request : handler[r] \notin {"none", "lookup"} => spelling[r] = "canonical"

TypeInv == TypeOK /\ PickedStored /\ StoredFixed /\ TargetKnown

LEMMA TypeInit == Init => TypeInv
  BY ConstantsAssumption
     DEF Init, TypeInv, TypeOK, PickedStored, StoredFixed, TargetKnown, Kind, StatusType, RpcPc,
         HandlerPc, DiskHolder

\* How a handler moves on and answers keeps the table and the handlers typed.
LEMMA AnswerType ==
  ASSUME TypeInv, NEW r \in Request, handler[r] # "none", NEW pc \in HandlerPc,
         Continues(r, pc) \/ Succeeded(r, pc) \/ Failed(r)
  PROVE  /\ handler' \in [Request -> HandlerPc]
         /\ created' = created /\ started' = started
         /\ complete' \in SUBSET Request /\ successful' \in SUBSET Request
         /\ \A q \in Request : handler'[q] # "none" => handler[q] # "none"
  BY DEF TypeInv, TypeOK, PickedStored, Continues, Succeeded, Failed, Goes, reqVars, HandlerPc

LEMMA TypeStep == TypeInv /\ [Next]_vars => TypeInv'
<1> SUFFICES ASSUME TypeInv, [Next]_vars PROVE TypeInv'
  OBVIOUS
<1> USE DEF TypeInv, TypeOK, PickedStored, StoredFixed, TargetKnown, dataVars, reqVars, listVars,
        vmVars, lockVars, loopVars
<1>1. ASSUME NEW r \in Request, NEW k \in Kind, NEW v \in VM, NEW s \in Spelling,
             CallRPC(r, k, v, s)
      PROVE  TypeInv'
  BY <1>1 DEF CallRPC, RpcPc
<1>2. ASSUME NEW r \in Request, RPCPending(r) PROVE TypeInv'
  BY <1>2 DEF RPCPending, RpcPc
<1>3. ASSUME NEW r \in Request, RPCStatus(r) PROVE TypeInv'
  BY <1>3 DEF RPCStatus, RpcPc
<1>4. ASSUME NEW r \in Request, RPCCreate(r) PROVE TypeInv'
  BY <1>4, ConstantsAssumption DEF RPCCreate, RpcPc
<1>5. ASSUME NEW r \in Request, Poll(r) PROVE TypeInv'
  BY <1>5 DEF Poll
<1>6. CASE MarkStarted
  BY <1>6 DEF MarkStarted
<1>7. CASE GoHandler
  BY <1>7 DEF GoHandler, HandlerPc
<1>8. ASSUME NEW r \in Request, HandlerStep(r) PROVE TypeInv'
  <2>1. ASSUME NEW pc \in HandlerPc, handler[r] # "none",
               Continues(r, pc) \/ Succeeded(r, pc) \/ Failed(r),
               UNCHANGED <<dataVars, loopVars, rpc, restarts>>
        PROVE  /\ handler' \in [Request -> HandlerPc]
               /\ created' = created /\ started' = started
               /\ complete' \in SUBSET Request /\ successful' \in SUBSET Request
               /\ PickedStored' /\ StoredFixed' /\ TargetKnown'
    BY <2>1, AnswerType
  <2>2. CASE HandlerLookup(r)
    BY <2>1, <2>2 DEF HandlerLookup, HandlerPc
  <2>3. CASE HandlerCheck(r)
    BY <2>1, <2>3 DEF HandlerCheck, HandlerPc
  <2>4. CASE StartBegin(r)
    <3>1. \E pc \in HandlerPc : Continues(r, pc) \/ Succeeded(r, pc) \/ Failed(r)
      BY <2>4 DEF StartBegin, HandlerPc
    <3>2. status' \in [VM -> StatusType]
      BY <2>4 DEF StartBegin, StatusType
    <3>3. QED
      BY <2>1, <2>4, <3>1, <3>2 DEF StartBegin
  <2>5. CASE StartReturns(r)
    <3>1. \E pc \in HandlerPc : Continues(r, pc) \/ Succeeded(r, pc) \/ Failed(r)
      BY <2>5 DEF StartReturns, HandlerPc
    <3>2. target[r] \in VM
      BY <2>5 DEF StartReturns
    <3>3. QED
      BY <2>1, <2>5, <3>1, <3>2 DEF StartReturns, LocksDisks, DiskHolder
  <2>6. CASE StopBegin(r)
    <3>1. \E pc \in HandlerPc : Continues(r, pc) \/ Succeeded(r, pc) \/ Failed(r)
      BY <2>6 DEF StopBegin, HandlerPc
    <3>2. status' \in [VM -> StatusType]
      BY <2>6 DEF StopBegin, StatusType
    <3>3. QED
      BY <2>1, <2>6, <3>1, <3>2 DEF StopBegin
  <2>7. CASE StopReturns(r)
    BY <2>1, <2>7 DEF StopReturns, HandlerPc
  <2>8. CASE DeleteRows(r)
    <3>1. \E pc \in HandlerPc : Continues(r, pc) \/ Succeeded(r, pc) \/ Failed(r)
      BY <2>8 DEF DeleteRows, HandlerPc
    <3>2. QED
      BY <2>1, <2>8, <3>1 DEF DeleteRows
  <2>9. CASE DeleteSucceeded(r)
    BY <2>1, <2>9 DEF DeleteSucceeded, HandlerPc
  <2>10. CASE DeleteUnlist(r)
    BY <2>1, <2>10 DEF DeleteUnlist, HandlerPc
  <2>11. QED
    BY <1>8, <2>2, <2>3, <2>4, <2>5, <2>6, <2>7, <2>8, <2>9, <2>10 DEF HandlerStep
<1>9. ASSUME NEW v \in VM, VMStep(v) PROVE TypeInv'
  BY <1>9 DEF VMStep, Autostart, AutostartReturns, LocksDisks, MonitorStarted, Done, OtherLocks,
     OtherUnlocks, StatusType, DiskHolder
<1>10. CASE Restart
  BY <1>10, ConstantsAssumption DEF Restart, StatusType, RpcPc, HandlerPc, DiskHolder
<1>11. CASE UNCHANGED vars
  BY <1>11 DEF vars
<1>12. QED
  BY <1>1, <1>2, <1>3, <1>4, <1>5, <1>6, <1>7, <1>8, <1>9, <1>10, <1>11
     DEF Next, RPCStep, LoopStep

\* Every variable keeps its type, whatever clients, handlers and restarts do.
THEOREM TypeCorrect == Spec => []TypeOK
<1>1. TypeInv => TypeOK
  BY DEF TypeInv
<1>2. QED
  BY <1>1, TypeInit, TypeStep, PTL DEF Spec

-----------------------------------------------------------------------------
(* One handler at a time. The check of a handler finds every other pending  *)
(* request of its VM, because a request is stored before it is handed out   *)
(* and stays pending until it is answered; the ids it compares are spelled  *)
(* alike, because GetByID lets no other spelling get that far.              *)

ExclusionInv == TypeInv /\ CanonicalWork /\ HandlerExclusion

Answers(r) == (\E pc \in HandlerPc : Continues(r, pc) \/ Succeeded(r, pc)) \/ Failed(r)

\* Only the handler of r moves, and it is none of those that start to work.
LEMMA ExclusionFrame ==
  ASSUME ExclusionInv, TypeInv', UNCHANGED <<target, spelling>>, complete \subseteq complete',
         \A q \in Request : /\ Working(q)' => Working(q)
                            /\ handler'[q] \notin {"none", "lookup"} =>
                                 handler[q] \notin {"none", "lookup"}
  PROVE  ExclusionInv'
<1>1. CanonicalWork'
  BY DEF ExclusionInv, CanonicalWork
<1>2. HandlerExclusion'
  BY DEF ExclusionInv, HandlerExclusion
<1>3. QED
  BY <1>1, <1>2 DEF ExclusionInv

\* A handler that works already goes on or answers.
LEMMA WorkGoesOn ==
  ASSUME ExclusionInv, TypeInv', NEW r \in Request, Working(r), Answers(r),
         UNCHANGED <<target, spelling>>
  PROVE  ExclusionInv'
<1>1. complete \subseteq complete' /\ \A q \in Request \ {r} : handler'[q] = handler[q]
  BY DEF Answers, Continues, Succeeded, Failed, Goes, reqVars, ExclusionInv, TypeInv, TypeOK
<1>2. handler[r] \notin {"none", "lookup"}
  BY DEF Working
<1>3. QED
  BY <1>1, <1>2, ExclusionFrame DEF Working

LEMMA ExclusionStep == ExclusionInv /\ [Next]_vars => ExclusionInv'
<1> SUFFICES ASSUME ExclusionInv, [Next]_vars PROVE ExclusionInv'
  OBVIOUS
<1> USE DEF dataVars, reqVars, listVars, vmVars, lockVars, loopVars
<1>0. TypeInv /\ TypeInv'
  BY TypeStep DEF ExclusionInv
<1>1. \A r \in Request : rpc[r] # "none" => handler[r] = "none"
  BY <1>0 DEF TypeInv, PickedStored, StoredFixed
<1>2. ASSUME NEW r \in Request, NEW k \in Kind, NEW v \in VM, NEW s \in Spelling,
             CallRPC(r, k, v, s)
      PROVE  ExclusionInv'
  <2>1. handler[r] = "none" /\ handler' = handler /\ complete' = complete
    BY <1>0, <1>2 DEF CallRPC, TypeInv, PickedStored
  <2>2. \A q \in Request \ {r} : target'[q] = target[q] /\ spelling'[q] = spelling[q]
    BY <1>0, <1>2 DEF CallRPC, TypeInv, TypeOK
  <2>3. CanonicalWork'
    BY <2>1, <2>2 DEF ExclusionInv, CanonicalWork
  <2>4. HandlerExclusion'
    BY <2>1, <2>2 DEF ExclusionInv, HandlerExclusion, Working
  <2>5. QED
    BY <1>0, <2>3, <2>4 DEF ExclusionInv
<1>3. ASSUME NEW r \in Request, RPCPending(r) \/ RPCStatus(r) PROVE ExclusionInv'
  BY <1>0, <1>3, ExclusionFrame DEF RPCPending, RPCStatus, Working
<1>4. ASSUME NEW r \in Request, RPCCreate(r) PROVE ExclusionInv'
  <2>1. /\ handler[r] = "none" /\ handler' = handler /\ complete' = complete
        /\ target' = target
    BY <1>1, <1>4 DEF RPCCreate
  <2>2. \A q \in Request \ {r} : spelling'[q] = spelling[q]
    BY <1>0, <1>4 DEF RPCCreate, TypeInv, TypeOK
  <2>3. CanonicalWork'
    BY <2>1, <2>2 DEF ExclusionInv, CanonicalWork
  <2>4. HandlerExclusion'
    BY <2>1 DEF ExclusionInv, HandlerExclusion, Working
  <2>5. QED
    BY <1>0, <2>3, <2>4 DEF ExclusionInv
<1>5. ASSUME NEW r \in Request, Poll(r) PROVE ExclusionInv'
  BY <1>0, <1>5, ExclusionFrame DEF Poll, Working
<1>6. CASE MarkStarted
  BY <1>0, <1>6, ExclusionFrame DEF MarkStarted, Working
<1>7. CASE GoHandler
  <2>1. \A q \in Request : handler'[q] = handler[q] \/ handler'[q] = "lookup"
    BY <1>0, <1>7 DEF GoHandler, TypeInv, TypeOK
  <2>2. QED
    BY <1>0, <1>7, <2>1, ExclusionFrame DEF GoHandler, Working
<1>8. ASSUME NEW r \in Request, HandlerLookup(r) PROVE ExclusionInv'
  <2>1. /\ UNCHANGED <<target, spelling, created, complete>>
        /\ \/ handler' = [handler EXCEPT ![r] = "check"] /\ spelling[r] = "canonical"
           \/ handler' = [handler EXCEPT ![r] = "none"]
    BY <1>8 DEF HandlerLookup, Continues, Goes
  <2>2. \A q \in Request : Working(q)' => Working(q)
    BY <1>0, <2>1 DEF TypeInv, TypeOK, Working
  <2>3. CanonicalWork'
    BY <1>0, <2>1 DEF ExclusionInv, CanonicalWork, TypeInv, TypeOK
  <2>4. HandlerExclusion'
    BY <2>1, <2>2 DEF ExclusionInv, HandlerExclusion
  <2>5. QED
    BY <1>0, <2>3, <2>4 DEF ExclusionInv
<1>9. ASSUME NEW r \in Request, HandlerCheck(r) PROVE ExclusionInv'
  <2>1. CASE PendingReqExists(target[r], "canonical") \ {r} = {}
    <3>1. /\ handler[r] = "check" /\ handler' = [handler EXCEPT ![r] = "act"]
          /\ UNCHANGED <<target, spelling, created, complete>>
      BY <1>9, <2>1 DEF HandlerCheck, Continues, Goes
    <3>2. \A q \in Request : Working(q) /\ q \notin complete /\ target[q] = target[r] => q = r
      <4> SUFFICES ASSUME NEW q \in Request, Working(q), q \notin complete, target[q] = target[r]
                   PROVE  q = r
        OBVIOUS
      <4>1. q \in created /\ spelling[q] = "canonical"
        BY <1>0 DEF Working, ExclusionInv, CanonicalWork, TypeInv, PickedStored
      <4>2. q \in PendingReqExists(target[r], "canonical")
        BY <4>1 DEF PendingReqExists
      <4>3. QED
        BY <2>1, <4>2
    <3>3. \A q \in Request \ {r} : handler'[q] = handler[q]
      BY <3>1
    <3>4. HandlerExclusion'
      BY <3>1, <3>2, <3>3 DEF ExclusionInv, HandlerExclusion, Working
    <3>5. CanonicalWork'
      BY <3>1, <3>3 DEF ExclusionInv, CanonicalWork
    <3>6. QED
      BY <1>0, <3>4, <3>5 DEF ExclusionInv
  <2>2. CASE PendingReqExists(target[r], "canonical") \ {r} # {}
    <3>1. /\ handler' = [handler EXCEPT ![r] = "none"] /\ complete \subseteq complete'
          /\ UNCHANGED <<target, spelling>>
      BY <1>9, <2>2 DEF HandlerCheck, Failed, Goes
    <3>2. \A q \in Request : handler'[q] = handler[q] \/ handler'[q] = "none"
      BY <1>0, <3>1 DEF TypeInv, TypeOK
    <3>3. QED
      BY <1>0, <3>1, <3>2, ExclusionFrame DEF Working
  <2>3. QED
    BY <2>1, <2>2
<1>10. ASSUME NEW r \in Request,
              \/ StartBegin(r) \/ StartReturns(r) \/ StopBegin(r) \/ StopReturns(r)
              \/ DeleteRows(r) \/ DeleteSucceeded(r) \/ DeleteUnlist(r)
       PROVE  ExclusionInv'
  <2>1. Working(r) /\ UNCHANGED <<target, spelling>>
    BY <1>10 DEF StartBegin, StartReturns, StopBegin, StopReturns, DeleteRows, DeleteSucceeded,
                 DeleteUnlist, Working
  <2>2. Answers(r)
    BY <1>10 DEF StartBegin, StartReturns, StopBegin, StopReturns, DeleteRows, DeleteSucceeded,
                 DeleteUnlist, Answers, HandlerPc
  <2>3. QED
    BY <1>0, <2>1, <2>2, WorkGoesOn
<1>11. ASSUME NEW v \in VM, VMStep(v) PROVE ExclusionInv'
  BY <1>0, <1>11, ExclusionFrame DEF VMStep, Autostart, AutostartReturns, LocksDisks,
     MonitorStarted, Done, OtherLocks, OtherUnlocks, Working
<1>12. CASE Restart
  <2>1. \A q \in Request : handler'[q] = "none"
    BY <1>12 DEF Restart
  <2>2. QED
    BY <1>0, <2>1 DEF ExclusionInv, CanonicalWork, HandlerExclusion, Working
<1>13. CASE UNCHANGED vars
  BY <1>0, <1>13, ExclusionFrame DEF vars, Working
<1>14. QED
  BY <1>2, <1>3, <1>4, <1>5, <1>6, <1>7, <1>8, <1>9, <1>10, <1>11, <1>12, <1>13
     DEF Next, RPCStep, LoopStep, HandlerStep

\* Of the pending requests of a VM at most one is worked on, for any number of
\* clients, VMs and restarts.
THEOREM OneHandlerPerVM == Spec => []HandlerExclusion
<1>1. Init => ExclusionInv
  BY TypeInit DEF Init, ExclusionInv, CanonicalWork, HandlerExclusion, Working
<1>2. ExclusionInv => HandlerExclusion
  BY DEF ExclusionInv
<1>3. QED
  BY <1>1, <1>2, ExclusionStep, PTL DEF Spec

-----------------------------------------------------------------------------
(* Handing out. The mark in the table is older than the handler, so a        *)
(* restart between the two loses the handler and never makes a second one.   *)

HandedInv ==
  /\ TypeInv
  /\ \A r \in Request : handed[r] <= 1 /\ (handed[r] = 1 => r \in started)
  /\ dispatcher = "start" => handed[picked] = 0
  /\ dispatcher = "go" => handed[picked] = 0 /\ picked \in started

LEMMA HandedStep == HandedInv /\ [Next]_vars => HandedInv'
<1> SUFFICES ASSUME HandedInv, [Next]_vars PROVE HandedInv'
  OBVIOUS
<1>0. TypeInv /\ TypeInv'
  BY TypeStep DEF HandedInv
<1>1. ASSUME NEW r \in Request, Poll(r) PROVE HandedInv'
  <2>1. handed[r] = 0
    BY <1>0, <1>1 DEF Poll, HandedInv, TypeInv, TypeOK
  <2>2. QED
    BY <1>0, <1>1, <2>1 DEF Poll, HandedInv, reqVars
<1>2. CASE MarkStarted
  BY <1>0, <1>2 DEF MarkStarted, HandedInv
<1>3. CASE GoHandler
  <2>1. picked \in Request
    BY <1>0, <1>3 DEF GoHandler, TypeInv, TypeOK, PickedStored
  <2>2. QED
    BY <1>0, <1>3, <2>1 DEF GoHandler, HandedInv, TypeInv, TypeOK, reqVars
<1>4. ASSUME UNCHANGED <<handed, started, loopVars>> PROVE HandedInv'
  BY <1>0, <1>4 DEF HandedInv, loopVars
<1>5. CASE Restart
  BY <1>0, <1>5 DEF Restart, HandedInv
<1>6. ASSUME NEW r \in Request, RPCStep(r) PROVE HandedInv'
  BY <1>4, <1>6 DEF RPCStep, CallRPC, RPCPending, RPCStatus, RPCCreate, reqVars, loopVars
<1>7. ASSUME NEW r \in Request, HandlerStep(r) PROVE HandedInv'
  <2>1. UNCHANGED <<started, loopVars>>
    BY <1>7 DEF HandlerStep, HandlerLookup, HandlerCheck, StartBegin, StartReturns, StopBegin,
                StopReturns, DeleteRows, DeleteSucceeded, DeleteUnlist, Continues, Succeeded,
                Failed, reqVars
  <2>2. QED
    BY <1>4, <2>1 DEF loopVars
<1>8. ASSUME NEW v \in VM, VMStep(v) PROVE HandedInv'
  BY <1>4, <1>8 DEF VMStep, Autostart, AutostartReturns, LocksDisks,
     MonitorStarted, Done, OtherLocks, OtherUnlocks, reqVars, loopVars
<1>9. CASE UNCHANGED vars
  BY <1>4, <1>9 DEF vars, reqVars, loopVars
<1>10. QED
  BY <1>1, <1>2, <1>3, <1>5, <1>6, <1>7, <1>8, <1>9 DEF Next, LoopStep

\* No request is worked on twice, however many requests and restarts there are.
THEOREM AtMostOnce == Spec => []HandedOutOnce
<1>1. Init => HandedInv
  BY TypeInit DEF Init, HandedInv
<1>2. HandedInv => HandedOutOnce
  BY DEF HandedInv, HandedOutOnce
<1>3. QED
  BY <1>1, <1>2, HandedStep, PTL DEF Spec

-----------------------------------------------------------------------------
(* The promise. Who may answer a request is the handler it was handed to, and *)
(* a request that has been answered is never handed out again in its success. *)

\* What is answered was stored, and what is answered with success was handed out, and its
\* handler is through but for the list.
PromiseInv ==
  /\ HandedInv
  /\ successful \subseteq complete /\ complete \subseteq created
  /\ \A r \in Request : handler[r] # "none" => handed[r] = 1
  /\ \A r \in successful : handed[r] = 1 /\ handler[r] \in {"none", "unlist"}

\* The handler of r goes on, or it answers or gives up.
LEMMA WorkKeepsPromise ==
  ASSUME PromiseInv, HandedInv', NEW r \in Request, NEW pc \in HandlerPc,
         handler[r] \notin {"none", "unlist"}, pc # "unlist" \/ Succeeded(r, pc),
         \/ Continues(r, pc)
         \/ Succeeded(r, pc) /\ pc \in {"none", "unlist"}
         \/ Failed(r),
         UNCHANGED handed
  PROVE  PromiseInv' /\ [Promise!Next]_(Promise!vars)
<1> USE DEF PromiseInv, HandedInv, TypeInv, TypeOK
<1>1. r \in created /\ r \notin successful /\ handed[r] = 1
  BY DEF PickedStored
<1>2. CASE Continues(r, pc)
  <2>1. /\ handler' = [handler EXCEPT ![r] = pc] /\ pc # "unlist"
        /\ UNCHANGED <<created, complete, successful, handed>>
    BY <1>1, <1>2 DEF Continues, Succeeded, Goes, reqVars
  <2>2. PromiseInv'
    BY <1>1, <2>1
  <2>3. toldState' = toldState
    BY <2>1 DEF toldState
  <2>4. unanswered' = IF pc = "none" THEN unanswered \ {r} ELSE unanswered
    BY <2>1 DEF unanswered
  <2>5. r \in unanswered
    BY DEF unanswered
  <2>6. Promise!GiveUp(r) \/ UNCHANGED Promise!vars
    BY <2>1, <2>3, <2>4, <2>5 DEF Promise!GiveUp, Promise!vars
  <2>7. QED
    BY <2>2, <2>6 DEF Promise!Next
<1>3. CASE (Succeeded(r, pc) /\ pc \in {"none", "unlist"}) \/ Failed(r)
  <2>1. PICK s \in {"done", "failed"} :
          /\ handler' \in {[handler EXCEPT ![r] = "none"], [handler EXCEPT ![r] = "unlist"]}
          /\ complete' = complete \cup {r} /\ created' = created
          /\ s = "failed" => successful' = successful /\ handler' = [handler EXCEPT ![r] = "none"]
          /\ s = "done" => successful' = successful \cup {r}
    BY <1>3 DEF Succeeded, Failed, Goes
  <2>2. PromiseInv'
    BY <1>1, <2>1
  <2>3. toldState' = [toldState EXCEPT ![r] = s]
    <3>1. ASSUME NEW q \in Request PROVE toldState'[q] = IF q = r THEN s ELSE toldState[q]
      <4>1. CASE q = r
        BY <1>1, <2>1, <4>1 DEF toldState
      <4>2. CASE q # r
        BY <2>1, <4>2 DEF toldState
      <4>3. QED
        BY <4>1, <4>2
    <3>2. QED
      BY <3>1 DEF toldState
  <2>4. unanswered' = unanswered \ {r} /\ r \in unanswered
    BY <2>1 DEF unanswered
  <2>5. toldState[r] \in {"open", "failed"}
    BY <1>1 DEF toldState
  <2>6. Promise!Answer(r, s)
    BY <2>3, <2>4, <2>5 DEF Promise!Answer
  <2>7. QED
    BY <2>1, <2>2, <2>6 DEF Promise!Next
<1>4. QED
  BY <1>2, <1>3

LEMMA PromiseStep == PromiseInv /\ [Next]_vars => PromiseInv' /\ [Promise!Next]_(Promise!vars)
<1> SUFFICES ASSUME PromiseInv, [Next]_vars
             PROVE  PromiseInv' /\ [Promise!Next]_(Promise!vars)
  OBVIOUS
<1> USE DEF dataVars, reqVars, listVars, vmVars, lockVars, loopVars
<1>0. HandedInv /\ HandedInv' /\ TypeInv /\ TypeInv'
  BY HandedStep DEF PromiseInv, HandedInv
\* Neither the table's answers nor the handlers are touched.
<1>1. ASSUME UNCHANGED <<created, complete, successful, handler, handed>>
      PROVE  PromiseInv' /\ UNCHANGED Promise!vars
  <2>1. UNCHANGED <<toldState, unanswered>>
    BY <1>1 DEF toldState, unanswered
  <2>2. QED
    BY <1>0, <1>1, <2>1 DEF PromiseInv, Promise!vars
<1>2. ASSUME NEW r \in Request, RPCStep(r), ~RPCCreate(r)
      PROVE  PromiseInv' /\ UNCHANGED Promise!vars
  BY <1>1, <1>2 DEF RPCStep, CallRPC, RPCPending, RPCStatus
<1>3. ASSUME NEW r \in Request, RPCCreate(r)
      PROVE  PromiseInv' /\ Promise!Ask(r)
  <2>1. r \notin created
    BY <1>0, <1>3 DEF RPCCreate, TypeInv, StoredFixed
  <2>2. /\ created' = created \cup {r} /\ UNCHANGED <<complete, successful, handler, handed>>
    BY <1>3 DEF RPCCreate
  <2>3. toldState[r] = "new" /\ toldState' = [toldState EXCEPT ![r] = "open"]
    BY <2>1, <2>2 DEF toldState, PromiseInv
  <2>4. unanswered' = unanswered
    BY <2>2 DEF unanswered
  <2>5. QED
    BY <1>0, <2>2, <2>3, <2>4 DEF PromiseInv, Promise!Ask
<1>4. ASSUME NEW r \in Request, Poll(r)
      PROVE  PromiseInv' /\ UNCHANGED Promise!vars
  BY <1>1, <1>4 DEF Poll
<1>5. CASE MarkStarted
  BY <1>1, <1>5 DEF MarkStarted
<1>6. CASE GoHandler
  <2>1. /\ picked \in Request /\ handler[picked] = "none" /\ handed[picked] = 0 /\ picked \in created
        /\ picked \notin successful
    BY <1>0, <1>6 DEF GoHandler, HandedInv, TypeInv, TypeOK, PickedStored, PromiseInv
  <2>2. /\ handler' = [handler EXCEPT ![picked] = "lookup"]
        /\ handed' = [handed EXCEPT ![picked] = 1]
        /\ UNCHANGED <<created, complete, successful>>
    BY <1>6, <2>1 DEF GoHandler
  <2>3. PromiseInv'
    BY <1>0, <2>1, <2>2 DEF PromiseInv, TypeInv, TypeOK
  <2>4. unanswered' = unanswered \cup {picked}
    BY <1>0, <2>1, <2>2 DEF unanswered, TypeInv, TypeOK
  <2>5. toldState' = toldState /\ toldState[picked] \in {"open", "failed"}
    BY <2>1, <2>2 DEF toldState
  <2>6. Promise!TakeUp(picked)
    BY <2>1, <2>2, <2>4, <2>5 DEF Promise!TakeUp
  <2>7. QED
    BY <2>1, <2>3, <2>6 DEF Promise!Next
<1>7. ASSUME NEW r \in Request, HandlerStep(r), ~DeleteUnlist(r)
      PROVE  PromiseInv' /\ [Promise!Next]_(Promise!vars)
  <2>1. /\ handler[r] \notin {"none", "unlist"} /\ handed' = handed
        /\ \E pc \in HandlerPc : /\ pc # "unlist" \/ Succeeded(r, pc)
                                 /\ \/ Continues(r, pc)
                                    \/ Succeeded(r, pc) /\ pc \in {"none", "unlist"}
                                    \/ Failed(r)
    BY <1>7 DEF HandlerStep, HandlerLookup, HandlerCheck, StartBegin, StartReturns, StopBegin,
                StopReturns, DeleteRows, DeleteSucceeded, HandlerPc
  <2>2. QED
    BY <1>0, <2>1, WorkKeepsPromise
<1>8. ASSUME NEW r \in Request, DeleteUnlist(r)
      PROVE  PromiseInv' /\ UNCHANGED Promise!vars
  <2>1. /\ handler' = [handler EXCEPT ![r] = "none"] /\ handler[r] = "unlist"
        /\ UNCHANGED <<created, complete, successful, handed>>
    BY <1>8 DEF DeleteUnlist, Continues, Goes
  <2>2. UNCHANGED <<toldState, unanswered>>
    BY <1>0, <2>1 DEF toldState, unanswered, TypeInv, TypeOK
  <2>3. QED
    BY <1>0, <2>1, <2>2 DEF PromiseInv, Promise!vars, TypeInv, TypeOK
<1>9. ASSUME NEW v \in VM, VMStep(v)
      PROVE  PromiseInv' /\ UNCHANGED Promise!vars
  BY <1>1, <1>9 DEF VMStep, Autostart, AutostartReturns, LocksDisks,
     MonitorStarted, Done, OtherLocks, OtherUnlocks
<1>10. CASE Restart
  <2>1. /\ handler' = [r \in Request |-> "none"] /\ complete' = created
        /\ UNCHANGED <<created, successful, handed>>
    BY <1>10 DEF Restart
  <2>2. PromiseInv'
    BY <1>0, <2>1 DEF PromiseInv, TypeInv, TypeOK
  <2>3. toldState' = [r \in Request |-> IF toldState[r] = "open" THEN "failed" ELSE toldState[r]]
    BY <2>1 DEF toldState, PromiseInv
  <2>4. unanswered' = {}
    BY <2>1 DEF unanswered
  <2>5. Promise!Interrupt
    BY <2>1, <2>3, <2>4 DEF Promise!Interrupt
  <2>6. QED
    BY <2>2, <2>5 DEF Promise!Next
<1>11. CASE UNCHANGED vars
  BY <1>1, <1>11 DEF vars
<1>12. QED
  BY <1>2, <1>3, <1>4, <1>5, <1>6, <1>7, <1>8, <1>9, <1>10, <1>11
     DEF Next, RPCStep, LoopStep, Promise!Next

\* The RPCs, the loop, the handlers and the restarts implement what RequestPromise says of a
\* request (PromiseKept): taken up once, answered by who took it up, a success for good.
THEOREM PromiseImplemented == Spec => PromiseKept
<1>1. Init => PromiseInv /\ Promise!Init
  <2> SUFFICES ASSUME Init PROVE PromiseInv /\ Promise!Init
    OBVIOUS
  <2>1. HandedInv
    BY TypeInit DEF Init, HandedInv
  <2>2. toldState = [r \in Request |-> "new"] /\ unanswered = {}
    BY DEF Init, toldState, unanswered
  <2>3. QED
    BY <2>1, <2>2 DEF Init, PromiseInv, Promise!Init
<1>2. QED
  BY <1>1, PromiseStep, PTL DEF Spec, PromiseKept, Promise!Spec

-----------------------------------------------------------------------------
(* Deleting. Between the rows and the list lies the write lock of vm.List,   *)
(* and the answer lies between the two.                                      *)

\* A handler is where the type of its request takes it.
KindOfWork ==
  \A r \in Request :
    /\ handler[r] = "starting" => kind[r] = "VMSTART"
    /\ handler[r] = "stopping" => kind[r] = "VMSTOP"
    /\ handler[r] \in {"deleted", "unlist"} => kind[r] = "VMDELETE"

LockedWhileApart ==
  /\ listMu = NoRequest => list = rows
  /\ listMu # NoRequest => /\ handler[listMu] \in {"deleted", "unlist"}
                           /\ rows = list \ {target[listMu]}
  /\ \A r \in Request : handler[r] \in {"deleted", "unlist"} => listMu = r

SucceededStored == successful \subseteq created

DeleteInv ==
  TypeInv /\ KindOfWork /\ LockedWhileApart /\ SucceededStored /\ DeletedIsGone

LEMMA DeleteStep == DeleteInv /\ [Next]_vars => DeleteInv'
<1> SUFFICES ASSUME DeleteInv, [Next]_vars PROVE DeleteInv'
  OBVIOUS
<1> USE DEF dataVars, reqVars, listVars, vmVars, lockVars, loopVars
<1>0. TypeInv /\ TypeInv' /\ NoRequest \notin Request
  BY TypeStep, ConstantsAssumption DEF DeleteInv
\* A step of the loop, of a VM, or of an RPC whose request has no handler.
<1>1. ASSUME UNCHANGED listVars, successful' = successful, created \subseteq created',
             \A r \in created : kind'[r] = kind[r] /\ target'[r] = target[r],
             \A r \in Request : handler'[r] = handler[r] \/ handler'[r] = "lookup",
             \A r \in Request : handler[r] \in {"deleted", "unlist"} => handler'[r] = handler[r]
      PROVE  DeleteInv'
  <2>1. \A r \in Request : handler[r] # "none" => r \in created
    BY <1>0 DEF TypeInv, PickedStored
  <2>2. KindOfWork'
    BY <1>1, <2>1 DEF DeleteInv, KindOfWork
  <2>3. LockedWhileApart'
    <3>1. listMu # NoRequest => listMu \in created
      BY <1>0, <2>1 DEF DeleteInv, LockedWhileApart, TypeInv, TypeOK
    <3>2. QED
      BY <1>0, <1>1, <3>1 DEF DeleteInv, LockedWhileApart, TypeInv, TypeOK
  <2>4. SucceededStored' /\ DeletedIsGone'
    BY <1>1 DEF DeleteInv, SucceededStored, DeletedIsGone
  <2>5. QED
    BY <1>0, <2>2, <2>3, <2>4 DEF DeleteInv
<1>2. ASSUME NEW r \in Request, RPCStep(r) PROVE DeleteInv'
  <2>1. \A q \in created : rpc[q] = "none"
    BY <1>0 DEF TypeInv, StoredFixed
  <2>2. /\ UNCHANGED <<listVars, successful, handler>> /\ created \subseteq created'
        /\ \A q \in created : kind'[q] = kind[q] /\ target'[q] = target[q]
    BY <1>0, <1>2, <2>1
       DEF RPCStep, CallRPC, RPCPending, RPCStatus, RPCCreate, TypeInv, TypeOK
  <2>3. QED
    BY <1>1, <2>2
<1>3. CASE LoopStep
  <2>1. UNCHANGED <<listVars, successful, created, kind, target>>
    BY <1>3 DEF LoopStep, Poll, MarkStarted, GoHandler
  <2>2. \A q \in Request : handler'[q] = handler[q] \/ handler'[q] = "lookup"
    BY <1>0, <1>3 DEF LoopStep, Poll, MarkStarted, GoHandler, TypeInv, TypeOK
  <2>3. \A q \in Request : handler[q] \in {"deleted", "unlist"} => handler'[q] = handler[q]
    BY <1>0, <1>3 DEF LoopStep, Poll, MarkStarted, GoHandler, TypeInv, TypeOK, PickedStored
  <2>4. QED
    BY <1>1, <2>1, <2>2, <2>3
<1>4. ASSUME NEW v \in VM, VMStep(v) PROVE DeleteInv'
  BY <1>1, <1>4 DEF VMStep, Autostart, AutostartReturns, LocksDisks,
     MonitorStarted, Done, OtherLocks, OtherUnlocks
\* A handler goes on without touching the list, and answers what it did.
<1>5. ASSUME NEW r \in Request, NEW pc \in {"none", "check", "act", "starting", "stopping"},
             handler[r] \notin {"none", "deleted", "unlist"},
             handler' = [handler EXCEPT ![r] = pc],
             pc = "starting" => kind[r] = "VMSTART",
             pc = "stopping" => kind[r] = "VMSTOP",
             successful' \in {successful, successful \cup {r}},
             r \in successful' => r \in successful \/ kind[r] # "VMDELETE",
             UNCHANGED <<created, kind, target, listVars>>
      PROVE  DeleteInv'
  <2>1. r \in created
    BY <1>0, <1>5 DEF TypeInv, PickedStored
  <2>2. handler'[r] = pc /\ \A q \in Request \ {r} : handler'[q] = handler[q]
    BY <1>0, <1>5 DEF TypeInv, TypeOK
  <2>3. KindOfWork'
    BY <1>5, <2>2 DEF DeleteInv, KindOfWork
  <2>4. LockedWhileApart'
    BY <1>0, <1>5, <2>2 DEF DeleteInv, LockedWhileApart, TypeInv, TypeOK
  <2>5. SucceededStored' /\ DeletedIsGone'
    BY <1>5, <2>1 DEF DeleteInv, SucceededStored, DeletedIsGone
  <2>6. QED
    BY <1>0, <2>3, <2>4, <2>5 DEF DeleteInv
<1>6. ASSUME NEW r \in Request, HandlerLookup(r) \/ HandlerCheck(r) PROVE DeleteInv'
  <2>1. \E pc \in {"none", "check", "act"} :
          handler' = [handler EXCEPT ![r] = pc] /\ successful' = successful
    BY <1>6 DEF HandlerLookup, HandlerCheck, Continues, Failed, Goes
  <2>2. handler[r] \notin {"none", "deleted", "unlist"} /\ UNCHANGED <<created, kind, target, listVars>>
    BY <1>6 DEF HandlerLookup, HandlerCheck, Continues, Failed, Goes
  <2>3. QED
    BY <1>5, <2>1, <2>2
<1>7. ASSUME NEW r \in Request, StartBegin(r) \/ StartReturns(r) PROVE DeleteInv'
  <2>1. kind[r] = "VMSTART" /\ handler[r] \in {"act", "starting"}
    BY <1>7 DEF StartBegin, StartReturns, DeleteInv, KindOfWork
  <2>2. \E pc \in {"none", "starting"} :
          /\ handler' = [handler EXCEPT ![r] = pc]
          /\ successful' \in {successful, successful \cup {r}}
    BY <1>7 DEF StartBegin, StartReturns, Continues, Succeeded, Failed, Goes
  <2>3. UNCHANGED <<created, kind, target, listVars>>
    BY <1>7 DEF StartBegin, StartReturns, Continues, Succeeded, Failed, Goes
  <2>4. QED
    BY <1>5, <2>1, <2>2, <2>3
<1>8. ASSUME NEW r \in Request, StopBegin(r) \/ StopReturns(r) PROVE DeleteInv'
  <2>1. kind[r] = "VMSTOP" /\ handler[r] \in {"act", "stopping"}
    BY <1>8 DEF StopBegin, StopReturns, DeleteInv, KindOfWork
  <2>2. \E pc \in {"none", "stopping"} :
          /\ handler' = [handler EXCEPT ![r] = pc]
          /\ successful' \in {successful, successful \cup {r}}
    BY <1>8 DEF StopBegin, StopReturns, Continues, Succeeded, Failed, Goes
  <2>3. UNCHANGED <<created, kind, target, listVars>>
    BY <1>8 DEF StopBegin, StopReturns, Continues, Succeeded, Failed, Goes
  <2>4. QED
    BY <1>5, <2>1, <2>2, <2>3
<1>9. ASSUME NEW r \in Request, DeleteRows(r) PROVE DeleteInv'
  <2>1. /\ handler[r] = "act" /\ kind[r] = "VMDELETE" /\ listMu = NoRequest
        /\ UNCHANGED <<created, successful, kind, target, list>>
    BY <1>9 DEF DeleteRows, Continues, Failed
  <2>2. CASE Failed(r) /\ UNCHANGED <<rows, listMu>>
    BY <1>5, <2>1, <2>2 DEF Failed, Goes
  <2>3. CASE Continues(r, "deleted") /\ rows' = rows \ {target[r]} /\ listMu' = r
    <3>1. handler'[r] = "deleted" /\ \A q \in Request \ {r} : handler'[q] = handler[q]
      BY <1>0, <2>3 DEF Continues, Goes, TypeInv, TypeOK
    <3>2. KindOfWork'
      BY <2>1, <3>1 DEF DeleteInv, KindOfWork
    <3>3. LockedWhileApart'
      BY <1>0, <2>1, <2>3, <3>1 DEF DeleteInv, LockedWhileApart
    <3>4. SucceededStored' /\ DeletedIsGone'
      BY <2>1, <2>3 DEF DeleteInv, SucceededStored, DeletedIsGone
    <3>5. QED
      BY <1>0, <3>2, <3>3, <3>4 DEF DeleteInv
  <2>4. QED
    BY <1>9, <2>2, <2>3 DEF DeleteRows
<1>10. ASSUME NEW r \in Request, DeleteSucceeded(r) PROVE DeleteInv'
  <2>1. /\ handler[r] = "deleted" /\ successful' = successful \cup {r}
        /\ UNCHANGED <<created, kind, target, listVars>>
        /\ handler'[r] = "unlist" /\ \A q \in Request \ {r} : handler'[q] = handler[q]
    BY <1>0, <1>10 DEF DeleteSucceeded, Succeeded, Goes, TypeInv, TypeOK
  <2>2. r \in created /\ kind[r] = "VMDELETE" /\ listMu = r /\ target[r] \notin rows
    BY <1>0, <2>1 DEF DeleteInv, KindOfWork, LockedWhileApart, TypeInv, PickedStored
  <2>3. KindOfWork'
    BY <2>1, <2>2 DEF DeleteInv, KindOfWork
  <2>4. LockedWhileApart'
    BY <1>0, <2>1, <2>2 DEF DeleteInv, LockedWhileApart
  <2>5. SucceededStored' /\ DeletedIsGone'
    BY <2>1, <2>2 DEF DeleteInv, SucceededStored, DeletedIsGone
  <2>6. QED
    BY <1>0, <2>3, <2>4, <2>5 DEF DeleteInv
<1>11. ASSUME NEW r \in Request, DeleteUnlist(r) PROVE DeleteInv'
  <2>1. /\ handler[r] = "unlist" /\ list' = list \ {target[r]} /\ listMu' = NoRequest
        /\ UNCHANGED <<created, successful, kind, target, rows>>
        /\ handler'[r] = "none" /\ \A q \in Request \ {r} : handler'[q] = handler[q]
    BY <1>0, <1>11 DEF DeleteUnlist, Continues, Goes, TypeInv, TypeOK
  <2>2. listMu = r /\ rows = list \ {target[r]}
    BY <1>0, <2>1 DEF DeleteInv, LockedWhileApart
  <2>3. KindOfWork'
    BY <2>1 DEF DeleteInv, KindOfWork
  <2>4. LockedWhileApart'
    BY <1>0, <2>1, <2>2 DEF DeleteInv, LockedWhileApart
  <2>5. SucceededStored' /\ DeletedIsGone'
    BY <2>1 DEF DeleteInv, SucceededStored, DeletedIsGone
  <2>6. QED
    BY <1>0, <2>3, <2>4, <2>5 DEF DeleteInv
<1>12. CASE Restart
  BY <1>0, <1>12 DEF Restart, DeleteInv, KindOfWork, LockedWhileApart, SucceededStored,
                     DeletedIsGone
<1>13. CASE UNCHANGED vars
  BY <1>1, <1>13 DEF vars
<1>14. QED
  BY <1>2, <1>3, <1>4, <1>6, <1>7, <1>8, <1>9, <1>10, <1>11, <1>12, <1>13
     DEF Next, HandlerStep

\* A delete that was answered lasts, and whoever may read the list of VMs finds
\* the VMs of the database in it, for any number of clients and restarts.
THEOREM DeleteLasts == Spec => [](DeletedIsGone /\ ListMatchesRows)
<1>1. Init => DeleteInv
  BY TypeInit, ConstantsAssumption
     DEF Init, DeleteInv, KindOfWork, LockedWhileApart, SucceededStored, DeletedIsGone
<1>2. DeleteInv => DeletedIsGone /\ ListMatchesRows
  BY DEF DeleteInv, LockedWhileApart, ListMatchesRows
<1>3. QED
  BY <1>1, <1>2, DeleteStep, PTL DEF Spec
=============================================================================
