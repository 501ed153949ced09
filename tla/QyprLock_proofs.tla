-------------------------- MODULE QyprLock_proofs ---------------------------
(***************************************************************************)
(* Proofs about QyprLock for any finite set of outputs, any number of keys *)
(* and hence any number of attempts.                                       *)
(***************************************************************************)
EXTENDS QyprLock, SequenceTheorems, FiniteSetTheorems, TLAPS

\* The order in which a finite set is listed is a sequence over the set.
LEMMA SetToSeqIsSeq ==
    ASSUME NEW S, IsFiniteSet(S)
    PROVE  SetToSeq(S) \in Seq(S)
<1>1. /\ Cardinality(S) \in Nat
      /\ ExistsBijection(1 .. Cardinality(S), S)
  BY FS_CardinalityType
<1>2. PICK f : f \in Bijection(1 .. Cardinality(S), S)
  BY <1>1 DEF ExistsBijection
<1>3. f \in [1 .. Cardinality(S) -> S] /\ IsInjective(f)
  BY <1>2 DEF Bijection, Injection
<1>4. SetToSeq(S) \in [1 .. Cardinality(S) -> S]
  BY <1>3 DEF SetToSeq
<1> QED
  BY <1>1, <1>4

-----------------------------------------------------------------------------
\* Type correctness, operation by operation.

LEMMA LockRequestsTyped ==
    ASSUME ClientTypeOK
    PROVE  /\ LockRequests \in Seq(Requests)
           /\ LockRequests # <<>> /\ LockRequests[1].req = "lock"
           /\ \A i \in 1 .. Len(LockRequests) : i > 1 => LockRequests[i].req = "surface"
<1> DEFINE S == {SurfaceReq(o) : o \in outputs}
           L == [req : {"surface"}, output : Outputs]
<1>1. IsFiniteSet(outputs)
  BY OutputsAssumption, FS_Subset DEF ClientTypeOK
<1>2. IsFiniteSet(S)
  <2> DEFINE f == [o \in outputs |-> SurfaceReq(o)]
  <2>1. f \in Surjection(outputs, S)
    BY DEF Surjection
  <2> QED
    BY <1>1, <2>1, FS_Surjection
<1>3. S \subseteq L /\ L \subseteq Requests
  BY DEF ClientTypeOK, Requests, SurfaceReq
<1>4. SetToSeq(S) \in Seq(S)
  <2> HIDE DEF S
  <2> QED BY <1>2, SetToSeqIsSeq
<1>5. SetToSeq(S) \in Seq(L) /\ SetToSeq(S) \in Seq(Requests)
  <2> HIDE DEF S, L
  <2> QED BY <1>3, <1>4, SeqMonotonic
<1>6. \A i \in 1 .. Len(SetToSeq(S)) : SetToSeq(S)[i] \in L
  BY <1>5, ElementOfSeq
<1>7. <<Req("lock")>> \in Seq(Requests)
  BY DEF Req, Requests
<1>8. /\ LockRequests \in Seq(Requests) /\ Len(LockRequests) = 1 + Len(SetToSeq(S))
      /\ \A i \in 1 .. Len(LockRequests) :
            LockRequests[i] = IF i <= 1 THEN Req("lock") ELSE SetToSeq(S)[i - 1]
  <2> DEFINE one == <<Req("lock")>>
             t == SetToSeq(S)
  <2>1. Len(one) = 1 /\ one[1] = Req("lock")
    OBVIOUS
  <2>2. LockRequests = one \o t /\ one \in Seq(Requests) /\ t \in Seq(Requests)
    BY <1>5, <1>7 DEF LockRequests
  <2> HIDE DEF one, t
  <2>3. /\ one \o t \in Seq(Requests) /\ Len(one \o t) = Len(one) + Len(t)
        /\ \A i \in 1 .. Len(one) + Len(t) : (one \o t)[i] = IF i <= Len(one) THEN one[i] ELSE t[i - Len(one)]
    BY <2>2, ConcatProperties
  <2>4. \A i \in 1 .. Len(LockRequests) : i <= 1 => i = 1
    OBVIOUS
  <2>5. \A i \in 1 .. Len(LockRequests) :
           LockRequests[i] = IF i <= 1 THEN one[1] ELSE t[i - 1]
    BY <2>1, <2>2, <2>3, <2>4
  <2> QED
    BY <2>1, <2>2, <2>3, <2>5 DEF t
<1>9. Len(SetToSeq(S)) \in Nat
  BY <1>5, LenProperties
<1> HIDE DEF S
<1>10. ASSUME NEW i \in 1 .. Len(LockRequests), i > 1
       PROVE  LockRequests[i].req = "surface"
  <2>1. i - 1 \in 1 .. Len(SetToSeq(S)) /\ LockRequests[i] = SetToSeq(S)[i - 1]
    BY <1>8, <1>9, <1>10
  <2> QED
    BY <1>6, <2>1
<1>11. LockRequests # <<>> /\ LockRequests[1].req = "lock"
  <2>1. 1 \in 1 .. Len(LockRequests)
    BY <1>8, <1>9
  <2> QED
    BY <1>8, <2>1, EmptySeq DEF Req
<1> QED
  BY <1>8, <1>10, <1>11

LEMMA HandlerRequestsTyped ==
    ASSUME NEW e \in Events
    PROVE  /\ HandlerRequests(e) \in Seq(Requests)
           /\ \A i \in 1 .. Len(HandlerRequests(e)) : HandlerRequests(e)[i].req = "surface"
<1>1. CASE e.ev = "global" /\ activeLock
  <2>1. e.output \in Outputs
    BY <1>1, KeyKindsAssumption DEF Events, KeyEvents
  <2> QED
    BY <1>1, <2>1 DEF HandlerRequests, SurfaceReq, Requests
<1>2. CASE ~(e.ev = "global" /\ activeLock)
  BY <1>2 DEF HandlerRequests
<1> QED
  BY <1>1, <1>2

LEMMA AuthenticateTyped ==
    ASSUME PamTypeOK, NEW pw \in Passwords, Authenticate(pw)
    PROVE  PamTypeOK'
<1>1. busy' \in BOOLEAN /\ passed' \in BOOLEAN
  BY Zenon DEF PamTypeOK, Authenticate
<1>2. attempts' \in Nat
  BY DEF PamTypeOK, Authenticate
<1>3. posted' \in Seq(Results)
  BY DEF PamTypeOK, Authenticate
<1>4. worker' \in {"none", "authenticating", "posted", "finished"} /\ secret' \in Passwords
  BY DEF PamTypeOK, Authenticate
<1> QED
  BY <1>1, <1>2, <1>3, <1>4 DEF PamTypeOK

LEMMA SubmitTyped ==
    ASSUME PamTypeOK, LoginTypeOK, SubmitPassword
    PROVE  PamTypeOK' /\ LoginTypeOK'
<1>1. CASE password = "" \/ busy
  BY <1>1 DEF SubmitPassword, PamTypeOK, LoginTypeOK, pamVars, loginVars
<1>2. CASE ~(password = "" \/ busy)
  <2>1. Authenticate(password) /\ password' = "" /\ status' = "authenticating" /\ handled' = handled
    BY <1>2 DEF SubmitPassword
  <2>2. PamTypeOK'
    BY <2>1, AuthenticateTyped DEF LoginTypeOK
  <2>3. LoginTypeOK'
    BY <2>1 DEF LoginTypeOK, Passwords, Statuses
  <2> QED
    BY <2>2, <2>3
<1> QED
  BY <1>1, <1>2

LEMMA OnKeyTyped ==
    ASSUME PamTypeOK, LoginTypeOK, NEW k, OnKey(k)
    PROVE  PamTypeOK' /\ LoginTypeOK'
<1>1. CASE SubmitPassword
  BY <1>1, SubmitTyped
<1>2. CASE UNCHANGED pamVars /\ (UNCHANGED loginVars \/ TypeText \/ PopBack \/ ClearPassword)
  <2>1. PamTypeOK'
    BY <1>2 DEF PamTypeOK, pamVars
  <2>2. LoginTypeOK'
    BY <1>2 DEF LoginTypeOK, loginVars, TypeText, PopBack, ClearPassword, Passwords
  <2> QED
    BY <2>1, <2>2
<1> QED
  BY <1>1, <1>2 DEF OnKey

LEMMA HandleTyped ==
    ASSUME PamTypeOK, LoginTypeOK, ClientTypeOK, running \in BOOLEAN,
           NEW e \in Events, Handle(e)
    PROVE  PamTypeOK' /\ LoginTypeOK' /\ ClientTypeOK' /\ running' \in BOOLEAN
<1>1. PamTypeOK' /\ LoginTypeOK'
  <2>1. CASE e \in KeyEvents
    BY <2>1, OnKeyTyped DEF Handle
  <2>2. CASE e \notin KeyEvents
    BY <2>2 DEF Handle, PamTypeOK, LoginTypeOK, pamVars, loginVars
  <2> QED
    BY <2>1, <2>2
<1>2. ClientTypeOK'
  <2>1. e.ev \in {"global", "remove"} => e.output \in Outputs
    BY KeyKindsAssumption DEF Events, KeyEvents
  <2> QED
    BY <2>1 DEF Handle, ClientTypeOK, clientVars, OnLocked, OnFinished, OnGlobal, OnGlobalRemove
<1>3. running' \in BOOLEAN
  BY DEF Handle
<1> QED
  BY <1>1, <1>2, <1>3

\* The invariant the other proofs rest on: types, and where the loop thread is.
Shape == TypeOK /\ LoopShape

\* A step that leaves a component's variables alone keeps the component typed.
LEMMA PamFrame == ASSUME PamTypeOK, UNCHANGED pamVars PROVE PamTypeOK'
  BY DEF PamTypeOK, pamVars
LEMMA LoginFrame == ASSUME LoginTypeOK, UNCHANGED loginVars PROVE LoginTypeOK'
  BY DEF LoginTypeOK, loginVars
LEMMA ClientFrame == ASSUME ClientTypeOK, UNCHANGED clientVars PROVE ClientTypeOK'
  BY DEF ClientTypeOK, clientVars
LEMMA WireFrame == ASSUME WireTypeOK, UNCHANGED wireVars PROVE WireTypeOK'
  BY DEF WireTypeOK, wireVars
LEMMA CompFrame == ASSUME CompTypeOK, UNCHANGED compVars PROVE CompTypeOK'
  BY DEF CompTypeOK, compVars
LEMMA LoopFrame == ASSUME LoopTypeOK, UNCHANGED loopVars PROVE LoopTypeOK'
  BY DEF LoopTypeOK, loopVars

LEMMA StartTyped ==
    ASSUME Shape, Start \/ StartFails
    PROVE  Shape'
<1>0. /\ PamTypeOK /\ LoginTypeOK /\ ClientTypeOK /\ WireTypeOK /\ CompTypeOK /\ LoopTypeOK
      /\ LoopShape
  BY DEF Shape, TypeOK, LockTypeOK
<1>1. CASE StartFails
  <2>1. PamTypeOK' /\ LoginTypeOK' /\ ClientTypeOK' /\ WireTypeOK' /\ CompTypeOK'
    BY <1>0, <1>1, PamFrame, LoginFrame, ClientFrame, WireFrame, CompFrame DEF StartFails, lockVars
  <2>2. LoopTypeOK' /\ LoopShape'
    BY <1>0, <1>1 DEF StartFails, LoopTypeOK, LoopShape
  <2> QED
    BY <2>1, <2>2 DEF Shape, TypeOK, LockTypeOK
<1>2. CASE Start
  <2>1. PamTypeOK' /\ LoginTypeOK' /\ CompTypeOK'
    BY <1>0, <1>2, PamFrame, LoginFrame, CompFrame DEF Start
  <2>2. ClientTypeOK'
    BY <1>0, <1>2 DEF Start, Lock, ClientTypeOK
  <2>3. LockRequests \in Seq(Requests)
    BY <1>0, LockRequestsTyped
  <2>4. WireTypeOK'
    BY <1>0, <1>2, <2>3 DEF Start, WireTypeOK
  <2>5. LoopTypeOK' /\ LoopShape'
    BY <1>0, <1>2 DEF Start, LoopTypeOK, LoopShape
  <2> QED
    BY <2>1, <2>2, <2>4, <2>5 DEF Shape, TypeOK, LockTypeOK
<1> QED
  BY <1>1, <1>2

\* The end of a callback, whichever way the loop goes on.
LEMMA CallbackDoneTyped ==
    ASSUME toComp \in Seq(Requests), exitCode \in {-1, 0, 1}, NEW out \in Seq(Requests),
           CallbackDone(out)
    PROVE  /\ toComp' \in Seq(Requests)
           /\ outbuf' \in Seq(Requests)
           /\ pc' \in {"wait", "teardown"}
           /\ exitCode' \in {-1, 0, 1}
<1>1. CASE running'
  <2>1. pc' = "wait" /\ toComp' = toComp \o out /\ outbuf' = <<>> /\ exitCode' = exitCode
    BY <1>1, Zenon DEF CallbackDone
  <2> QED
    BY <2>1
<1>2. CASE ~running'
  <2>1. pc' = "teardown" /\ toComp' = toComp /\ outbuf' = out /\ exitCode' = 0
    BY <1>2, Zenon DEF CallbackDone
  <2> QED
    BY <2>1
<1> QED
  BY <1>1, <1>2

LEMMA WaylandTyped ==
    ASSUME Shape, ReadEvents \/ DispatchEvent \/ LoseConnection
    PROVE  Shape'
<1>0. /\ PamTypeOK /\ LoginTypeOK /\ ClientTypeOK /\ WireTypeOK /\ CompTypeOK /\ LoopTypeOK
      /\ LoopShape
  BY DEF Shape, TypeOK, LockTypeOK
<1>1. CASE ReadEvents
  <2>1. PamTypeOK' /\ LoginTypeOK' /\ ClientTypeOK' /\ CompTypeOK'
    BY <1>0, <1>1, PamFrame, LoginFrame, ClientFrame, CompFrame DEF ReadEvents
  <2>2. WireTypeOK'
    BY <1>0, <1>1 DEF ReadEvents, WireTypeOK
  <2>3. LoopTypeOK' /\ LoopShape'
    BY <1>0, <1>1 DEF ReadEvents, LoopTypeOK, LoopShape
  <2> QED
    BY <2>1, <2>2, <2>3 DEF Shape, TypeOK, LockTypeOK
<1>2. CASE DispatchEvent
  <2> DEFINE e == Head(inq)
             out == outbuf \o HandlerRequests(e)
  <2>1. inq # <<>> /\ inq \in Seq(Events) /\ pc = "dispatch"
    BY <1>0, <1>2 DEF DispatchEvent, LoopShape, WireTypeOK
  <2>2. e \in Events /\ Tail(inq) \in Seq(Events)
    BY <2>1, HeadTailProperties
  <2>3. Handle(e)
    BY <1>2 DEF DispatchEvent
  <2>4. PamTypeOK' /\ LoginTypeOK' /\ ClientTypeOK' /\ running' \in BOOLEAN
    BY <1>0, <2>2, <2>3, HandleTyped DEF LoopTypeOK
  <2>5. CompTypeOK'
    BY <1>0, <1>2, CompFrame DEF DispatchEvent
  <2>6. HandlerRequests(e) \in Seq(Requests)
    BY <2>2, HandlerRequestsTyped
  <2>7. out \in Seq(Requests)
    BY <1>0, <2>6, ConcatProperties DEF WireTypeOK
  <2>8. inq' = Tail(inq) /\ UNCHANGED <<toClient, conn, batch, keys>>
    BY <1>2 DEF DispatchEvent
  <2>9. CASE Tail(inq) = <<>>
    <3>1. CallbackDone(out)
      BY <1>2, <2>9 DEF DispatchEvent
    <3>2. /\ toComp' \in Seq(Requests) /\ outbuf' \in Seq(Requests)
          /\ pc' \in {"wait", "teardown"} /\ exitCode' \in {-1, 0, 1}
      BY <1>0, <2>7, <3>1, CallbackDoneTyped DEF WireTypeOK, LoopTypeOK
    <3>3. WireTypeOK'
      BY <1>0, <2>2, <2>8, <3>2 DEF WireTypeOK
    <3>4. LoopTypeOK' /\ LoopShape'
      BY <1>0, <2>1, <2>4, <2>8, <3>2 DEF LoopTypeOK, LoopShape
    <3> QED
      BY <2>4, <2>5, <3>3, <3>4 DEF Shape, TypeOK, LockTypeOK
  <2>10. CASE Tail(inq) # <<>>
    <3>1. outbuf' = out /\ UNCHANGED <<pc, toComp, exitCode>>
      BY <1>2, <2>10 DEF DispatchEvent
    <3>2. WireTypeOK'
      BY <1>0, <2>2, <2>7, <2>8, <3>1 DEF WireTypeOK
    <3>3. LoopTypeOK' /\ LoopShape'
      BY <1>0, <2>1, <2>4, <2>8, <2>10, <3>1 DEF LoopTypeOK, LoopShape
    <3> QED
      BY <2>4, <2>5, <3>2, <3>3 DEF Shape, TypeOK, LockTypeOK
  <2> QED
    BY <2>9, <2>10
<1>3. CASE LoseConnection
  <2>1. PamTypeOK' /\ LoginTypeOK' /\ ClientTypeOK' /\ CompTypeOK'
    BY <1>0, <1>3, PamFrame, LoginFrame, ClientFrame, CompFrame DEF LoseConnection
  <2>2. /\ toComp' \in Seq(Requests) /\ outbuf' \in Seq(Requests)
        /\ pc' \in {"wait", "teardown"} /\ exitCode' \in {-1, 0, 1}
    BY <1>0, <1>3, CallbackDoneTyped DEF LoseConnection, WireTypeOK, LoopTypeOK
  <2>3. WireTypeOK'
    BY <1>0, <1>3, <2>2 DEF LoseConnection, WireTypeOK
  <2>4. LoopTypeOK' /\ LoopShape'
    BY <1>0, <1>3, <2>2 DEF LoseConnection, LoopTypeOK, LoopShape
  <2> QED
    BY <2>1, <2>3, <2>4 DEF Shape, TypeOK, LockTypeOK
<1> QED
  BY <1>1, <1>2, <1>3

LEMMA OnAuthResultTyped ==
    ASSUME LoginTypeOK, NEW r \in Results, OnAuthResult(r)
    PROVE  LoginTypeOK'
<1>1. handled' \in Nat
  <2>1. handled \in Nat /\ handled' = handled + 1
    BY DEF LoginTypeOK, OnAuthResult
  <2> QED
    BY <2>1
<1>2. password' \in Passwords /\ status' \in Statuses
  BY DEF LoginTypeOK, OnAuthResult, Passwords, Statuses
<1> QED
  BY <1>1, <1>2 DEF LoginTypeOK

LEMMA ReleaseRequestTyped == ReleaseRequest \in Requests /\ Req("sync") \in Requests
  BY DEF ReleaseRequest, Req, Requests

LEMMA ResultsTyped ==
    ASSUME Shape, TakePosted \/ RunResult \/ RunSuccess
    PROVE  Shape'
<1>0. /\ PamTypeOK /\ LoginTypeOK /\ ClientTypeOK /\ WireTypeOK /\ CompTypeOK /\ LoopTypeOK
      /\ LoopShape
  BY DEF Shape, TypeOK, LockTypeOK
<1>1. CASE TakePosted
  <2>1. PamTypeOK'
    BY <1>0, <1>1 DEF TakePosted, PamTypeOK
  <2>2. LoginTypeOK' /\ ClientTypeOK' /\ WireTypeOK' /\ CompTypeOK'
    BY <1>0, <1>1, LoginFrame, ClientFrame, WireFrame, CompFrame DEF TakePosted, lockVars
  <2>3. LoopTypeOK' /\ LoopShape'
    BY <1>0, <1>1 DEF TakePosted, LoopTypeOK, LoopShape, PamTypeOK
  <2> QED
    BY <2>1, <2>2, <2>3 DEF Shape, TypeOK, LockTypeOK
<1>2. ASSUME pc = "posted" PROVE Head(batch) \in Results /\ Tail(batch) \in Seq(Results)
  BY <1>0, <1>2, HeadTailProperties DEF LoopShape, LoopTypeOK
<1>3. CASE RunResult
  <2>1. pc = "posted" /\ OnAuthResult(Head(batch)) /\ batch' = Tail(batch)
    BY <1>3 DEF RunResult
  <2>2. PamTypeOK' /\ ClientTypeOK' /\ CompTypeOK'
    BY <1>0, <1>3, PamFrame, ClientFrame, CompFrame DEF RunResult
  <2>3. LoginTypeOK'
    BY <1>0, <1>2, <2>1, OnAuthResultTyped
  <2>4. running' \in BOOLEAN /\ UNCHANGED <<toClient, inq, conn, keys>>
    BY <1>3 DEF RunResult
  <2>5. /\ toComp' \in Seq(Requests) /\ outbuf' \in Seq(Requests)
        /\ exitCode' \in {-1, 0, 1}
        /\ IF Tail(batch) = <<>> THEN pc' \in {"wait", "teardown"} ELSE pc' = "posted"
    <3>1. CASE Tail(batch) = <<>>
      <4>1. CallbackDone(outbuf)
        BY <1>3, <3>1 DEF RunResult
      <4> QED
        BY <1>0, <3>1, <4>1, CallbackDoneTyped DEF WireTypeOK, LoopTypeOK
    <3>2. CASE Tail(batch) # <<>>
      BY <1>0, <1>3, <2>1, <3>2 DEF RunResult, WireTypeOK, LoopTypeOK
    <3> QED
      BY <3>1, <3>2
  <2>6. WireTypeOK'
    BY <1>0, <2>4, <2>5 DEF WireTypeOK
  <2>7. LoopTypeOK' /\ LoopShape'
    BY <1>0, <1>2, <2>1, <2>4, <2>5 DEF LoopTypeOK, LoopShape
  <2> QED
    BY <2>2, <2>3, <2>6, <2>7 DEF Shape, TypeOK, LockTypeOK
<1>4. CASE RunSuccess
  <2>1. pc = "posted" /\ OnAuthResult(Head(batch)) /\ batch' = Tail(batch)
    BY <1>4 DEF RunSuccess
  <2>2. PamTypeOK' /\ CompTypeOK'
    BY <1>0, <1>4, PamFrame, CompFrame DEF RunSuccess
  <2>3. LoginTypeOK'
    BY <1>0, <1>2, <2>1, OnAuthResultTyped
  <2>4. ClientTypeOK'
    BY <1>0, <1>4 DEF RunSuccess, Unlock, ClientTypeOK
  <2>5. toComp \o outbuf \o <<ReleaseRequest, Req("sync")>> \in Seq(Requests)
    BY <1>0, ReleaseRequestTyped DEF WireTypeOK
  <2>6. WireTypeOK'
    BY <1>0, <1>4, <2>5 DEF RunSuccess, WireTypeOK
  <2>7. LoopTypeOK' /\ LoopShape'
    BY <1>0, <1>2, <1>4, <2>1 DEF RunSuccess, LoopTypeOK, LoopShape
  <2> QED
    BY <2>2, <2>3, <2>4, <2>6, <2>7 DEF Shape, TypeOK, LockTypeOK
<1> QED
  BY <1>1, <1>3, <1>4

LEMMA RoundtripTyped ==
    ASSUME Shape, RoundtripEvent \/ RoundtripDone \/ Teardown
    PROVE  Shape'
<1>0. /\ PamTypeOK /\ LoginTypeOK /\ ClientTypeOK /\ WireTypeOK /\ CompTypeOK /\ LoopTypeOK
      /\ LoopShape
  BY DEF Shape, TypeOK, LockTypeOK
<1>1. CASE RoundtripEvent
  <2> DEFINE e == Head(toClient)
  <2>1. e \in Events /\ Tail(toClient) \in Seq(Events)
    BY <1>0, <1>1, HeadTailProperties DEF RoundtripEvent, WireTypeOK
  <2>2. Handle(e)
    BY <1>1 DEF RoundtripEvent
  <2>3. PamTypeOK' /\ LoginTypeOK' /\ ClientTypeOK' /\ running' \in BOOLEAN
    BY <1>0, <2>1, <2>2, HandleTyped DEF LoopTypeOK
  <2>4. CompTypeOK'
    BY <1>0, <1>1, CompFrame DEF RoundtripEvent
  <2>5. toComp \o HandlerRequests(e) \in Seq(Requests)
    BY <1>0, <2>1, HandlerRequestsTyped, ConcatProperties DEF WireTypeOK
  <2>6. WireTypeOK'
    BY <1>0, <1>1, <2>1, <2>5 DEF RoundtripEvent, WireTypeOK
  <2>7. LoopTypeOK' /\ LoopShape'
    BY <1>0, <1>1, <2>3 DEF RoundtripEvent, LoopTypeOK, LoopShape
  <2> QED
    BY <2>3, <2>4, <2>6, <2>7 DEF Shape, TypeOK, LockTypeOK
<1>2. CASE RoundtripDone
  <2>1. PamTypeOK' /\ LoginTypeOK' /\ ClientTypeOK' /\ CompTypeOK'
    BY <1>0, <1>2, PamFrame, LoginFrame, ClientFrame, CompFrame DEF RoundtripDone
  <2>2. toClient' \in Seq(Events)
    BY <1>0, <1>2, HeadTailProperties DEF RoundtripDone, WireTypeOK
  <2>3. /\ toComp' \in Seq(Requests) /\ outbuf' \in Seq(Requests)
        /\ exitCode' \in {-1, 0, 1}
        /\ IF batch = <<>> THEN pc' \in {"wait", "teardown"} ELSE pc' = "posted"
    <3>1. CASE batch = <<>>
      <4>1. CallbackDone(outbuf)
        BY <1>2, <3>1 DEF RoundtripDone
      <4> QED
        BY <1>0, <3>1, <4>1, CallbackDoneTyped DEF WireTypeOK, LoopTypeOK
    <3>2. CASE batch # <<>>
      BY <1>0, <1>2, <3>2 DEF RoundtripDone, WireTypeOK, LoopTypeOK
    <3> QED
      BY <3>1, <3>2
  <2>4. WireTypeOK'
    BY <1>0, <1>2, <2>2, <2>3 DEF RoundtripDone, WireTypeOK
  <2>5. LoopTypeOK' /\ LoopShape'
    BY <1>0, <1>2, <2>3 DEF RoundtripDone, LoopTypeOK, LoopShape
  <2> QED
    BY <2>1, <2>4, <2>5 DEF Shape, TypeOK, LockTypeOK
<1>3. CASE Teardown
  <2>1. PamTypeOK' /\ LoginTypeOK' /\ CompTypeOK'
    BY <1>0, <1>3, PamFrame, LoginFrame, CompFrame DEF Teardown
  <2>2. ClientTypeOK' /\ WireTypeOK'
    BY <1>0, <1>3 DEF Teardown, ClientTypeOK, WireTypeOK
  <2>3. LoopTypeOK' /\ LoopShape'
    BY <1>0, <1>3 DEF Teardown, LoopTypeOK, LoopShape
  <2> QED
    BY <2>1, <2>2, <2>3 DEF Shape, TypeOK, LockTypeOK
<1> QED
  BY <1>1, <1>2, <1>3

LEMMA WorkerTyped ==
    ASSUME Shape, Worker
    PROVE  Shape'
<1>0. /\ PamTypeOK /\ LoginTypeOK /\ ClientTypeOK /\ WireTypeOK /\ CompTypeOK /\ LoopTypeOK
      /\ LoopShape
  BY DEF Shape, TypeOK, LockTypeOK
<1>1. PamTypeOK'
  <2>1. CASE WorkerPosts
    <3>1. PICK v \in PamAnswers(secret) :
             /\ posted' = Append(posted, [id |-> attempts, verdict |-> v])
             /\ passed' = (passed \/ v = "Success")
      BY <2>1 DEF WorkerPosts
    <3>2. [id |-> attempts, verdict |-> v] \in Results
      BY <1>0 DEF PamTypeOK, PamAnswers, Verdicts, Results
    <3>3. posted' \in Seq(Results)
      BY <1>0, <3>1, <3>2, AppendProperties DEF PamTypeOK
    <3>4. passed' \in BOOLEAN
      BY <3>1, Zenon
    <3> QED
      BY <1>0, <2>1, <3>3, <3>4 DEF WorkerPosts, PamTypeOK, Passwords
  <2>2. CASE WorkerEnds
    BY <1>0, <2>2 DEF WorkerEnds, PamTypeOK
  <2> QED
    BY <2>1, <2>2 DEF Worker
<1>2. /\ LoginTypeOK' /\ ClientTypeOK' /\ WireTypeOK' /\ CompTypeOK' /\ LoopTypeOK'
      /\ LoopShape'
  BY <1>0, LoginFrame, ClientFrame, WireFrame, CompFrame, LoopFrame
     DEF Worker, lockVars, LoopShape, loopVars, wireVars
<1> QED
  BY <1>1, <1>2 DEF Shape, TypeOK, LockTypeOK

LEMMA SendTyped ==
    ASSUME ClientTypeOK, WireTypeOK, NEW e \in Events, Send(e)
    PROVE  ClientTypeOK' /\ WireTypeOK'
<1>1. toClient' \in Seq(Events)
  BY AppendProperties DEF Send, WireTypeOK
<1> QED
  BY <1>1, ClientFrame DEF Send, WireTypeOK

LEMMA EventsTyped ==
    /\ Ev("locked") \in Events /\ Ev("finished") \in Events /\ Ev("done") \in Events
    /\ KeyEvents \subseteq Events
    /\ \A o \in Outputs : /\ [ev |-> "global", output |-> o] \in Events
                           /\ [ev |-> "remove", output |-> o] \in Events
  BY DEF Ev, Events

LEMMA CompReceiveTyped ==
    ASSUME WireTypeOK, CompTypeOK, ClientTypeOK, CompReceive
    PROVE  WireTypeOK' /\ CompTypeOK' /\ ClientTypeOK'
<1> DEFINE r == Head(toComp)
<1>1. r \in Requests /\ Tail(toComp) \in Seq(Requests)
  BY HeadTailProperties DEF CompReceive, WireTypeOK
<1>2. r.req \in {"lock", "unlock", "destroy", "sync", "surface"}
  BY <1>1 DEF Requests
<1>3. ClientTypeOK'
  BY ClientFrame DEF CompReceive
<1>4. CASE Legal(r.req)
  <2>1. /\ toClient' = IF r.req = "sync" THEN Append(toClient, Ev("done")) ELSE toClient
        /\ toComp' = Tail(toComp) /\ UNCHANGED <<outbuf, inq, conn>>
    BY <1>4 DEF CompReceive
  <2>2. toClient' \in Seq(Events)
    BY <2>1, AppendProperties, EventsTyped DEF WireTypeOK
  <2>3. WireTypeOK'
    BY <1>1, <2>1, <2>2 DEF WireTypeOK
  <2>4. CompTypeOK'
    BY <1>4 DEF CompReceive, CompTypeOK
  <2> QED
    BY <1>3, <2>3, <2>4
<1>5. CASE ~Legal(r.req)
  <2>1. WireTypeOK'
    BY <1>1, <1>5 DEF CompReceive, WireTypeOK
  <2>2. protoError' \in {"", "lock", "unlock", "destroy", "surface"}
    BY <1>2, <1>5 DEF CompReceive, Legal
  <2>3. CompTypeOK'
    BY <1>5, <2>2 DEF CompReceive, CompTypeOK
  <2> QED
    BY <1>3, <2>1, <2>3
<1> QED
  BY <1>4, <1>5

LEMMA CompositorTyped ==
    ASSUME Shape, Compositor
    PROVE  Shape'
<1>0. /\ PamTypeOK /\ LoginTypeOK /\ ClientTypeOK /\ WireTypeOK /\ CompTypeOK /\ LoopTypeOK
      /\ LoopShape
  BY DEF Shape, TypeOK, LockTypeOK
<1>1. ClientTypeOK' /\ WireTypeOK' /\ CompTypeOK'
  <2>1. CASE CompReceive
    BY <1>0, <2>1, CompReceiveTyped
  <2>2. CASE CompGrant \/ CompRefuse \/ CompRevoke
    <3>1. ClientTypeOK' /\ WireTypeOK'
      BY <1>0, <2>2, SendTyped, EventsTyped DEF CompGrant, CompRefuse, CompRevoke
    <3>2. CompTypeOK'
      BY <1>0, <2>2 DEF CompGrant, CompRefuse, CompRevoke, Send, CompTypeOK
    <3> QED
      BY <3>1, <3>2
  <2>3. CASE CompCrash
    BY <1>0, <2>3, ClientFrame, CompFrame DEF CompCrash, WireTypeOK
  <2>4. CASE \E o \in Outputs : CompPlug(o) \/ CompUnplug(o)
    <3>1. PICK o \in Outputs : CompPlug(o) \/ CompUnplug(o)
      BY <2>4
    <3>2. ClientTypeOK' /\ WireTypeOK'
      BY <1>0, <3>1, SendTyped, EventsTyped DEF CompPlug, CompUnplug
    <3>3. CompTypeOK'
      BY <1>0, <3>1 DEF CompPlug, CompUnplug, Send, CompTypeOK
    <3> QED
      BY <3>2, <3>3
  <2>5. CASE CompKey
    <3>1. PICK k \in KeyEvents : Send(k)
      BY <2>5 DEF CompKey
    <3>2. ClientTypeOK' /\ WireTypeOK'
      BY <1>0, <3>1, SendTyped, EventsTyped
    <3>3. CompTypeOK'
      BY <1>0, <2>5, <3>1 DEF CompKey, Send, CompTypeOK
    <3> QED
      BY <3>2, <3>3
  <2> QED
    BY <2>1, <2>2, <2>3, <2>4, <2>5 DEF Compositor
<1>2. PamTypeOK' /\ LoginTypeOK'
  BY <1>0, PamFrame, LoginFrame DEF Compositor, CompKey
<1>3. UNCHANGED <<pc, running, batch, exitCode>>
  BY DEF Compositor, CompKey, loopVars
<1>4. keys' \in Nat
  <2>1. keys' = keys \/ keys' = keys + 1
    BY DEF Compositor, CompKey, loopVars
  <2>2. keys \in Nat
    BY <1>0 DEF LoopTypeOK
  <2> QED
    BY <2>1, <2>2
<1>5. inq' = inq
  BY DEF Compositor, CompKey, CompReceive, CompGrant, CompRefuse, CompRevoke, CompCrash,
         CompPlug, CompUnplug, Send
<1>6. LoopTypeOK' /\ LoopShape'
  BY <1>0, <1>3, <1>4, <1>5 DEF LoopTypeOK, LoopShape
<1> QED
  BY <1>1, <1>2, <1>6 DEF Shape, TypeOK, LockTypeOK

\* In every reachable state each variable has its type, and the loop thread is inside a
\* callback only with something to run.
LEMMA ShapeInit == Init => Shape
<1> SUFFICES ASSUME Init PROVE Shape
  OBVIOUS
<1>0. <<>> \in Seq(Results) /\ <<>> \in Seq(Requests) /\ <<>> \in Seq(Events)
  BY EmptySeq
<1>1. PamTypeOK /\ LoginTypeOK
  <2>1. busy \in BOOLEAN /\ passed \in BOOLEAN
    BY Zenon DEF Init, PamInit
  <2>2. posted \in Seq(Results)
    BY <1>0 DEF Init, PamInit
  <2>3. attempts \in Nat /\ handled \in Nat
    BY DEF Init, PamInit, LoginInit
  <2>4. worker = "none" /\ secret = "" /\ password = "" /\ status = "none"
    BY DEF Init, PamInit, LoginInit
  <2> QED
    BY <2>1, <2>2, <2>3, <2>4 DEF PamTypeOK, LoginTypeOK, Passwords, Statuses
<1>2. ClientTypeOK /\ CompTypeOK
  BY OutputsAssumption DEF Init, LockInit, ClientTypeOK, CompTypeOK
<1>3. WireTypeOK
  BY <1>0 DEF Init, LockInit, WireTypeOK
<1>4. LoopTypeOK /\ LoopShape
  <2>1. batch \in Seq(Results) /\ batch = <<>> /\ pc = "start"
    BY <1>0 DEF Init
  <2>2. keys \in Nat /\ exitCode \in {-1, 0, 1}
    BY DEF Init
  <2>3. running \in BOOLEAN
    BY Zenon DEF Init
  <2> QED
    BY <2>1, <2>2, <2>3 DEF LoopTypeOK, LoopShape
<1> QED
  BY <1>1, <1>2, <1>3, <1>4 DEF Shape, TypeOK, LockTypeOK

LEMMA ShapeStep == Shape /\ [Next]_vars => Shape'
<1> SUFFICES ASSUME Shape, [Next]_vars PROVE Shape'
  OBVIOUS
<1>1. CASE LoopThread
  BY <1>1, StartTyped, WaylandTyped, ResultsTyped, RoundtripTyped DEF LoopThread
<1>2. CASE Worker
  BY <1>2, WorkerTyped
<1>3. CASE Compositor
  BY <1>3, CompositorTyped
<1>4. CASE UNCHANGED vars
  <2>1. PamTypeOK' /\ LoginTypeOK' /\ ClientTypeOK' /\ WireTypeOK' /\ CompTypeOK' /\ LoopTypeOK'
    BY <1>4, PamFrame, LoginFrame, ClientFrame, WireFrame, CompFrame, LoopFrame
       DEF Shape, TypeOK, LockTypeOK, vars, lockVars
  <2>2. LoopShape'
    BY <1>4 DEF Shape, LoopShape, vars, lockVars, wireVars, loopVars
  <2> QED
    BY <2>1, <2>2 DEF Shape, TypeOK, LockTypeOK
<1> QED
  BY <1>1, <1>2, <1>3, <1>4 DEF Next, Gone

\* Every variable of the composed locker keeps its type, whatever the outputs, the number
\* of keys and of attempts.
THEOREM TypeCorrect == Spec => []TypeOK
<1>1. Spec => []Shape
  BY ShapeInit, ShapeStep, PTL DEF Spec
<1>2. Shape => TypeOK
  BY DEF Shape
<1> QED
  BY <1>1, <1>2, PTL

-----------------------------------------------------------------------------
\* The gate: no release without PAM's Success.

GateInv == Shape /\ QueueGate /\ WireGate /\ LockGate

\* Input handlers touch neither PAM's answer nor the results it has posted.
LEMMA HandleKeepsResults ==
    ASSUME NEW e, Handle(e)
    PROVE  UNCHANGED <<posted, passed>>
<1>1. CASE UNCHANGED pamVars
  BY <1>1 DEF pamVars
<1>2. CASE SubmitPassword
  BY <1>2 DEF SubmitPassword, Authenticate, pamVars
<1> QED
  BY <1>1, <1>2 DEF Handle, OnKey

\* Appending requests that release nothing keeps the gate on a channel.
LEMMA ConcatGate ==
    ASSUME NEW s \in Seq(Requests), NEW t \in Seq(Requests),
           \A i \in 1 .. Len(s) : s[i].req = "unlock" => passed,
           \A i \in 1 .. Len(t) : t[i].req # "unlock"
    PROVE  \A i \in 1 .. Len(s \o t) : (s \o t)[i].req = "unlock" => passed
<1> SUFFICES ASSUME NEW i \in 1 .. Len(s \o t), (s \o t)[i].req = "unlock"
             PROVE  passed
  OBVIOUS
<1>1. i \in 1 .. Len(s) + Len(t) /\ (s \o t)[i] = IF i <= Len(s) THEN s[i] ELSE t[i - Len(s)]
  BY ConcatProperties
<1>2. CASE i <= Len(s)
  BY <1>1, <1>2
<1>3. CASE i > Len(s)
  <2>1. i - Len(s) \in 1 .. Len(t)
    BY <1>1, <1>3, LenProperties
  <2> QED
    BY <1>1, <1>3, <2>1
<1> QED
  BY <1>1, <1>2, <1>3, LenProperties

LEMMA CallbackDoneGate ==
    ASSUME toComp \in Seq(Requests), NEW out \in Seq(Requests), WireGate, passed' = passed,
           \A i \in 1 .. Len(out) : out[i].req = "surface", CallbackDone(out)
    PROVE  WireGate'
<1>1. CASE running'
  <2>1. toComp' = toComp \o out /\ outbuf' = <<>>
    BY <1>1, Zenon DEF CallbackDone
  <2>2. \A i \in 1 .. Len(toComp') : toComp'[i].req = "unlock" => passed
    BY <2>1, ConcatProperties DEF WireGate
  <2>3. \A i \in 1 .. Len(outbuf') : outbuf'[i].req = "surface"
    BY <2>1
  <2> QED
    BY <2>2, <2>3 DEF WireGate
<1>2. CASE ~running'
  <2>1. toComp' = toComp /\ outbuf' = out
    BY <1>2, Zenon DEF CallbackDone
  <2> QED
    BY <2>1 DEF WireGate
<1> QED
  BY <1>1, <1>2

LEMMA WireGateStep ==
    ASSUME GateInv, Next
    PROVE  WireGate'
<1>0. /\ toComp \in Seq(Requests) /\ outbuf \in Seq(Requests) /\ inq \in Seq(Events)
      /\ toClient \in Seq(Events) /\ ClientTypeOK /\ LoopShape /\ WireGate /\ QueueGate
      /\ batch \in Seq(Results)
  BY DEF GateInv, Shape, TypeOK, LockTypeOK, WireTypeOK, LoopTypeOK
<1>1. ASSUME UNCHANGED <<toComp, outbuf>>, passed => passed' PROVE WireGate'
  BY <1>0, <1>1 DEF WireGate
<1>2. CASE StartFails \/ ReadEvents \/ TakePosted
  BY <1>1, <1>2 DEF StartFails, ReadEvents, TakePosted, pamVars, lockVars, wireVars
<1>3. CASE Start
  <2>1. toComp' = toComp \o LockRequests /\ outbuf' = outbuf /\ passed' = passed
    BY <1>3 DEF Start, pamVars
  <2>2. \A i \in 1 .. Len(toComp') : toComp'[i].req = "unlock" => passed
    <3>1. /\ LockRequests \in Seq(Requests)
          /\ \A i \in 1 .. Len(LockRequests) : LockRequests[i].req # "unlock"
      <4>1. LockRequests[1].req = "lock"
            /\ \A i \in 1 .. Len(LockRequests) : i > 1 => LockRequests[i].req = "surface"
        BY <1>0, LockRequestsTyped
      <4>2. \A i \in 1 .. Len(LockRequests) : i = 1 \/ i > 1
        BY <1>0, LockRequestsTyped, LenProperties
      <4> QED
        BY <1>0, <4>1, <4>2, LockRequestsTyped
    <3> QED
      BY <1>0, <2>1, <3>1, ConcatGate DEF WireGate
  <2> QED
    BY <1>0, <2>1, <2>2 DEF WireGate
<1>4. CASE DispatchEvent
  <2> DEFINE e == Head(inq)
             out == outbuf \o HandlerRequests(e)
  <2>1. e \in Events
    BY <1>0, <1>4, HeadTailProperties DEF DispatchEvent, LoopShape
  <2>2. passed' = passed
    BY <1>4, HandleKeepsResults DEF DispatchEvent
  <2>3. out \in Seq(Requests) /\ \A i \in 1 .. Len(out) : out[i].req = "surface"
    BY <1>0, <2>1, HandlerRequestsTyped, ConcatProperties DEF WireGate
  <2>4. CASE CallbackDone(out)
    BY <1>0, <2>2, <2>3, <2>4, CallbackDoneGate
  <2>5. CASE outbuf' = out /\ toComp' = toComp
    BY <1>0, <2>2, <2>3, <2>5 DEF WireGate
  <2> QED
    BY <1>4, <2>4, <2>5 DEF DispatchEvent
<1>5. CASE LoseConnection \/ RunResult \/ RoundtripDone
  <2>1. passed' = passed
    BY <1>5 DEF LoseConnection, RunResult, RoundtripDone, pamVars
  <2>2. CallbackDone(outbuf) \/ UNCHANGED <<toComp, outbuf>>
    BY <1>5 DEF LoseConnection, RunResult, RoundtripDone
  <2>3. \A i \in 1 .. Len(outbuf) : outbuf[i].req = "surface"
    BY <1>0 DEF WireGate
  <2> QED
    BY <1>0, <1>1, <2>1, <2>2, <2>3, CallbackDoneGate
<1>6. CASE RunSuccess
  <2> DEFINE tail == <<ReleaseRequest, Req("sync")>>
  <2>1. passed /\ passed' = passed
    <3>1. Head(batch).verdict = "Success" /\ batch # <<>> /\ passed' = passed
      BY <1>0, <1>6 DEF RunSuccess, LoopShape, pamVars
    <3>2. Head(batch) = batch[1] /\ 1 \in 1 .. Len(batch)
      BY <1>0, <3>1, EmptySeq
    <3> QED
      BY <1>0, <3>1, <3>2 DEF QueueGate
  <2>2. outbuf' = <<>>
    BY <1>6 DEF RunSuccess
  <2> QED
    BY <2>1, <2>2 DEF WireGate
<1>7. CASE RoundtripEvent
  <2> DEFINE e == Head(toClient)
  <2>1. e \in Events
    BY <1>0, <1>7, HeadTailProperties DEF RoundtripEvent
  <2>2. passed' = passed /\ toComp' = toComp \o HandlerRequests(e) /\ outbuf' = outbuf
    BY <1>7, HandleKeepsResults DEF RoundtripEvent
  <2>3. \A i \in 1 .. Len(toComp') : toComp'[i].req = "unlock" => passed
    <3>1. /\ HandlerRequests(e) \in Seq(Requests)
          /\ \A i \in 1 .. Len(HandlerRequests(e)) : HandlerRequests(e)[i].req # "unlock"
      BY <2>1, HandlerRequestsTyped
    <3> QED
      BY <1>0, <2>2, <3>1, ConcatGate DEF WireGate
  <2> QED
    BY <1>0, <2>2, <2>3 DEF WireGate
<1>8. CASE Teardown
  BY <1>0, <1>8 DEF Teardown, WireGate, pamVars
<1>9. CASE Worker
  <2>1. passed => passed'
    BY <1>9 DEF Worker, WorkerPosts, WorkerEnds
  <2> QED
    BY <1>1, <1>9, <2>1 DEF Worker, lockVars, wireVars
<1>10. CASE Compositor
  <2>1. passed' = passed /\ outbuf' = outbuf
    BY <1>10 DEF Compositor, CompKey, CompReceive, CompGrant, CompRefuse, CompRevoke, CompCrash,
                 CompPlug, CompUnplug, Send, pamVars
  <2>2. CASE toComp' = toComp
    BY <1>1, <2>1, <2>2
  <2>3. CASE CompReceive
    <3>1. toComp # <<>> /\ toComp' = Tail(toComp)
      BY <2>3 DEF CompReceive
    <3>2. \A i \in 1 .. Len(toComp') : i + 1 \in 1 .. Len(toComp) /\ toComp'[i] = toComp[i + 1]
      BY <1>0, <3>1, HeadTailProperties
    <3> QED
      BY <1>0, <2>1, <3>2 DEF WireGate
  <2> QED
    BY <1>10, <2>2, <2>3 DEF Compositor, CompKey, CompGrant, CompRefuse, CompRevoke, CompCrash,
                             CompPlug, CompUnplug, Send
<1>11. CASE Gone
  BY <1>1, <1>11 DEF Gone, vars, pamVars, lockVars, wireVars
<1> QED
  BY <1>2, <1>3, <1>4, <1>5, <1>6, <1>7, <1>8, <1>9, <1>10, <1>11 DEF Next, LoopThread

\* Which steps touch the queues of results.
LEMMA QueuesFrame ==
    ASSUME Next
    PROVE  TakePosted \/ RunResult \/ RunSuccess \/ Worker \/ UNCHANGED <<posted, batch, passed>>
<1>1. CASE StartFails \/ Start \/ ReadEvents \/ LoseConnection \/ RoundtripDone \/ Teardown
  BY <1>1 DEF StartFails, Start, ReadEvents, LoseConnection, RoundtripDone, Teardown, pamVars
<1>2. CASE DispatchEvent \/ RoundtripEvent
  BY <1>2, HandleKeepsResults DEF DispatchEvent, RoundtripEvent
<1>3. CASE Compositor \/ Gone
  BY <1>3 DEF Compositor, CompKey, Gone, vars, pamVars, loopVars
<1> QED
  BY <1>1, <1>2, <1>3 DEF Next, LoopThread

LEMMA QueueGateStep ==
    ASSUME GateInv, Next
    PROVE  QueueGate'
<1>0. /\ posted \in Seq(Results) /\ batch \in Seq(Results) /\ QueueGate /\ LoopShape
      /\ attempts \in Nat /\ secret \in Passwords
  BY DEF GateInv, Shape, TypeOK, PamTypeOK, LoopTypeOK
<1>1. CASE UNCHANGED <<posted, batch, passed>>
  BY <1>0, <1>1 DEF QueueGate
<1>2. CASE TakePosted
  BY <1>0, <1>2 DEF TakePosted, QueueGate
<1>3. CASE RunResult \/ RunSuccess
  <2>1. batch # <<>> /\ batch' = Tail(batch) /\ UNCHANGED <<posted, passed>>
    BY <1>0, <1>3 DEF RunResult, RunSuccess, LoopShape, pamVars
  <2>2. \A i \in 1 .. Len(batch') : i + 1 \in 1 .. Len(batch) /\ batch'[i] = batch[i + 1]
    BY <1>0, <2>1, HeadTailProperties
  <2> QED
    BY <1>0, <2>1, <2>2 DEF QueueGate
<1>4. CASE Worker
  <2>1. batch' = batch
    BY <1>4 DEF Worker, loopVars
  <2>2. CASE WorkerPosts
    <3>1. PICK v \in PamAnswers(secret) :
             /\ posted' = Append(posted, [id |-> attempts, verdict |-> v])
             /\ passed' = (passed \/ v = "Success")
      BY <2>2 DEF WorkerPosts
    <3>2. [id |-> attempts, verdict |-> v] \in Results
      BY <1>0 DEF PamAnswers, Verdicts, Results
    <3>3. \A i \in 1 .. Len(posted') :
             \/ i \in 1 .. Len(posted) /\ posted'[i] = posted[i]
             \/ posted'[i] = [id |-> attempts, verdict |-> v]
      BY <1>0, <3>1, <3>2, AppendProperties
    <3>4. (passed => passed') /\ (v = "Success" => passed')
      BY <3>1
    <3> QED
      BY <1>0, <2>1, <3>3, <3>4 DEF QueueGate
  <2>3. CASE WorkerEnds
    BY <1>0, <2>1, <2>3 DEF WorkerEnds, QueueGate
  <2> QED
    BY <1>4, <2>2, <2>3 DEF Worker
<1> QED
  BY <1>1, <1>2, <1>3, <1>4, QueuesFrame

\* Only the compositor moves the lock object and the session.
LEMMA CompVarsFrame ==
    ASSUME Next
    PROVE  Compositor \/ UNCHANGED compVars
  BY DEF Next, LoopThread, Worker, Gone, StartFails, Start, ReadEvents, DispatchEvent, LoseConnection,
         TakePosted, RunResult, RunSuccess, RoundtripEvent, RoundtripDone, Teardown, vars, lockVars

\* A compositor step seen through the gate: nothing, Grant, Revoke or Release.
LEMMA CompositorGate ==
    ASSUME GateInv, Compositor
    PROVE  /\ LockGate'
           /\ \/ UNCHANGED <<session, passed, revoked>>
              \/ Gate!Grant
              \/ Gate!Revoke
              \/ Gate!Release
<1>0. LockGate /\ WireGate /\ toComp \in Seq(Requests) /\ CompTypeOK
  BY DEF GateInv, Shape, TypeOK, LockTypeOK, WireTypeOK
<1>1. passed' = passed
  BY DEF Compositor, CompKey, pamVars
<1>2. CASE CompReceive
  <2> DEFINE r == Head(toComp)
  <2>1. toComp # <<>> /\ r \in Requests /\ r = toComp[1] /\ 1 \in 1 .. Len(toComp)
    BY <1>0, <1>2, HeadTailProperties, EmptySeq DEF CompReceive
  <2>2. revoked' = revoked
    BY <1>2 DEF CompReceive
  <2>3. CASE Legal(r.req) /\ r.req = "unlock"
    <3>1. grant \in {"locked", "revoked"} /\ grant' = "gone" /\ session' = "released"
      BY <1>2, <2>3 DEF CompReceive, Legal
    <3>2. passed
      BY <1>0, <2>1, <2>3 DEF WireGate
    <3>3. session \in {"locked", "released"}
      BY <1>0, <3>1 DEF LockGate
    <3> QED
      BY <1>1, <2>2, <3>1, <3>2, <3>3 DEF LockGate, Gate!Release
  <2>4. CASE Legal(r.req) /\ r.req # "unlock"
    <3>1. session' = session
      BY <1>2, <2>4 DEF CompReceive
    <3>2. \/ r.req = "lock" /\ grant = "none" /\ grant' = "pending"
          \/ r.req = "destroy" /\ grant' = "gone"
          \/ r.req \in {"surface", "sync"} /\ grant' = grant
      BY <1>2, <2>4 DEF CompReceive, Legal
    <3> QED
      BY <1>0, <1>1, <2>2, <3>1, <3>2 DEF LockGate
  <2>5. CASE ~Legal(r.req)
    BY <1>0, <1>1, <1>2, <2>2, <2>5 DEF CompReceive, LockGate
  <2> QED
    BY <2>3, <2>4, <2>5
<1>3. CASE CompGrant
  BY <1>0, <1>1, <1>3 DEF CompGrant, LockGate, Gate!Grant
<1>4. CASE CompRevoke
  BY <1>0, <1>1, <1>4 DEF CompRevoke, LockGate, Gate!Revoke
<1>5. CASE CompRefuse
  BY <1>0, <1>1, <1>5 DEF CompRefuse, LockGate
<1>6. CASE CompCrash \/ CompKey \/ \E o \in Outputs : CompPlug(o) \/ CompUnplug(o)
  <2>1. UNCHANGED <<grant, session, revoked>>
    BY <1>6 DEF CompCrash, CompKey, CompPlug, CompUnplug, compVars
  <2> QED
    BY <1>0, <1>1, <2>1 DEF LockGate
<1> QED
  BY <1>2, <1>3, <1>4, <1>5, <1>6 DEF Compositor

LEMMA GateStep == GateInv /\ [Next]_vars => GateInv' /\ [Gate!Next]_Gate!gateVars
<1> SUFFICES ASSUME GateInv, [Next]_vars PROVE GateInv' /\ [Gate!Next]_Gate!gateVars
  OBVIOUS
<1>1. Shape'
  BY ShapeStep DEF GateInv
<1>2. CASE Next
  <2>1. QueueGate' /\ WireGate'
    BY <1>2, QueueGateStep, WireGateStep
  <2>2. CASE Compositor
    BY <1>1, <2>1, <2>2, CompositorGate DEF GateInv, Gate!Next, Gate!gateVars
  <2>3. CASE UNCHANGED compVars
    <3>1. LockGate' /\ UNCHANGED <<session, revoked>>
      BY <2>3 DEF GateInv, LockGate, compVars
    <3>2. passed' = passed \/ passed' = TRUE
      <4>1. CASE WorkerPosts
        <5>1. PICK v \in PamAnswers(secret) : passed' = (passed \/ v = "Success")
          BY <4>1 DEF WorkerPosts
        <5>2. passed \in BOOLEAN
          BY DEF GateInv, Shape, TypeOK, PamTypeOK
        <5> QED
          BY <5>1, <5>2, Zenon
      <4>2. CASE ~WorkerPosts
        BY <1>2, <4>2, QueuesFrame DEF TakePosted, RunResult, RunSuccess, Worker, WorkerEnds, pamVars
      <4> QED
        BY <4>1, <4>2
    <3> QED
      BY <1>1, <2>1, <3>1, <3>2 DEF GateInv, Gate!Next, Gate!Pass, Gate!gateVars
  <2> QED
    BY <1>2, <2>2, <2>3, CompVarsFrame
<1>3. CASE UNCHANGED vars
  <2>1. QueueGate' /\ WireGate' /\ LockGate'
    BY <1>3 DEF GateInv, QueueGate, WireGate, LockGate, vars, pamVars, lockVars, wireVars, compVars,
                loopVars
  <2> QED
    BY <1>1, <1>3, <2>1 DEF GateInv, Gate!gateVars, vars, pamVars, lockVars, compVars
<1> QED
  BY <1>2, <1>3

LEMMA GateInit == Init => GateInv
<1> SUFFICES ASSUME Init PROVE GateInv
  OBVIOUS
<1>1. /\ posted = <<>> /\ batch = <<>> /\ toComp = <<>> /\ outbuf = <<>>
      /\ grant = "none" /\ session = "open"
  BY DEF Init, PamInit, LockInit
<1>2. QueueGate /\ WireGate /\ LockGate
  BY <1>1 DEF QueueGate, WireGate, LockGate
<1> QED
  BY <1>2, ShapeInit DEF GateInv

\* The locker implements the gate: the session, once locked, opens only after PAM has
\* accepted a password or because the compositor took the lock back.
THEOREM GateCorrect == Spec => GateHolds
<1>1. Init => GateInv /\ Gate!Init
  BY GateInit DEF Init, PamInit, LockInit, Gate!Init
<1> QED
  BY <1>1, GateStep, PTL DEF Spec, GateHolds, Gate!Spec

-----------------------------------------------------------------------------
\* Results: none lost, none delivered twice, none out of order.

resultVars == <<batch, posted, handled, attempts, worker>>

\* An input handler leaves the results alone, or begins one attempt with no worker at work.
LEMMA HandleAttempts ==
    ASSUME NEW e, Handle(e)
    PROVE  /\ UNCHANGED <<posted, handled>>
           /\ \/ UNCHANGED <<attempts, worker>>
              \/ /\ worker # "authenticating" /\ worker' = "authenticating"
                 /\ attempts' = attempts + 1
<1>1. CASE UNCHANGED <<pamVars, loginVars>>
  BY <1>1 DEF pamVars, loginVars
<1>2. CASE UNCHANGED pamVars /\ (TypeText \/ PopBack \/ ClearPassword)
  BY <1>2 DEF pamVars, TypeText, PopBack, ClearPassword
<1>3. CASE SubmitPassword
  BY <1>3 DEF SubmitPassword, Authenticate, Joined, pamVars, loginVars
<1> QED
  BY <1>1, <1>2, <1>3 DEF Handle, OnKey

LEMMA ResultVarsFrame ==
    ASSUME Next
    PROVE  \/ DispatchEvent \/ RoundtripEvent \/ TakePosted \/ RunResult \/ RunSuccess
           \/ Worker \/ UNCHANGED resultVars
  BY DEF Next, LoopThread, Compositor, CompKey, Gone, StartFails, Start, ReadEvents, LoseConnection,
         RoundtripDone, Teardown, vars, pamVars, loginVars, loopVars, resultVars

LEMMA ConservedStep == Shape /\ ResultsConserved /\ [Next]_vars => ResultsConserved'
<1> SUFFICES ASSUME Shape, ResultsConserved, [Next]_vars PROVE ResultsConserved'
  OBVIOUS
<1>0. /\ posted \in Seq(Results) /\ batch \in Seq(Results) /\ handled \in Nat /\ attempts \in Nat
      /\ LoopShape
  BY DEF Shape, TypeOK, PamTypeOK, LoginTypeOK, LoopTypeOK
<1>1. Len(posted) \in Nat /\ Len(batch) \in Nat
  BY <1>0, LenProperties
<1>2. /\ Pending \in Seq(Results) /\ Len(Pending) = Len(batch) + Len(posted)
      /\ \A i \in 1 .. Len(Pending) :
            Pending[i] = IF i <= Len(batch) THEN batch[i] ELSE posted[i - Len(batch)]
  BY <1>0, ConcatProperties DEF Pending
<1>3. CASE UNCHANGED resultVars
  BY <1>3 DEF resultVars, ResultsConserved, Pending
<1>4. CASE DispatchEvent \/ RoundtripEvent
  <2>1. /\ UNCHANGED <<posted, handled, batch>>
        /\ \/ UNCHANGED <<attempts, worker>>
           \/ /\ worker # "authenticating" /\ worker' = "authenticating"
              /\ attempts' = attempts + 1
    BY <1>4, HandleAttempts DEF DispatchEvent, RoundtripEvent
  <2>2. Pending' = Pending
    BY <2>1 DEF Pending
  <2>3. CASE UNCHANGED <<attempts, worker>>
    BY <2>1, <2>2, <2>3 DEF ResultsConserved
  <2>4. CASE worker # "authenticating" /\ worker' = "authenticating" /\ attempts' = attempts + 1
    <3>1. attempts = handled + Len(Pending)
      BY <1>0, <1>1, <1>2, <2>4 DEF ResultsConserved
    <3> QED
      BY <1>0, <1>1, <1>2, <2>1, <2>2, <2>4, <3>1 DEF ResultsConserved
  <2> QED
    BY <2>1, <2>3, <2>4
<1>5. CASE TakePosted
  <2>1. batch = <<>> /\ batch' = posted /\ posted' = <<>> /\ UNCHANGED <<handled, attempts, worker>>
    BY <1>0, <1>5 DEF TakePosted, LoopShape, loginVars
  <2>2. Pending' = Pending
    BY <1>0, <2>1, ConcatEmptySeq DEF Pending
  <2> QED
    BY <2>1, <2>2 DEF ResultsConserved
<1>6. CASE RunResult \/ RunSuccess
  <2>1. /\ batch # <<>> /\ batch' = Tail(batch) /\ handled' = handled + 1
        /\ UNCHANGED <<posted, attempts, worker>>
    BY <1>0, <1>6 DEF RunResult, RunSuccess, OnAuthResult, LoopShape, pamVars
  <2>2. /\ batch' \in Seq(Results) /\ Len(batch') = Len(batch) - 1
        /\ \A i \in 1 .. Len(batch') : batch'[i] = batch[i + 1]
    BY <1>0, <2>1, HeadTailProperties
  <2>3. /\ Len(Pending') = Len(batch') + Len(posted)
        /\ \A i \in 1 .. Len(Pending') :
              Pending'[i] = IF i <= Len(batch') THEN batch'[i] ELSE posted[i - Len(batch')]
    BY <1>0, <2>1, <2>2, ConcatProperties DEF Pending
  <2>4. Len(Pending') = Len(Pending) - 1
    BY <1>1, <1>2, <2>2, <2>3
  <2>5. \A i \in 1 .. Len(Pending') : Pending'[i] = Pending[i + 1]
    BY <1>1, <1>2, <2>2, <2>3, <2>4
  <2>6. \A i \in 1 .. Len(Pending') : Pending'[i].id = handled' + i
    <3>1. \A i \in 1 .. Len(Pending) : Pending[i].id = handled + i
      BY DEF ResultsConserved
    <3> QED
      BY <1>0, <1>1, <1>2, <2>1, <2>4, <2>5, <3>1
  <2>7. attempts' = handled' + Len(Pending') + (IF worker' = "authenticating" THEN 1 ELSE 0)
    <3>1. attempts = handled + Len(Pending) + (IF worker = "authenticating" THEN 1 ELSE 0)
      BY DEF ResultsConserved
    <3> QED
      BY <1>0, <1>1, <1>2, <2>1, <2>4, <3>1
  <2> QED
    BY <2>6, <2>7 DEF ResultsConserved
<1>7. CASE Worker
  <2>1. UNCHANGED <<batch, handled>>
    BY <1>7 DEF Worker, loginVars, loopVars
  <2>2. CASE WorkerEnds
    BY <2>1, <2>2 DEF WorkerEnds, ResultsConserved, Pending
  <2>3. CASE WorkerPosts
    <3>1. PICK v \in PamAnswers(secret) :
             posted' = Append(posted, [id |-> attempts, verdict |-> v])
      BY <2>3 DEF WorkerPosts
    <3> DEFINE r == [id |-> attempts, verdict |-> v]
    <3>2. worker = "authenticating" /\ worker' = "posted" /\ attempts' = attempts
      BY <2>3 DEF WorkerPosts
    <3>3. r \in Results
      BY <1>0 DEF PamAnswers, Verdicts, Results
    <3>4. /\ posted' \in Seq(Results) /\ Len(posted') = Len(posted) + 1
          /\ \A i \in 1 .. Len(posted) : posted'[i] = posted[i]
          /\ posted'[Len(posted) + 1].id = attempts
      BY <1>0, <3>1, <3>3, AppendProperties
    <3>5. /\ Len(Pending') = Len(batch) + Len(posted')
          /\ \A i \in 1 .. Len(Pending') :
                Pending'[i] = IF i <= Len(batch) THEN batch[i] ELSE posted'[i - Len(batch)]
      <4>1. Pending' = batch \o posted'
        BY <2>1 DEF Pending
      <4>2. batch \in Seq(Results) /\ posted' \in Seq(Results)
        BY <1>0, <3>4
      <4> HIDE DEF r
      <4> QED
        BY <4>1, <4>2, ConcatProperties
    <3>6. Len(Pending') = Len(Pending) + 1
      BY <1>1, <1>2, <3>4, <3>5
    <3>7. attempts = handled + Len(Pending) + 1
      BY <3>2 DEF ResultsConserved
    <3>8. ASSUME NEW i \in 1 .. Len(Pending') PROVE Pending'[i].id = handled + i
      <4>1. CASE i <= Len(Pending)
        <5>1. i \in 1 .. Len(Pending) /\ Pending'[i] = Pending[i]
          <6>1. i \in 1 .. Len(Pending)
            BY <1>1, <1>2, <3>6, <4>1
          <6>2. CASE i <= Len(batch)
            BY <1>2, <3>5, <6>1, <6>2
          <6>3. CASE ~(i <= Len(batch))
            <7>1. i - Len(batch) \in 1 .. Len(posted)
              BY <1>1, <1>2, <6>1, <6>3
            <7> QED
              BY <1>2, <3>4, <3>5, <6>1, <6>3, <7>1
          <6> QED
            BY <6>1, <6>2, <6>3
        <5> QED
          BY <5>1 DEF ResultsConserved
      <4>2. CASE i = Len(Pending) + 1
        <5>1. Pending'[i] = posted'[Len(posted) + 1]
          BY <1>1, <1>2, <3>4, <3>5, <4>2
        <5> QED
          BY <1>0, <1>1, <1>2, <3>4, <3>7, <4>2, <5>1
      <4> QED
        BY <1>1, <1>2, <3>6, <4>1, <4>2
    <3>9. attempts' = handled' + Len(Pending')
      BY <1>0, <1>1, <1>2, <2>1, <3>2, <3>6, <3>7
    <3>10. \A i \in 1 .. Len(Pending') : Pending'[i].id = handled' + i
      BY <2>1, <3>8
    <3>11. attempts' = handled' + Len(Pending')
                          + (IF worker' = "authenticating" THEN 1 ELSE 0)
      <4>1. handled' + Len(Pending') \in Nat
        BY <1>0, <1>1, <1>2, <2>1, <3>6
      <4> QED
        BY <3>2, <3>9, <4>1
    <3> QED
      BY <3>10, <3>11 DEF ResultsConserved
  <2> QED
    BY <1>7, <2>2, <2>3 DEF Worker
<1> QED
  BY <1>3, <1>4, <1>5, <1>6, <1>7, ResultVarsFrame DEF vars, pamVars, loginVars, loopVars, resultVars

\* Every attempt's result reaches onAuthResult at most once and in order, and what has
\* begun is handled, queued or running, for any number of attempts.
THEOREM ResultsCorrect == Spec => []ResultsConserved
<1>1. Init => ResultsConserved
  <2> SUFFICES ASSUME Init PROVE ResultsConserved
    OBVIOUS
  <2>1. batch = <<>> /\ posted = <<>> /\ handled = 0 /\ attempts = 0 /\ worker = "none"
    BY Zenon DEF Init, PamInit, LoginInit
  <2>2. <<>> \in Seq(Results)
    BY EmptySeq
  <2>3. Pending = <<>>
    BY <2>1, <2>2, ConcatEmptySeq DEF Pending
  <2>4. Len(Pending) = 0
    BY <2>3, <2>2, EmptySeq
  <2> QED
    BY <2>1, <2>4 DEF ResultsConserved
<1> QED
  BY <1>1, ShapeInit, ShapeStep, ConservedStep, PTL DEF Spec

-----------------------------------------------------------------------------
\* The status line.

LEMMA StatusStep ==
    ASSUME Shape, ResultsConserved, StatusHonest, Next
    PROVE  StatusHonest'
<1>0. /\ posted \in Seq(Results) /\ batch \in Seq(Results) /\ handled \in Nat /\ attempts \in Nat
      /\ attempts >= handled
  <2>1. posted \in Seq(Results) /\ batch \in Seq(Results) /\ handled \in Nat /\ attempts \in Nat
    BY DEF Shape, TypeOK, PamTypeOK, LoginTypeOK, LoopTypeOK
  <2>2. Len(Pending) \in Nat
    BY <2>1, ConcatProperties, LenProperties DEF Pending
  <2> QED
    BY <2>1, <2>2 DEF ResultsConserved
<1>1. CASE UNCHANGED <<status, handled, attempts>>
  BY <1>1 DEF StatusHonest
<1>2. CASE DispatchEvent \/ RoundtripEvent
  <2>1. PICK e : Handle(e)
    BY <1>2 DEF DispatchEvent, RoundtripEvent
  <2>2. CASE UNCHANGED <<status, handled, attempts>>
    BY <1>1, <2>2
  <2>3. CASE attempts' = attempts + 1 /\ handled' = handled
    BY <1>0, <2>3 DEF StatusHonest
  <2> QED
    BY <2>1, <2>2, <2>3 DEF Handle, OnKey, TypeText, PopBack, ClearPassword, SubmitPassword,
                            Authenticate, pamVars, loginVars
<1>3. CASE RunResult \/ RunSuccess
  <2>1. OnAuthResult(Head(batch))
    BY <1>3 DEF RunResult, RunSuccess
  <2> QED
    BY <2>1 DEF OnAuthResult, StatusHonest
<1>4. CASE Worker \/ TakePosted
  BY <1>1, <1>4 DEF Worker, WorkerPosts, WorkerEnds, TakePosted, loginVars
<1>5. CASE Compositor \/ Gone
  BY <1>1, <1>5 DEF Compositor, CompKey, Gone, vars, pamVars, loginVars
<1>6. CASE StartFails \/ Start \/ ReadEvents \/ LoseConnection \/ RoundtripDone \/ Teardown
  BY <1>1, <1>6 DEF StartFails, Start, ReadEvents, LoseConnection, RoundtripDone, Teardown,
                    pamVars, loginVars
<1> QED
  BY <1>2, <1>3, <1>4, <1>5, <1>6 DEF Next, LoopThread

\* "Authenticating..." is shown only while an attempt is outstanding, for any number of
\* attempts: a password submitted while busy_ is still set changes nothing.
THEOREM StatusCorrect == Spec => []StatusHonest
<1>1. Init => StatusHonest
  BY DEF Init, LoginInit, StatusHonest
<1>2. Shape /\ ResultsConserved /\ StatusHonest /\ [Next]_vars => StatusHonest'
  <2>1. StatusHonest /\ UNCHANGED vars => StatusHonest'
    BY DEF StatusHonest, vars, pamVars, loginVars
  <2> QED
    BY <2>1, StatusStep
<1>3. Spec => []Shape
  BY ShapeInit, ShapeStep, PTL DEF Spec
<1> QED
  BY <1>1, <1>2, <1>3, ResultsCorrect, PTL DEF Spec

-----------------------------------------------------------------------------
\* The order of the requests.

OrderInv == GateInv /\ WireOrder /\ ClientKnows /\ GrantTold

LEMMA WireTyped ==
    ASSUME WireTypeOK
    PROVE  /\ toComp \in Seq(Requests) /\ outbuf \in Seq(Requests) /\ Wire \in Seq(Requests)
           /\ Len(Wire) \in Nat
           /\ Len(Wire) = Len(toComp) + Len(outbuf)
           /\ \A i \in 1 .. Len(Wire) :
                 Wire[i] = IF i <= Len(toComp) THEN toComp[i] ELSE outbuf[i - Len(toComp)]
BY ConcatProperties, LenProperties DEF WireTypeOK, Wire

LEMMA TailOfConcat ==
    ASSUME NEW S, NEW s \in Seq(S), NEW t \in Seq(S), s # <<>>
    PROVE  Tail(s \o t) = Tail(s) \o t
<1>1. /\ Tail(s) \in Seq(S) /\ Len(Tail(s)) = Len(s) - 1
      /\ \A i \in 1 .. Len(Tail(s)) : Tail(s)[i] = s[i + 1]
  BY HeadTailProperties
<1>2. /\ s \o t \in Seq(S) /\ Len(s \o t) = Len(s) + Len(t)
      /\ \A i \in 1 .. Len(s) + Len(t) : (s \o t)[i] = IF i <= Len(s) THEN s[i] ELSE t[i - Len(s)]
  BY ConcatProperties
<1>3. Len(s) \in Nat \ {0} /\ Len(t) \in Nat
  BY EmptySeq, LenProperties
<1>4. s \o t # <<>>
  BY <1>2, <1>3, EmptySeq
<1>5. /\ Tail(s \o t) \in Seq(S) /\ Len(Tail(s \o t)) = Len(s) + Len(t) - 1
      /\ \A i \in 1 .. Len(s) + Len(t) - 1 : Tail(s \o t)[i] = (s \o t)[i + 1]
  BY <1>2, <1>4, HeadTailProperties
<1>6. /\ Tail(s) \o t \in Seq(S) /\ Len(Tail(s) \o t) = Len(s) - 1 + Len(t)
      /\ \A i \in 1 .. Len(s) - 1 + Len(t) :
            (Tail(s) \o t)[i] = IF i <= Len(s) - 1 THEN Tail(s)[i] ELSE t[i - (Len(s) - 1)]
  BY <1>1, ConcatProperties
<1>7. Len(Tail(s \o t)) = Len(Tail(s) \o t)
  BY <1>3, <1>5, <1>6
<1>8. ASSUME NEW i \in 1 .. Len(s) + Len(t) - 1
      PROVE  Tail(s \o t)[i] = (Tail(s) \o t)[i]
  <2>1. i + 1 \in 1 .. Len(s) + Len(t) /\ i \in 1 .. Len(s) - 1 + Len(t)
    BY <1>3
  <2>2. Tail(s \o t)[i] = IF i + 1 <= Len(s) THEN s[i + 1] ELSE t[i + 1 - Len(s)]
    BY <1>2, <1>5, <2>1
  <2>3. CASE i <= Len(s) - 1
    BY <1>1, <1>3, <1>6, <2>1, <2>2, <2>3
  <2>4. CASE ~(i <= Len(s) - 1)
    <3>1. i + 1 - Len(s) = i - (Len(s) - 1) /\ ~(i + 1 <= Len(s))
      BY <1>3, <2>4
    <3> QED
      BY <1>6, <2>1, <2>2, <2>4, <3>1
  <2> QED
    BY <2>3, <2>4
<1> QED
  BY <1>3, <1>5, <1>6, <1>7, <1>8, SeqEqual

LEMMA CallbackDoneWire ==
    ASSUME toComp \in Seq(Requests), NEW out \in Seq(Requests), CallbackDone(out)
    PROVE  Wire' = toComp \o out
<1>1. CASE running'
  <2>1. toComp' = toComp \o out /\ outbuf' = <<>>
    BY <1>1, Zenon DEF CallbackDone
  <2>2. toComp \o out \in Seq(Requests)
    BY ConcatProperties
  <2> QED
    BY <2>1, <2>2, ConcatEmptySeq DEF Wire
<1>2. CASE ~running'
  <2>1. toComp' = toComp /\ outbuf' = out
    BY <1>2, Zenon DEF CallbackDone
  <2> QED
    BY <2>1 DEF Wire
<1> QED
  BY <1>1, <1>2

\* The steps that add no request and take none.
OtherLoopStep == \/ StartFails \/ ReadEvents \/ LoseConnection \/ TakePosted \/ RunResult
                 \/ RoundtripEvent \/ RoundtripDone
OtherCompositor == \/ CompGrant \/ CompRefuse \/ CompRevoke \/ CompCrash \/ CompKey
                   \/ \E o \in Outputs : CompPlug(o) \/ CompUnplug(o)

\* What each step does to the requests on their way.
LEMMA WireSteps ==
    ASSUME OrderInv, Next
    PROVE  \/ Start /\ Wire' = LockRequests
           \/ DispatchEvent /\ Wire' = Wire \o HandlerRequests(Head(inq))
           \/ RunSuccess /\ Wire' = Wire \o <<ReleaseRequest, Req("sync")>>
           \/ Teardown /\ Wire' = toComp
           \/ /\ CompReceive /\ pc' = pc
              /\ Wire # <<>> /\ Head(toComp) = Wire[1] /\ Wire' = Tail(Wire)
           \/ (OtherLoopStep \/ Worker \/ Gone) /\ Wire' = Wire
           \/ OtherCompositor /\ pc' = pc /\ Wire' = Wire
<1>0. /\ WireTypeOK /\ toComp \in Seq(Requests) /\ outbuf \in Seq(Requests)
      /\ inq \in Seq(Events) /\ LoopShape /\ ClientTypeOK /\ ClientKnows
  BY DEF OrderInv, GateInv, Shape, TypeOK, LockTypeOK, WireTypeOK
<1>1. CASE Start
  <2>1. toComp' = toComp \o LockRequests /\ outbuf' = outbuf /\ pc = "start"
    BY <1>1 DEF Start
  <2>2. toComp \o outbuf = <<>>
    BY <1>0, <2>1 DEF ClientKnows, Wire
  <2>3. toComp = <<>> /\ outbuf = <<>>
    <3>1. Len(toComp) + Len(outbuf) = 0 /\ Len(toComp) \in Nat /\ Len(outbuf) \in Nat
      BY <1>0, <2>2, ConcatProperties, EmptySeq, LenProperties
    <3> QED
      BY <1>0, <3>1, EmptySeq
  <2>4. LockRequests \in Seq(Requests)
    BY <1>0, LockRequestsTyped
  <2> QED
    BY <1>1, <2>1, <2>3, <2>4, ConcatEmptySeq DEF Wire
<1>2. CASE DispatchEvent
  <2> DEFINE out == outbuf \o HandlerRequests(Head(inq))
  <2>1. HandlerRequests(Head(inq)) \in Seq(Requests)
    BY <1>0, <1>2, HeadTailProperties, HandlerRequestsTyped DEF DispatchEvent, LoopShape
  <2>2. out \in Seq(Requests)
    BY <1>0, <2>1, ConcatProperties
  <2>3. toComp \o out = Wire \o HandlerRequests(Head(inq))
    <3>1. PICK s \in Seq(Requests), t \in Seq(Requests), u \in Seq(Requests) :
              s = toComp /\ t = outbuf /\ u = HandlerRequests(Head(inq))
      BY <1>0, <2>1
    <3>2. (s \o t) \o u = s \o (t \o u)
      BY ConcatAssociative
    <3> QED
      BY <3>1, <3>2 DEF Wire
  <2>4. CASE CallbackDone(out)
    BY <1>0, <1>2, <2>2, <2>3, <2>4, CallbackDoneWire
  <2>5. CASE outbuf' = out /\ toComp' = toComp
    BY <1>2, <2>3, <2>5 DEF Wire
  <2> QED
    BY <1>2, <2>4, <2>5 DEF DispatchEvent
<1>3. CASE RunSuccess
  <2> DEFINE t == <<ReleaseRequest, Req("sync")>>
  <2>1. t \in Seq(Requests)
    BY ReleaseRequestTyped
  <2>2. toComp' = Wire \o t /\ outbuf' = <<>>
    BY <1>3 DEF RunSuccess, Wire
  <2>3. Wire \o t \in Seq(Requests)
    <3> HIDE DEF t
    <3> QED BY <1>0, <2>1, WireTyped, ConcatProperties
  <2>4. Wire' = Wire \o t
    <3> HIDE DEF t
    <3> QED BY <2>2, <2>3, ConcatEmptySeq DEF Wire
  <2> QED
    BY <1>3, <2>4
<1>4. CASE Teardown
  BY <1>0, <1>4, ConcatEmptySeq DEF Teardown, Wire
<1>5. CASE CompReceive /\ pc' = pc
  <2>1. toComp # <<>> /\ toComp' = Tail(toComp) /\ outbuf' = outbuf
    BY <1>5 DEF CompReceive
  <2>2. /\ Len(toComp) \in Nat /\ Len(toComp) > 0
        /\ Head(toComp) = toComp[1]
    BY <1>0, <2>1, EmptySeq, LenProperties
  <2>3. Wire # <<>> /\ Head(toComp) = Wire[1]
    <3>1. 1 \in 1 .. Len(Wire) /\ 1 <= Len(toComp)
      BY <1>0, <2>2, WireTyped, LenProperties
    <3> QED
      BY <1>0, <2>2, <3>1, WireTyped, EmptySeq
  <2>4. Wire' = Tail(Wire)
    BY <1>0, <2>1, TailOfConcat DEF Wire
  <2> QED
    BY <1>5, <2>3, <2>4
<1>6. CASE OtherLoopStep
  <2>1. CASE StartFails \/ ReadEvents \/ TakePosted
    BY <1>6, <2>1 DEF StartFails, ReadEvents, TakePosted, lockVars, wireVars, Wire
  <2>2. CASE LoseConnection \/ RunResult \/ RoundtripDone
    <3>1. CASE CallbackDone(outbuf)
      BY <1>0, <1>6, <3>1, CallbackDoneWire DEF Wire
    <3>2. CASE UNCHANGED <<toComp, outbuf>>
      BY <1>6, <3>2 DEF Wire
    <3> QED
      BY <2>2, <3>1, <3>2 DEF LoseConnection, RunResult, RoundtripDone
  <2>3. CASE RoundtripEvent
    <3>1. ~activeLock
      BY <1>0, <2>3 DEF RoundtripEvent, ClientKnows
    <3>2. toComp' = toComp \o <<>> /\ outbuf' = outbuf
      BY <2>3, <3>1 DEF RoundtripEvent, HandlerRequests
    <3> QED
      BY <1>0, <1>6, <3>2, ConcatEmptySeq DEF Wire
  <2> QED
    BY <1>6, <2>1, <2>2, <2>3 DEF OtherLoopStep
<1>7. CASE OtherCompositor /\ pc' = pc
  <2>1. UNCHANGED <<toComp, outbuf>>
    BY <1>7 DEF OtherCompositor, CompKey, CompGrant, CompRefuse, CompRevoke, CompCrash, CompPlug,
                CompUnplug, Send
  <2> QED
    BY <1>7, <2>1 DEF Wire
<1>8. CASE Worker \/ Gone
  BY <1>8 DEF Worker, Gone, vars, lockVars, wireVars, Wire
<1> QED
  BY <1>1, <1>2, <1>3, <1>4, <1>5, <1>6, <1>7, <1>8
     DEF Next, LoopThread, Compositor, CompKey, OtherLoopStep, OtherCompositor, loopVars

\* The order of the requests survives everything that appends to them ...
LEMMA WireOrderAppend ==
    ASSUME OrderInv, NEW t \in Seq(Requests), Wire' = Wire \o t, grant' = grant,
           ~ReleaseSent, grant # "gone", grant = "none" => Wire # <<>>,
           \A i \in 1 .. Len(t) : t[i].req # "lock",
           \A i \in 1 .. Len(t) : t[i].req = "unlock" => grant \in {"locked", "revoked"},
           \A i, j \in 1 .. Len(t) : i < j /\ t[i].req \in Releases => t[j].req = "sync"
    PROVE  WireOrder'
<1>0. Wire \in Seq(Requests) /\ Len(Wire) \in Nat /\ Len(t) \in Nat /\ WireOrder
  BY WireTyped, LenProperties DEF OrderInv, GateInv, Shape, TypeOK, LockTypeOK
<1>1. /\ Len(Wire') = Len(Wire) + Len(t)
      /\ \A i \in 1 .. Len(Wire') : Wire'[i] = IF i <= Len(Wire) THEN Wire[i] ELSE t[i - Len(Wire)]
  BY <1>0, ConcatProperties
<1>2. \A i \in 1 .. Len(Wire') :
         \/ i \in 1 .. Len(Wire) /\ Wire'[i] = Wire[i]
         \/ /\ i > Len(Wire) /\ i - Len(Wire) \in 1 .. Len(t)
            /\ Wire'[i] = t[i - Len(Wire)]
  BY <1>0, <1>1
<1>3. \A i \in 1 .. Len(Wire') : Wire'[i].req = "lock" => i = 1 /\ grant' = "none"
  BY <1>0, <1>2 DEF WireOrder
<1>4. grant' = "none" /\ Wire' # <<>> => Wire'[1].req = "lock"
  <2> SUFFICES ASSUME grant' = "none" PROVE Wire'[1].req = "lock"
    OBVIOUS
  <2>1. Wire # <<>> /\ Wire[1].req = "lock"
    BY <1>0 DEF WireOrder
  <2>2. 1 \in 1 .. Len(Wire') /\ 1 <= Len(Wire)
    BY <1>0, <1>1, <2>1, EmptySeq
  <2> QED
    BY <1>1, <2>1, <2>2
<1>5. ASSUME NEW i \in 1 .. Len(Wire'), NEW j \in 1 .. Len(Wire'), i < j, Wire'[i].req \in Releases
      PROVE  Wire'[j].req = "sync"
  <2>1. ~(i \in 1 .. Len(Wire) /\ Wire'[i] = Wire[i])
    BY <1>5 DEF ReleaseSent
  <2>2. /\ i > Len(Wire) /\ i - Len(Wire) \in 1 .. Len(t) /\ Wire'[i] = t[i - Len(Wire)]
        /\ j > Len(Wire) /\ j - Len(Wire) \in 1 .. Len(t) /\ Wire'[j] = t[j - Len(Wire)]
    BY <1>0, <1>2, <1>5, <2>1
  <2>3. i - Len(Wire) < j - Len(Wire)
    BY <1>0, <1>5
  <2> QED
    BY <1>5, <2>2, <2>3
<1>6. \A i \in 1 .. Len(Wire') : Wire'[i].req = "unlock" => grant' \in {"locked", "revoked"}
  BY <1>0, <1>2 DEF WireOrder
<1> QED
  BY <1>3, <1>4, <1>5, <1>6 DEF WireOrder

\* ... and the reception of the first: only `destroy` can come at a wrong time.
LEMMA Reception ==
    ASSUME OrderInv, CompReceive, Wire # <<>>, Head(toComp) = Wire[1], Wire' = Tail(Wire)
    PROVE  /\ WireOrder'
           /\ \/ protoError' = protoError
              \/ protoError' = "destroy"
           /\ \/ grant' = grant /\ grant # "none"
              \/ grant = "none" /\ grant' = "pending"
              \/ ReleaseSent /\ grant' = "gone"
<1> DEFINE r == Wire[1]
<1>0. Wire \in Seq(Requests) /\ Len(Wire) \in Nat \ {0} /\ WireOrder /\ CompTypeOK
  BY WireTyped, EmptySeq DEF OrderInv, GateInv, Shape, TypeOK, LockTypeOK
<1>1. /\ Len(Wire') = Len(Wire) - 1
      /\ \A i \in 1 .. Len(Wire') : i + 1 \in 1 .. Len(Wire) /\ Wire'[i] = Wire[i + 1]
  BY <1>0, HeadTailProperties
<1>2. 1 \in 1 .. Len(Wire) /\ r \in Requests
  BY <1>0, ElementOfSeq
<1>3. r.req \in {"lock", "unlock", "destroy", "sync", "surface"}
  BY <1>2 DEF Requests
<1>4. \A i \in 1 .. Len(Wire') : Wire'[i].req # "lock"
  <2>1. \A i \in 1 .. Len(Wire') : i + 1 # 1
    BY <1>0, <1>1
  <2> QED
    BY <1>0, <1>1, <2>1 DEF WireOrder
<1>5. \A i, j \in 1 .. Len(Wire') : i < j /\ Wire'[i].req \in Releases => Wire'[j].req = "sync"
  <2>1. \A i, j \in 1 .. Len(Wire') : i < j => i + 1 < j + 1
    BY <1>1
  <2> QED
    BY <1>0, <1>1, <2>1 DEF WireOrder
<1>6. CASE r.req = "lock"
  <2>1. grant = "none"
    BY <1>0, <1>2, <1>6 DEF WireOrder
  <2>2. grant' = "pending" /\ protoError' = protoError
    BY <1>6, <2>1 DEF CompReceive, Legal
  <2>3. \A i \in 1 .. Len(Wire') : Wire'[i].req # "unlock"
    BY <1>0, <1>1, <2>1 DEF WireOrder
  <2> QED
    BY <1>4, <1>5, <2>1, <2>2, <2>3 DEF WireOrder
<1>7. CASE r.req # "lock"
  <2>1. grant # "none"
    BY <1>0, <1>7 DEF WireOrder
  <2>2. CASE r.req \in Releases /\ Legal(r.req)
    <3>1. grant' = "gone" /\ protoError' = protoError /\ ReleaseSent
      BY <1>2, <2>2 DEF CompReceive, Releases, ReleaseSent
    <3>2. \A i \in 1 .. Len(Wire') : Wire'[i].req = "sync"
      <4>1. \A i \in 1 .. Len(Wire') : 1 < i + 1
        BY <1>1
      <4> QED
        BY <1>0, <1>1, <1>2, <2>2, <4>1 DEF WireOrder
    <3> QED
      BY <1>4, <1>5, <3>1, <3>2 DEF WireOrder, Releases
  <2>3. CASE ~(r.req \in Releases /\ Legal(r.req))
    <3>1. grant' = grant
      BY <1>3, <1>7, <2>3 DEF CompReceive, Releases
    <3>2. protoError' = protoError \/ protoError' = "destroy"
      <4>1. r.req = "surface" => Legal(r.req)
        BY <1>0, <1>2, <2>1 DEF WireOrder, Legal
      <4>2. r.req = "unlock" => Legal(r.req)
        BY <1>0, <1>2 DEF WireOrder, Legal
      <4>3. r.req = "sync" => Legal(r.req)
        BY DEF Legal
      <4> QED
        BY <1>3, <1>7, <4>1, <4>2, <4>3 DEF CompReceive
    <3>3. \A i \in 1 .. Len(Wire') : /\ grant = "gone" => Wire'[i].req = "sync"
                                     /\ Wire'[i].req = "unlock" => grant \in {"locked", "revoked"}
      BY <1>0, <1>1 DEF WireOrder
    <3> QED
      BY <1>4, <1>5, <2>1, <3>1, <3>2, <3>3 DEF WireOrder
  <2> QED
    BY <2>2, <2>3
<1> QED
  BY <1>6, <1>7

LEMMA WireOrderStep ==
    ASSUME OrderInv, Next
    PROVE  WireOrder' /\ (protoError' = protoError \/ protoError' = "destroy")
<1>0. /\ WireTypeOK /\ inq \in Seq(Events) /\ LoopShape /\ ClientTypeOK /\ ClientKnows /\ WireOrder
      /\ WireGate /\ Wire \in Seq(Requests)
  BY WireTyped DEF OrderInv, GateInv, Shape, TypeOK, LockTypeOK, WireTypeOK
<1>1. CASE CompReceive /\ Wire # <<>> /\ Head(toComp) = Wire[1] /\ Wire' = Tail(Wire)
  BY <1>1, Reception
<1>2. CASE Start /\ Wire' = LockRequests
  <2>1. /\ LockRequests # <<>> /\ LockRequests[1].req = "lock"
        /\ LockRequests \in Seq(Requests)
        /\ \A i \in 1 .. Len(LockRequests) : i > 1 => LockRequests[i].req = "surface"
    BY <1>0, LockRequestsTyped
  <2>2. \A i \in 1 .. Len(LockRequests) : i = 1 \/ i > 1
    BY <2>1, LenProperties
  <2>3. grant' = "none" /\ protoError' = protoError
    BY <1>0, <1>2 DEF Start, ClientKnows, compVars
  <2>4. \A i \in 1 .. Len(LockRequests) : LockRequests[i].req \in {"lock", "surface"}
    BY <2>1, <2>2
  <2>5. \A i \in 1 .. Len(LockRequests) : LockRequests[i].req = "lock" => i = 1
    BY <2>1, <2>2
  <2>6. WireOrder'
    BY <1>2, <2>1, <2>3, <2>4, <2>5 DEF WireOrder, Releases
  <2> QED
    BY <2>3, <2>6
<1>3. CASE DispatchEvent /\ Wire' = Wire \o HandlerRequests(Head(inq))
  <2> DEFINE t == HandlerRequests(Head(inq))
  <2>1. t \in Seq(Requests) /\ \A i \in 1 .. Len(t) : t[i].req = "surface"
    BY <1>0, <1>3, HeadTailProperties, HandlerRequestsTyped DEF DispatchEvent, LoopShape
  <2>2. grant' = grant /\ protoError' = protoError
    BY <1>3 DEF DispatchEvent, compVars
  <2>3. CASE activeLock
    <3>1. ~ReleaseSent /\ grant # "gone" /\ (grant = "none" => Wire # <<>>)
      BY <1>0, <2>3 DEF ClientKnows
    <3> HIDE DEF t
    <3>2. WireOrder'
      BY <1>3, <2>1, <2>2, <3>1, WireOrderAppend DEF Releases, t
    <3> QED
      BY <2>2, <3>2
  <2>4. CASE ~activeLock
    <3>1. Wire' = Wire
      BY <1>0, <1>3, <2>4, ConcatEmptySeq DEF HandlerRequests
    <3> QED
      BY <1>0, <2>2, <3>1 DEF WireOrder
  <2> QED
    BY <2>3, <2>4
<1>4. CASE RunSuccess /\ Wire' = Wire \o <<ReleaseRequest, Req("sync")>>
  <2> DEFINE t == <<ReleaseRequest, Req("sync")>>
  <2>1. t \in Seq(Requests) /\ Len(t) = 2 /\ t[1] = ReleaseRequest /\ t[2] = Req("sync")
    BY ReleaseRequestTyped
  <2>2. grant' = grant /\ protoError' = protoError
    BY <1>4 DEF RunSuccess, compVars
  <2>3. activeLock
    BY <1>0, <1>4 DEF RunSuccess, Unlock, ClientKnows
  <2>4. ~ReleaseSent /\ grant # "gone" /\ (grant = "none" => Wire # <<>>)
    BY <1>0, <2>3 DEF ClientKnows
  <2>5. /\ ReleaseRequest.req \in Releases
        /\ ReleaseRequest.req = "unlock" => grant \in {"locked", "revoked"}
    BY <1>0 DEF ReleaseRequest, Req, Releases, ClientKnows
  <2>6. Req("sync").req = "sync" /\ Wire' = Wire \o t
    BY <1>4 DEF Req
  <2> HIDE DEF t
  <2>7. \A i \in 1 .. Len(t) : i = 1 \/ i = 2
    BY <2>1
  <2>8. /\ \A i \in 1 .. Len(t) : t[i].req # "lock"
        /\ \A i \in 1 .. Len(t) : t[i].req = "unlock" => grant \in {"locked", "revoked"}
        /\ \A i, j \in 1 .. Len(t) : i < j /\ t[i].req \in Releases => t[j].req = "sync"
    BY <2>1, <2>5, <2>6, <2>7 DEF Releases
  <2>9. WireOrder'
    BY <2>1, <2>2, <2>4, <2>6, <2>8, WireOrderAppend
  <2> QED
    BY <2>2, <2>9
<1>5. CASE Teardown /\ Wire' = toComp
  <2>1. grant' = grant /\ protoError' = protoError
    BY <1>5 DEF Teardown, compVars
  <2>2. \A i \in 1 .. Len(Wire') : i \in 1 .. Len(Wire) /\ Wire'[i] = Wire[i]
    BY <1>0, <1>5, WireTyped, LenProperties
  <2>3. Wire' # <<>> => Wire # <<>> /\ Wire'[1] = Wire[1]
    <3> SUFFICES ASSUME Wire' # <<>> PROVE Wire # <<>> /\ Wire'[1] = Wire[1]
      OBVIOUS
    <3>1. 1 \in 1 .. Len(Wire')
      BY <1>0, <1>5, EmptySeq, WireTyped
    <3>2. 1 \in 1 .. Len(Wire) /\ Wire'[1] = Wire[1]
      BY <2>2, <3>1
    <3> QED
      BY <1>0, <3>2, EmptySeq
  <2>4. WireOrder'
    BY <1>0, <2>1, <2>2, <2>3 DEF WireOrder
  <2> QED
    BY <2>1, <2>4
<1>6. CASE (OtherLoopStep \/ Worker \/ Gone) /\ Wire' = Wire
  <2>1. grant' = grant /\ protoError' = protoError
    BY <1>6 DEF OtherLoopStep, StartFails, ReadEvents, LoseConnection, TakePosted, RunResult,
                RoundtripEvent, RoundtripDone, Worker, Gone, vars, lockVars, compVars
  <2> QED
    BY <1>0, <1>6, <2>1 DEF WireOrder
<1>7. CASE OtherCompositor /\ Wire' = Wire
  <2>1. protoError' = protoError
    BY <1>7 DEF OtherCompositor, CompGrant, CompRefuse, CompRevoke, CompCrash, CompKey, CompPlug,
                CompUnplug, Send, compVars
  <2>2. \/ grant' = grant
        \/ grant = "pending" /\ grant' \in {"locked", "refused"}
        \/ grant = "locked" /\ grant' = "revoked"
    BY <1>7 DEF OtherCompositor, CompGrant, CompRefuse, CompRevoke, CompCrash, CompKey, CompPlug,
                CompUnplug, Send, compVars
  <2> QED
    BY <1>0, <1>7, <2>1, <2>2 DEF WireOrder
<1> QED
  BY <1>1, <1>2, <1>3, <1>4, <1>5, <1>6, <1>7, WireSteps

\* Which way the lock object goes.
LEMMA GrantMoves ==
    ASSUME OrderInv, Next
    PROVE  \/ grant' = grant
           \/ CompReceive /\ grant = "none" /\ grant' = "pending"
           \/ CompReceive /\ ReleaseSent /\ grant' = "gone"
           \/ CompGrant /\ grant = "pending" /\ grant' = "locked"
           \/ grant = "pending" /\ grant' = "refused"
           \/ grant = "locked" /\ grant' = "revoked"
<1>1. CASE CompReceive /\ Wire # <<>> /\ Head(toComp) = Wire[1] /\ Wire' = Tail(Wire)
  BY <1>1, Reception
<1>2. CASE OtherCompositor
  BY <1>2 DEF OtherCompositor, CompGrant, CompRefuse, CompRevoke, CompCrash, CompKey, CompPlug,
              CompUnplug, Send, compVars
<1>3. CASE LoopThread \/ Worker \/ Gone
  BY <1>3 DEF LoopThread, StartFails, Start, ReadEvents, DispatchEvent, LoseConnection, TakePosted,
              RunResult, RunSuccess, RoundtripEvent, RoundtripDone, Teardown, Worker, Gone,
              vars, lockVars, compVars
<1> QED
  BY <1>1, <1>2, <1>3, WireSteps DEF OtherLoopStep, LoopThread

LEMMA AppendedEvents ==
    ASSUME toClient \in Seq(Events), NEW e \in Events, toClient' = Append(toClient, e)
    PROVE  \A i \in 1 .. Len(toClient') :
              (i \in 1 .. Len(toClient) /\ toClient'[i] = toClient[i]) \/ toClient'[i] = e
<1>1. /\ Len(toClient') = Len(toClient) + 1 /\ toClient'[Len(toClient) + 1] = e
      /\ \A i \in 1 .. Len(toClient) : toClient'[i] = toClient[i]
  BY AppendProperties
<1>2. Len(toClient) \in Nat
  BY LenProperties
<1>3. \A i \in 1 .. Len(toClient') : i \in 1 .. Len(toClient) \/ i = Len(toClient) + 1
  BY <1>1, <1>2
<1> QED
  BY <1>1, <1>3

LEMMA GrantToldStep ==
    ASSUME OrderInv, Next
    PROVE  GrantTold'
<1> DEFINE G == {"locked", "revoked", "gone"}
<1>0. /\ inq \in Seq(Events) /\ toClient \in Seq(Events) /\ LoopShape /\ GrantTold
  BY DEF OrderInv, GateInv, Shape, TypeOK, LockTypeOK, WireTypeOK
<1>1. grant \in G => grant' \in G
  BY GrantMoves
<1>2. ASSUME UNCHANGED <<toClient, inq>> PROVE GrantTold'
  BY <1>0, <1>1, <1>2 DEF GrantTold
<1>3. CASE ReadEvents
  BY <1>0, <1>1, <1>3 DEF ReadEvents, GrantTold
<1>4. CASE DispatchEvent
  <2>1. inq # <<>> /\ inq' = Tail(inq) /\ toClient' = toClient
    BY <1>0, <1>4 DEF DispatchEvent, LoopShape
  <2>2. \A i \in 1 .. Len(inq') : i + 1 \in 1 .. Len(inq) /\ inq'[i] = inq[i + 1]
    BY <1>0, <2>1, HeadTailProperties
  <2> QED
    BY <1>0, <1>1, <2>1, <2>2 DEF GrantTold
<1>5. CASE RoundtripEvent \/ RoundtripDone
  <2>1. inq' = inq /\ (toClient' = toClient \/ (toClient # <<>> /\ toClient' = Tail(toClient)))
    BY <1>5 DEF RoundtripEvent, RoundtripDone
  <2>2. CASE toClient # <<>> /\ toClient' = Tail(toClient)
    <3>1. \A i \in 1 .. Len(toClient') : /\ i + 1 \in 1 .. Len(toClient)
                                         /\ toClient'[i] = toClient[i + 1]
      BY <1>0, <2>2, HeadTailProperties
    <3> QED
      BY <1>0, <1>1, <2>1, <3>1 DEF GrantTold
  <2> QED
    BY <1>2, <2>1, <2>2
<1>6. CASE Compositor
  <2>1. inq' = inq
    BY <1>6 DEF Compositor, CompKey, CompReceive, CompGrant, CompRefuse, CompRevoke, CompCrash,
                CompPlug, CompUnplug, Send
  <2>2. ASSUME NEW e \in Events, toClient' = Append(toClient, e),
               e.ev = "locked" => grant' \in G
        PROVE  GrantTold'
    BY <1>0, <1>1, <2>1, <2>2, AppendedEvents DEF GrantTold
  <2>3. CASE CompReceive
    <3>1. toClient' = toClient \/ toClient' = Append(toClient, Ev("done"))
      BY <2>3 DEF CompReceive
    <3>2. Ev("done") \in Events /\ Ev("done").ev # "locked"
      BY EventsTyped DEF Ev
    <3> QED
      BY <1>2, <2>1, <2>2, <3>1, <3>2
  <2>4. CASE CompGrant
    <3>1. toClient' = Append(toClient, Ev("locked")) /\ grant' = "locked"
      BY <2>4 DEF CompGrant, Send
    <3> QED
      BY <2>2, <3>1, EventsTyped
  <2>5. CASE CompRefuse \/ CompRevoke
    <3>1. toClient' = Append(toClient, Ev("finished"))
      BY <2>5 DEF CompRefuse, CompRevoke, Send
    <3>2. Ev("finished").ev # "locked"
      BY DEF Ev
    <3> QED
      BY <2>2, <3>1, <3>2, EventsTyped
  <2>6. CASE CompCrash
    BY <1>2, <2>1, <2>6 DEF CompCrash
  <2>7. CASE CompKey
    <3>1. PICK k \in KeyEvents : toClient' = Append(toClient, k)
      BY <2>7 DEF CompKey, Send
    <3>2. k \in Events /\ k.ev # "locked"
      BY KeyKindsAssumption DEF KeyEvents, Events
    <3> QED
      BY <2>2, <3>1, <3>2
  <2>8. CASE \E o \in Outputs : CompPlug(o) \/ CompUnplug(o)
    <3>1. PICK o \in Outputs : CompPlug(o) \/ CompUnplug(o)
      BY <2>8
    <3>2. PICK x \in {"global", "remove"} : toClient' = Append(toClient, [ev |-> x, output |-> o])
      BY <3>1 DEF CompPlug, CompUnplug, Send
    <3>3. [ev |-> x, output |-> o] \in Events /\ [ev |-> x, output |-> o].ev # "locked"
      BY DEF Events
    <3> QED
      BY <2>2, <3>2, <3>3
  <2> QED
    BY <1>6, <2>3, <2>4, <2>5, <2>6, <2>7, <2>8 DEF Compositor
<1>7. CASE StartFails \/ Start \/ LoseConnection \/ TakePosted \/ RunResult \/ RunSuccess
           \/ Teardown \/ Worker \/ Gone
  BY <1>2, <1>7 DEF StartFails, Start, LoseConnection, TakePosted, RunResult, RunSuccess, Teardown,
                    Worker, Gone, vars, lockVars, wireVars
<1> QED
  BY <1>3, <1>4, <1>5, <1>6, <1>7 DEF Next, LoopThread

\* A handler neither takes nor gives up the lock, and believes only a `locked` it was sent.
LEMMA HandleClient ==
    ASSUME ClientTypeOK, NEW e, Handle(e)
    PROVE  /\ UNCHANGED <<lockObj, activeLock>>
           /\ \/ locked' = locked \/ locked' = FALSE
              \/ e.ev = "locked" /\ lockObj = "live"
<1>0. locked \in BOOLEAN
  BY DEF ClientTypeOK
<1>1. CASE e.ev = "locked" /\ OnLocked
  <2>1. locked' = (locked \/ lockObj = "live")
    BY <1>1 DEF OnLocked
  <2>2. CASE lockObj = "live"
    BY <1>1, <2>2 DEF OnLocked
  <2>3. CASE lockObj # "live"
    <3>1. locked' = locked
      BY <1>0, <2>1, <2>3
    <3> QED
      BY <1>1, <3>1 DEF OnLocked
  <2> QED
    BY <2>2, <2>3
<1>2. CASE OnFinished
  <2>1. locked' = (locked /\ lockObj # "live")
    BY <1>2 DEF OnFinished
  <2>2. locked' = locked \/ locked' = FALSE
    BY <1>0, <2>1, Zenon
  <2> QED
    BY <1>2, <2>2 DEF OnFinished
<1>3. CASE UNCHANGED clientVars \/ OnGlobal(e.output) \/ OnGlobalRemove(e.output)
  <2>1. UNCHANGED <<lockObj, locked, activeLock>>
    BY <1>3 DEF clientVars, OnGlobal, OnGlobalRemove
  <2> QED
    BY <2>1
<1> QED
  BY <1>1, <1>2, <1>3 DEF Handle

LEMMA ClientKnowsStep ==
    ASSUME OrderInv, Next
    PROVE  ClientKnows'
<1> DEFINE G == {"locked", "revoked"}
<1>0. /\ WireTypeOK /\ toClient \in Seq(Events) /\ inq \in Seq(Events) /\ LoopShape
      /\ ClientTypeOK /\ ClientKnows /\ GrantTold /\ WireOrder /\ WireGate
      /\ Wire \in Seq(Requests)
  BY WireTyped DEF OrderInv, GateInv, Shape, TypeOK, LockTypeOK, WireTypeOK
<1>1. ASSUME UNCHANGED <<lockObj, locked, activeLock, grant>>, Wire' = Wire,
             pc' = "start" => pc = "start",
             pc' = "roundtrip" => pc = "roundtrip"
      PROVE  ClientKnows'
  BY <1>0, <1>1 DEF ClientKnows, ReleaseSent
<1>2. ASSUME NEW e, Handle(e), e.ev = "locked" => grant \in {"locked", "revoked", "gone"}
      PROVE  /\ UNCHANGED <<lockObj, activeLock>>
             /\ lockObj' = "live" \/ locked' => activeLock'
             /\ locked' => grant \in G
  <2>1. /\ UNCHANGED <<lockObj, activeLock>>
        /\ \/ locked' = locked \/ locked' = FALSE
           \/ e.ev = "locked" /\ lockObj = "live"
    BY <1>0, <1>2, HandleClient
  <2>2. CASE locked' = locked
    BY <1>0, <2>1, <2>2 DEF ClientKnows
  <2>3. CASE locked' = FALSE
    BY <1>0, <2>1, <2>3 DEF ClientKnows
  <2>4. CASE e.ev = "locked" /\ lockObj = "live"
    BY <1>0, <1>2, <2>1, <2>4 DEF ClientKnows
  <2> QED
    BY <2>1, <2>2, <2>3, <2>4
<1>3. CASE Start /\ Wire' = LockRequests
  <2>1. /\ LockRequests # <<>> /\ LockRequests[1].req = "lock"
        /\ LockRequests \in Seq(Requests)
        /\ \A i \in 1 .. Len(LockRequests) : i > 1 => LockRequests[i].req = "surface"
    BY <1>0, LockRequestsTyped
  <2>2. \A i \in 1 .. Len(LockRequests) : i = 1 \/ i > 1
    BY <2>1, LenProperties
  <2>3. ~ReleaseSent'
    BY <1>3, <2>1, <2>2 DEF ReleaseSent, Releases
  <2>4. pc' = "wait" /\ grant' = "none" /\ activeLock' = TRUE /\ locked' = locked
    BY <1>0, <1>3 DEF Start, Lock, ClientKnows, compVars
  <2>5. ~locked
    BY <1>0, <1>3 DEF Start, ClientKnows
  <2> QED
    BY <1>3, <2>1, <2>3, <2>4, <2>5 DEF ClientKnows
<1>4. CASE DispatchEvent /\ Wire' = Wire \o HandlerRequests(Head(inq))
  <2> DEFINE e == Head(inq)
             t == HandlerRequests(e)
  <2>1. inq # <<>> /\ e \in Events /\ 1 \in 1 .. Len(inq) /\ e = inq[1]
    BY <1>0, <1>4, HeadTailProperties, EmptySeq DEF DispatchEvent, LoopShape
  <2>2. t \in Seq(Requests) /\ \A i \in 1 .. Len(t) : t[i].req = "surface"
    BY <2>1, HandlerRequestsTyped
  <2>3. Handle(e) /\ grant' = grant
    BY <1>4 DEF DispatchEvent, compVars
  <2>4. e.ev = "locked" => grant \in {"locked", "revoked", "gone"}
    BY <1>0, <2>1 DEF GrantTold
  <2>5. pc' \notin {"start", "roundtrip"}
    BY <1>0, <1>4 DEF DispatchEvent, CallbackDone
  <2> HIDE DEF e, t
  <2>6. /\ UNCHANGED <<lockObj, activeLock>>
        /\ lockObj' = "live" \/ locked' => activeLock'
        /\ locked' => grant \in G
    BY <1>2, <2>3, <2>4
  <2>7. activeLock => ~ReleaseSent'
    <3> SUFFICES ASSUME activeLock, NEW i \in 1 .. Len(Wire'), Wire'[i].req \in Releases
                 PROVE  FALSE
      BY DEF ReleaseSent
    <3>1. \/ i \in 1 .. Len(Wire) /\ Wire'[i] = Wire[i]
          \/ i - Len(Wire) \in 1 .. Len(t) /\ Wire'[i] = t[i - Len(Wire)]
      <4>1. /\ Len(Wire') = Len(Wire) + Len(t)
            /\ Wire'[i] = IF i <= Len(Wire) THEN Wire[i] ELSE t[i - Len(Wire)]
        BY <1>0, <1>4, <2>2, ConcatProperties DEF e, t
      <4>2. Len(Wire) \in Nat /\ Len(t) \in Nat
        BY <1>0, <2>2, LenProperties
      <4> QED
        BY <4>1, <4>2
    <3> QED
      BY <1>0, <2>2, <3>1 DEF ClientKnows, ReleaseSent, Releases
  <2>8. Wire # <<>> => Wire' # <<>>
    BY <1>0, <1>4, <2>2, ConcatEqualIffEmpty DEF e, t
  <2> QED
    BY <1>0, <2>3, <2>5, <2>6, <2>7, <2>8 DEF ClientKnows
<1>5. CASE RunSuccess
  <2>1. lockObj' = "none" /\ locked' = FALSE /\ activeLock' = FALSE /\ pc' = "roundtrip"
    BY <1>5 DEF RunSuccess, Unlock
  <2> QED
    BY <2>1 DEF ClientKnows
<1>6. CASE Teardown /\ Wire' = toComp
  <2>1. /\ lockObj' = "none" /\ UNCHANGED <<locked, activeLock, grant>> /\ pc' = "exited"
    BY <1>6 DEF Teardown, compVars
  <2>2. \A i \in 1 .. Len(Wire') : i \in 1 .. Len(Wire) /\ Wire'[i] = Wire[i]
    BY <1>0, <1>6, WireTyped, LenProperties
  <2>3. ReleaseSent' => ReleaseSent
    BY <2>2 DEF ReleaseSent
  <2>4. activeLock /\ grant = "none" => Wire' # <<>>
    <3> SUFFICES ASSUME activeLock, grant = "none", toComp = <<>> PROVE FALSE
      BY <1>6
    <3>1. Wire # <<>> /\ Wire[1].req = "lock"
      BY <1>0 DEF ClientKnows, WireOrder
    <3>2. Wire = outbuf
      BY <1>0, ConcatEmptySeq DEF Wire, WireTypeOK
    <3>3. 1 \in 1 .. Len(outbuf)
      BY <1>0, <3>1, <3>2, EmptySeq
    <3> QED
      BY <1>0, <3>1, <3>2, <3>3 DEF WireGate
  <2> QED
    BY <1>0, <2>1, <2>3, <2>4 DEF ClientKnows
<1>7. CASE /\ CompReceive /\ pc' = pc
           /\ Wire # <<>> /\ Head(toComp) = Wire[1] /\ Wire' = Tail(Wire)
  <2>1. \/ grant' = grant /\ grant # "none"
        \/ grant = "none" /\ grant' = "pending"
        \/ ReleaseSent /\ grant' = "gone"
    BY <1>7, Reception
  <2>2. UNCHANGED <<pc, lockObj, locked, activeLock>>
    BY <1>7 DEF CompReceive, clientVars
  <2>3. pc # "start"
    BY <1>0, <1>7 DEF ClientKnows
  <2>4. ReleaseSent' => ReleaseSent
    <3>1. \A i \in 1 .. Len(Wire') : i + 1 \in 1 .. Len(Wire) /\ Wire'[i] = Wire[i + 1]
      BY <1>0, <1>7, HeadTailProperties
    <3> QED
      BY <3>1 DEF ReleaseSent
  <2> QED
    BY <1>0, <2>1, <2>2, <2>3, <2>4 DEF ClientKnows
<1>8. CASE OtherLoopStep /\ Wire' = Wire
  <2>1. CASE RoundtripEvent
    <3> DEFINE e == Head(toClient)
    <3>1. toClient # <<>> /\ e \in Events /\ 1 \in 1 .. Len(toClient) /\ e = toClient[1]
      BY <1>0, <2>1, HeadTailProperties, EmptySeq DEF RoundtripEvent
    <3>2. Handle(e) /\ grant' = grant /\ pc' = "roundtrip" /\ pc = "roundtrip"
      BY <2>1 DEF RoundtripEvent, compVars
    <3>3. e.ev = "locked" => grant \in {"locked", "revoked", "gone"}
      BY <1>0, <3>1 DEF GrantTold
    <3> HIDE DEF e
    <3>4. /\ UNCHANGED <<lockObj, activeLock>>
          /\ lockObj' = "live" \/ locked' => activeLock'
          /\ locked' => grant \in G
      BY <1>2, <3>2, <3>3
    <3> QED
      BY <1>0, <1>8, <3>2, <3>4 DEF ClientKnows, ReleaseSent
  <2>2. CASE ~RoundtripEvent
    <3>1. UNCHANGED <<clientVars, compVars>>
      BY <1>8, <2>2 DEF OtherLoopStep, StartFails, ReadEvents, LoseConnection, TakePosted, RunResult,
                        RoundtripDone, lockVars
    <3>2. pc' \notin {"start", "roundtrip"}
      BY <1>0, <1>8, <2>2 DEF OtherLoopStep, StartFails, ReadEvents, LoseConnection, TakePosted,
                              RunResult, RoundtripDone, CallbackDone
    <3> QED
      BY <1>1, <1>8, <3>1, <3>2 DEF clientVars, compVars
  <2> QED
    BY <2>1, <2>2
<1>9. CASE (Worker \/ Gone) /\ Wire' = Wire
  BY <1>1, <1>9 DEF Worker, Gone, vars, lockVars, clientVars, compVars, loopVars
<1>10. CASE OtherCompositor /\ pc' = pc /\ Wire' = Wire
  <2>1. UNCHANGED <<lockObj, locked, activeLock>>
    BY <1>10 DEF OtherCompositor, CompGrant, CompRefuse, CompRevoke, CompCrash, CompKey, CompPlug,
                 CompUnplug, Send, clientVars
  <2>2. \/ grant' = grant
        \/ grant = "pending" /\ grant' \in {"locked", "refused"}
        \/ grant = "locked" /\ grant' = "revoked"
    BY <1>10 DEF OtherCompositor, CompGrant, CompRefuse, CompRevoke, CompCrash, CompKey, CompPlug,
                 CompUnplug, Send, compVars
  <2> QED
    BY <1>0, <1>10, <2>1, <2>2 DEF ClientKnows, ReleaseSent
<1> QED
  BY <1>3, <1>4, <1>5, <1>6, <1>7, <1>8, <1>9, <1>10, WireSteps

LEMMA OrderInit == Init => OrderInv /\ protoError = ""
<1> SUFFICES ASSUME Init PROVE OrderInv /\ protoError = ""
  OBVIOUS
<1>1. GateInv
  BY GateInit
<1>2. /\ toComp = <<>> /\ outbuf = <<>> /\ toClient = <<>> /\ inq = <<>> /\ protoError = ""
      /\ grant = "none" /\ lockObj = "none" /\ pc = "start" /\ locked = FALSE /\ activeLock = FALSE
  BY DEF Init, LockInit
<1>3. Wire = <<>>
  BY <1>2, ConcatEmptySeq, EmptySeq DEF Wire
<1>4. WireOrder /\ GrantTold
  <2>1. 1 .. Len(<<>>) = {}
    OBVIOUS
  <2>2. WireOrder
    BY <1>2, <1>3, <2>1 DEF WireOrder
  <2>3. GrantTold
    BY <1>2, <2>1 DEF GrantTold
  <2> QED
    BY <2>2, <2>3
<1>5. ~locked /\ ~activeLock
  BY <1>2
<1>6. ClientKnows
  BY <1>2, <1>3, <1>5 DEF ClientKnows
<1> QED
  BY <1>1, <1>2, <1>4, <1>6 DEF OrderInv

LEMMA OrderStep ==
    OrderInv /\ UnlockNeverEarly /\ [Next]_vars => OrderInv' /\ UnlockNeverEarly'
<1> SUFFICES ASSUME OrderInv, UnlockNeverEarly, [Next]_vars
             PROVE  OrderInv' /\ UnlockNeverEarly'
  OBVIOUS
<1>1. GateInv'
  BY GateStep DEF OrderInv
<1>2. CASE Next
  BY <1>1, <1>2, WireOrderStep, GrantToldStep, ClientKnowsStep DEF OrderInv, UnlockNeverEarly
<1>3. CASE UNCHANGED vars
  <2>1. UNCHANGED <<Wire, grant, activeLock, pc, lockObj, locked, toClient, inq, protoError>>
    BY <1>3 DEF vars, lockVars, clientVars, wireVars, compVars, loopVars, Wire
  <2> QED
    BY <1>1, <2>1 DEF OrderInv, WireOrder, ClientKnows, GrantTold, ReleaseSent, UnlockNeverEarly
<1> QED
  BY <1>2, <1>3

\* unlock_and_destroy reaches only a compositor that has sent `locked`, `lock` comes first
\* and once, and no request for a lock surface finds its lock object gone: whatever the
\* outputs, the keys and the order of the two sides' steps.
THEOREM UnlockCorrect == Spec => []UnlockNeverEarly
<1>1. Init => OrderInv /\ UnlockNeverEarly
  BY OrderInit DEF UnlockNeverEarly
<1> QED
  BY <1>1, OrderStep, PTL DEF Spec

\* No lock surface is requested from a lock object that was given up before, however many
\* outputs appear and whenever they do.
THEOREM SurfacesCorrect == Spec => []NoSurfaceAfterRelease
<1>1. Init => OrderInv /\ UnlockNeverEarly
  BY OrderInit DEF UnlockNeverEarly
<1>2. OrderInv => NoSurfaceAfterRelease
  BY DEF OrderInv, WireOrder, Releases, NoSurfaceAfterRelease
<1> QED
  BY <1>1, <1>2, OrderStep, PTL DEF Spec

=============================================================================
