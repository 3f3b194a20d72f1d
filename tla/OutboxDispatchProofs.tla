------------------------ MODULE OutboxDispatchProofs ------------------------
(***************************************************************************)
(* Proofs about OutboxDispatch, for any number of rows and of overlapping  *)
(* passes, any backoff, lease and batch size.                              *)
(***************************************************************************)
EXTENDS OutboxDispatch, TLAPS

\* The listed copies a pass starts from are well typed.
LEMMA ListTyped ==
  ASSUME TypeOK, NEW d \in Dispatchers, ListDue(d)
  PROVE  TypeOK'
  <1>1. PICK ks \in SUBSET Keys :
          due' = [due EXCEPT ![d] =
            {[key |-> k, attempts |-> outbox[k].attempts, next |-> outbox[k].next] : k \in ks}]
    BY DEF ListDue
  <1>2. {[key |-> k, attempts |-> outbox[k].attempts, next |-> outbox[k].next] : k \in ks}
          \subseteq Copy
    BY DEF TypeOK, OutboxRow, Copy
  <1>3. due' \in [Dispatchers -> SUBSET Copy]
    BY <1>1, <1>2 DEF TypeOK
  <1>. QED BY <1>3 DEF ListDue, Goto, TypeOK

\* Going on to the next row keeps the types.
LEMMA NextRowTyped ==
  ASSUME TypeOK, NEW d \in Dispatchers, NextRow(d)
  PROVE  /\ pc' \in [Dispatchers -> {"idle", "next", "handle", "accepted", "refused"}]
         /\ row' \in [Dispatchers -> Copy]
  BY OutboxAssumption DEF NextRow, Goto, TypeOK, NoCopy, Copy

\* A pass that ends leaves well-typed memory behind.
LEMMA GoneTyped ==
  ASSUME TypeOK, NEW d \in Dispatchers, Gone(d)
  PROVE  /\ pc' \in [Dispatchers -> {"idle", "next", "handle", "accepted", "refused"}]
         /\ row' \in [Dispatchers -> Copy]
         /\ due' \in [Dispatchers -> SUBSET Copy]
         /\ start' \in [Dispatchers -> Nat]
  BY OutboxAssumption DEF Gone, Goto, TypeOK, NoCopy, Copy

\* Every delay the backoff gives is a number of seconds.
LEMMA BackoffTyped ==
  ASSUME NEW a \in Nat
  PROVE  BackoffSeconds(a) \in Nat
  <1>1. (IF a < 10 THEN a ELSE 10) \in 0..10
    OBVIOUS
  <1>2. Backoff \in [0..10 -> Nat \ {0}]
    BY OutboxAssumption
  <1>. QED BY <1>1, <1>2 DEF BackoffSeconds

\* Every step of a pass keeps the types.
LEMMA ProgressTyped ==
  ASSUME TypeOK, NEW d \in Dispatchers, Progress(d)
  PROVE  TypeOK'
  <1>0. row[d] \in Copy /\ row[d].key \in Keys /\ row[d].attempts \in Nat /\ start[d] \in Nat
    BY DEF TypeOK, Copy
  <1>1. ASSUME NEW c \in due[d], TryClaim(d, c) PROVE TypeOK'
    <2>1. c \in Copy /\ c.key \in Keys /\ c.attempts \in Nat /\ LeaseEnd(d) \in Nat
      BY <1>0, OutboxAssumption DEF TypeOK, Copy, LeaseEnd
    <2>2. due' \in [Dispatchers -> SUBSET Copy]
      BY <1>1 DEF TryClaim, TypeOK
    <2>3. outbox' \in [Keys -> OutboxRow]
      BY <1>1, <2>1 DEF TryClaim, TypeOK, OutboxRow, DispatchState
    <2>4. /\ row' \in [Dispatchers -> Copy]
          /\ pc' \in [Dispatchers -> {"idle", "next", "handle", "accepted", "refused"}]
      BY <1>1, <2>1 DEF TryClaim, TypeOK, Goto
    <2>. QED BY <1>1, <2>2, <2>3, <2>4 DEF TryClaim, TypeOK
  <1>2. ASSUME EndDispatch(d) PROVE TypeOK'
    BY <1>2, GoneTyped DEF EndDispatch, TypeOK
  <1>3. ASSUME HandlerAccepts(d) \/ HandlerRefuses(d) \/ NoHandler(d) PROVE TypeOK'
    BY <1>0, <1>3 DEF HandlerAccepts, HandlerRefuses, NoHandler, Called, Goto, AfterNoHandler,
                      TypeOK
  <1>4. ASSUME MarkDispatched(d) PROVE TypeOK'
    <2>1. outbox' \in [Keys -> OutboxRow]
      BY <1>0, <1>4 DEF MarkDispatched, TypeOK, OutboxRow, DispatchState
    <2>. QED BY <1>4, <2>1, NextRowTyped DEF MarkDispatched, TypeOK
  <1>5. ASSUME MarkFailed(d) PROVE TypeOK'
    <2>1. start[d] + BackoffSeconds(row[d].attempts + 1) \in Nat
      BY <1>0, BackoffTyped
    <2>2. outbox' \in [Keys -> OutboxRow]
      BY <1>0, <1>5, <2>1 DEF MarkFailed, TypeOK, OutboxRow, DispatchState
    <2>. QED BY <1>5, <2>2, NextRowTyped DEF MarkFailed, TypeOK
  <1>. QED BY <1>1, <1>2, <1>3, <1>4, <1>5 DEF Progress

\* Whatever goes wrong keeps the types.
LEMMA FaultTyped ==
  ASSUME TypeOK, NEW d \in Dispatchers, Fault(d)
  PROVE  TypeOK'
  <1>0. MaxFaults \in Nat /\ MaxTime \in Nat
    BY OutboxAssumption
  <1>1. ASSUME NEW c \in due[d], ClaimFails(d, c) PROVE TypeOK'
    BY <1>0, <1>1 DEF ClaimFails, MayFault, TypeOK
  <1>2. ASSUME MarkFails(d) PROVE TypeOK'
    BY <1>0, <1>2, NextRowTyped DEF MarkFails, MayFault, TypeOK
  <1>3. ASSUME OutOfTime(d) \/ Crash(d) PROVE TypeOK'
    BY <1>0, <1>3, GoneTyped DEF OutOfTime, Crash, MayFault, TypeOK
  <1>4. ASSUME Overrun(d) PROVE TypeOK'
    BY <1>0, <1>4 DEF Overrun, MayFault, TypeOK, local
  <1>. QED BY <1>1, <1>2, <1>3, <1>4 DEF Fault

\* Every step keeps the types.
LEMMA StepTyped == TypeOK /\ [Next]_vars => TypeOK'
  <1> SUFFICES ASSUME TypeOK, [Next]_vars PROVE TypeOK'
    OBVIOUS
  <1>1. CASE UNCHANGED vars
    BY <1>1 DEF vars, local, TypeOK
  <1>2. ASSUME NEW k \in Keys, Enqueue(k) PROVE TypeOK'
    <2>1. outbox' \in [Keys -> OutboxRow]
      BY <1>2 DEF Enqueue, TypeOK, OutboxRow, DispatchState
    <2>. QED BY <1>2, <2>1 DEF Enqueue, TypeOK, local
  <1>3. CASE Advance
    BY <1>3, OutboxAssumption DEF Advance, TypeOK, local
  <1>4. ASSUME NEW d \in Dispatchers, ListDue(d) \/ Progress(d) \/ Fault(d) PROVE TypeOK'
    BY <1>4, ListTyped, ProgressTyped, FaultTyped
  <1>. QED BY <1>1, <1>2, <1>3, <1>4 DEF Next

\* Types hold before the first row.
LEMMA InitTyped == Init => TypeOK
  BY OutboxAssumption DEF Init, TypeOK, NOROW, NoCopy, OutboxRow, Copy

\* Every reachable state is well typed.
THEOREM TypeCorrect == Spec => []TypeOK
  BY InitTyped, StepTyped, PTL DEF Spec

-----------------------------------------------------------------------------
(* Attempts.  A claim adds one to the attempts of its row and holds the     *)
(* number it found there, so no later claim can hold the same.              *)

\* A step that begins no claim and calls no handler changes neither fact.
LEMMA NoNewClaim ==
  ASSUME TypeOK, TypeOK', AttemptsBehindRow, OneDispatcherPerAttempt, called' = called,
         \A k \in Keys : outbox'[k].attempts >= outbox[k].attempts,
         \A e \in Dispatchers : Handling(e)' =>
            Handling(e) /\ row'[e] = row[e] /\ (pc'[e] = "handle" => pc[e] = "handle")
  PROVE  AttemptsBehindRow' /\ OneDispatcherPerAttempt'
  <1>1. ASSUME NEW e \in Dispatchers, Handling(e)'
        PROVE  row'[e].attempts < outbox'[row'[e].key].attempts
    <2>1. Handling(e) /\ row'[e] = row[e] /\ row[e].key \in Keys
      BY <1>1 DEF TypeOK, Copy
    <2>2. row[e].attempts < outbox[row[e].key].attempts
      BY <2>1 DEF AttemptsBehindRow
    <2>3. /\ outbox[row[e].key].attempts \in Nat /\ outbox'[row[e].key].attempts \in Nat
          /\ row[e].attempts \in Nat
      BY <2>1 DEF TypeOK, OutboxRow, Copy
    <2>. QED BY <2>1, <2>2, <2>3
  <1>2. ASSUME NEW call \in called PROVE call[2] <= outbox'[call[1]].attempts
    <2>1. call[1] \in Keys /\ call[2] \in Nat
      BY DEF TypeOK
    <2>2. call[2] <= outbox[call[1]].attempts
      BY DEF AttemptsBehindRow
    <2>3. outbox[call[1]].attempts \in Nat /\ outbox'[call[1]].attempts \in Nat
      BY <2>1 DEF TypeOK, OutboxRow
    <2>. QED BY <2>1, <2>2, <2>3
  <1>3. AttemptsBehindRow'
    BY <1>1, <1>2 DEF AttemptsBehindRow
  <1>4. OneDispatcherPerAttempt'
    BY DEF OneDispatcherPerAttempt, Handling
  <1>. QED BY <1>3, <1>4

\* A claim that wins holds an attempt nobody holds and no handler has seen.
LEMMA ClaimIsFresh ==
  ASSUME TypeOK, TypeOK', AttemptsBehindRow, OneDispatcherPerAttempt,
         NEW d \in Dispatchers, NEW c \in due[d], TryClaim(d, c), Won(c)
  PROVE  AttemptsBehindRow' /\ OneDispatcherPerAttempt'
  <1>0. /\ c.key \in Keys /\ c.attempts \in Nat /\ outbox[c.key].attempts = c.attempts
        /\ called' = called /\ row' = [row EXCEPT ![d] = c] /\ pc' = [pc EXCEPT ![d] = "handle"]
        /\ outbox' = [outbox EXCEPT ![c.key] =
              [state |-> "pending", attempts |-> c.attempts + 1, next |-> LeaseEnd(d)]]
        /\ pc[d] = "next"
    BY DEF TypeOK, Copy, TryClaim, Won, Goto
  <1>1. /\ row'[d] = c /\ pc'[d] = "handle" /\ outbox'[c.key].attempts = c.attempts + 1
        /\ \A e \in Dispatchers : e # d => row'[e] = row[e] /\ pc'[e] = pc[e]
        /\ \A k \in Keys : k # c.key => outbox'[k] = outbox[k]
    BY <1>0 DEF TypeOK
  <1>2. \A e \in Dispatchers : row[e].key \in Keys /\ row[e].attempts \in Nat
    BY DEF TypeOK, Copy
  <1>3. \A e \in Dispatchers : e # d /\ Handling(e)' =>
          /\ Handling(e)
          /\ row[e].attempts < outbox[row[e].key].attempts
    BY <1>1 DEF Handling, AttemptsBehindRow
  <1>4. \A e \in Dispatchers : Handling(e)' => row'[e].attempts < outbox'[row'[e].key].attempts
    <2>1. ASSUME NEW e \in Dispatchers, Handling(e)', e # d
          PROVE  row'[e].attempts < outbox'[row'[e].key].attempts
      <3>1. CASE row[e].key = c.key
        BY <1>0, <1>1, <1>2, <1>3, <2>1, <3>1
      <3>2. CASE row[e].key # c.key
        BY <1>0, <1>1, <1>2, <1>3, <2>1, <3>2
      <3>. QED BY <3>1, <3>2
    <2>2. row'[d].attempts < outbox'[row'[d].key].attempts
      BY <1>0, <1>1
    <2>. QED BY <2>1, <2>2
  <1>5. ASSUME NEW call \in called PROVE call[2] <= outbox'[call[1]].attempts
    <2>1. call[1] \in Keys /\ call[2] \in Nat /\ call[2] <= outbox[call[1]].attempts
      BY DEF TypeOK, AttemptsBehindRow
    <2>2. CASE call[1] = c.key
      BY <1>0, <1>1, <2>1, <2>2
    <2>3. CASE call[1] # c.key
      BY <1>1, <2>1, <2>3
    <2>. QED BY <2>2, <2>3
  <1>6. AttemptsBehindRow'
    BY <1>0, <1>4, <1>5 DEF AttemptsBehindRow
  <1>7. \A e \in Dispatchers : e # d /\ Handling(e)' =>
          row[e].key # c.key \/ row[e].attempts # c.attempts
    BY <1>0, <1>2, <1>3
  <1>8. <<c.key, c.attempts + 1>> \notin called
    <2>1. SUFFICES ASSUME <<c.key, c.attempts + 1>> \in called PROVE FALSE
      OBVIOUS
    <2>2. c.attempts + 1 <= outbox[c.key].attempts
      BY <2>1 DEF AttemptsBehindRow
    <2>. QED BY <1>0, <2>2
  <1>9. OneDispatcherPerAttempt'
    <2>1. ASSUME NEW e \in Dispatchers, NEW f \in Dispatchers, Handling(e)', Handling(f)',
                 row'[e].key = row'[f].key, row'[e].attempts = row'[f].attempts
          PROVE  e = f
      <3>1. CASE e # d /\ f # d
        BY <1>1, <1>3, <2>1, <3>1 DEF OneDispatcherPerAttempt
      <3>2. CASE e = d \/ f = d
        BY <1>1, <1>7, <2>1, <3>2
      <3>. QED BY <3>1, <3>2
    <2>2. ASSUME NEW e \in Dispatchers, pc'[e] = "handle"
          PROVE  <<row'[e].key, row'[e].attempts + 1>> \notin called'
      BY <1>0, <1>1, <1>8, <2>2 DEF OneDispatcherPerAttempt
    <2>. QED BY <2>1, <2>2 DEF OneDispatcherPerAttempt
  <1>. QED BY <1>6, <1>9

\* A handler call uses up the attempt of the pass that makes it.
LEMMA CallIsCounted ==
  ASSUME TypeOK, TypeOK', AttemptsBehindRow, OneDispatcherPerAttempt,
         NEW d \in Dispatchers, HandlerAccepts(d) \/ HandlerRefuses(d)
  PROVE  AttemptsBehindRow' /\ OneDispatcherPerAttempt'
  <1>0. /\ outbox' = outbox /\ row' = row /\ pc[d] = "handle" /\ pc'[d] # "handle"
        /\ Handling(d) /\ \A e \in Dispatchers : e # d => pc'[e] = pc[e]
        /\ called' = called \cup {<<row[d].key, row[d].attempts + 1>>}
    BY DEF HandlerAccepts, HandlerRefuses, Called, Goto, Handling, TypeOK
  <1>1. \A e \in Dispatchers : Handling(e)' => Handling(e)
    BY <1>0 DEF Handling
  <1>2. row[d].attempts + 1 <= outbox[row[d].key].attempts
    <2>1. row[d].attempts < outbox[row[d].key].attempts
      BY <1>0 DEF AttemptsBehindRow
    <2>2. row[d].attempts \in Nat /\ outbox[row[d].key].attempts \in Nat
      BY DEF TypeOK, Copy, OutboxRow
    <2>. QED BY <2>1, <2>2
  <1>3. AttemptsBehindRow'
    BY <1>0, <1>1, <1>2 DEF AttemptsBehindRow
  <1>4. ASSUME NEW e \in Dispatchers, pc'[e] = "handle"
        PROVE  <<row'[e].key, row'[e].attempts + 1>> \notin called'
    <2>1. e # d /\ pc[e] = "handle" /\ Handling(e)
      BY <1>0, <1>4 DEF Handling
    <2>2. row[e].key # row[d].key \/ row[e].attempts # row[d].attempts
      BY <1>0, <2>1 DEF OneDispatcherPerAttempt
    <2>3. row[e].attempts \in Nat /\ row[d].attempts \in Nat
      BY DEF TypeOK, Copy
    <2>4. <<row[e].key, row[e].attempts + 1>> \notin called
      BY <2>1 DEF OneDispatcherPerAttempt
    <2>. QED BY <1>0, <2>2, <2>3, <2>4
  <1>5. OneDispatcherPerAttempt'
    BY <1>0, <1>1, <1>4 DEF OneDispatcherPerAttempt
  <1>. QED BY <1>3, <1>5

\* Every step keeps attempts behind their rows and in one pass's hands.
LEMMA AttemptsStep ==
  TypeOK /\ TypeOK' /\ AttemptsBehindRow /\ OneDispatcherPerAttempt /\ [Next]_vars
    => AttemptsBehindRow' /\ OneDispatcherPerAttempt'
  <1> SUFFICES ASSUME TypeOK, TypeOK', AttemptsBehindRow, OneDispatcherPerAttempt, [Next]_vars
               PROVE  AttemptsBehindRow' /\ OneDispatcherPerAttempt'
    OBVIOUS
  <1>0. \A k \in Keys : outbox[k].attempts \in Nat
    BY DEF TypeOK, OutboxRow
  <1>1. CASE UNCHANGED vars
    BY <1>0, <1>1, NoNewClaim DEF vars, local, Handling
  <1>2. ASSUME NEW k \in Keys, Enqueue(k) PROVE AttemptsBehindRow' /\ OneDispatcherPerAttempt'
    <2>1. \A j \in Keys : outbox'[j].attempts = outbox[j].attempts
      BY <1>2 DEF Enqueue, NOROW, TypeOK
    <2>. QED BY <1>0, <1>2, <2>1, NoNewClaim DEF Enqueue, local, Handling
  <1>3. CASE Advance
    BY <1>0, <1>3, NoNewClaim DEF Advance, local, Handling
  <1>4. ASSUME NEW d \in Dispatchers, ListDue(d) \/ EndDispatch(d) \/ NoHandler(d) \/ Fault(d)
        PROVE  AttemptsBehindRow' /\ OneDispatcherPerAttempt'
    <2>1. outbox' = outbox /\ called' = called
      BY <1>4 DEF ListDue, EndDispatch, NoHandler, Fault, ClaimFails, MarkFails, OutOfTime,
                  Crash, Overrun
    <2>2. \A e \in Dispatchers : Handling(e)' =>
            Handling(e) /\ row'[e] = row[e] /\ (pc'[e] = "handle" => pc[e] = "handle")
      BY <1>4 DEF ListDue, EndDispatch, NoHandler, AfterNoHandler, Fault, ClaimFails, MarkFails,
                  OutOfTime, Crash, Overrun, Goto, Gone, NextRow, Handling, TypeOK, local
    <2>. QED BY <1>0, <2>1, <2>2, NoNewClaim
  <1>5. ASSUME NEW d \in Dispatchers, NEW c \in due[d], TryClaim(d, c)
        PROVE  AttemptsBehindRow' /\ OneDispatcherPerAttempt'
    <2>1. CASE Won(c)
      BY <1>5, <2>1, ClaimIsFresh
    <2>2. CASE ~Won(c)
      BY <1>0, <1>5, <2>2, NoNewClaim DEF TryClaim, Handling
    <2>. QED BY <2>1, <2>2
  <1>6. ASSUME NEW d \in Dispatchers, MarkDispatched(d) \/ MarkFailed(d)
        PROVE  AttemptsBehindRow' /\ OneDispatcherPerAttempt'
    <2>1. called' = called /\ \A k \in Keys : outbox'[k].attempts = outbox[k].attempts
      BY <1>6 DEF MarkDispatched, MarkFailed, TypeOK, OutboxRow
    <2>2. \A e \in Dispatchers : Handling(e)' =>
            Handling(e) /\ row'[e] = row[e] /\ (pc'[e] = "handle" => pc[e] = "handle")
      BY <1>6 DEF MarkDispatched, MarkFailed, Goto, NextRow, Handling, TypeOK
    <2>. QED BY <1>0, <2>1, <2>2, NoNewClaim
  <1>. QED BY <1>1, <1>2, <1>3, <1>4, <1>5, <1>6, CallIsCounted DEF Next, Progress

\* No pass, no attempt.
LEMMA InitAttempts == Init => AttemptsBehindRow /\ OneDispatcherPerAttempt
  BY DEF Init, AttemptsBehindRow, OneDispatcherPerAttempt, Handling

\* No attempt at a row is made by two passes, nor shown to a handler twice.
THEOREM ClaimsCorrect == Spec => []OneDispatcherPerAttempt
  <1>1. Spec => [](AttemptsBehindRow /\ OneDispatcherPerAttempt)
    BY InitAttempts, AttemptsStep, TypeCorrect, PTL DEF Spec
  <1>. QED BY <1>1, PTL

-----------------------------------------------------------------------------
(* What becomes of a row. *)

\* Every step keeps what is known of dispatched and of dead rows.
LEMMA FateStep ==
  TypeOK /\ AcceptedIsRecorded /\ DispatchedWasAccepted /\ DeadHadItsAttempts /\ [Next]_vars
    => AcceptedIsRecorded' /\ DispatchedWasAccepted' /\ DeadHadItsAttempts'
  <1> SUFFICES ASSUME TypeOK, AcceptedIsRecorded, DispatchedWasAccepted, DeadHadItsAttempts,
                      [Next]_vars
               PROVE  AcceptedIsRecorded' /\ DispatchedWasAccepted' /\ DeadHadItsAttempts'
    OBVIOUS
  <1> USE DEF AcceptedIsRecorded, DispatchedWasAccepted, DeadHadItsAttempts
  <1>1. CASE UNCHANGED vars
    BY <1>1 DEF vars, local
  <1>2. ASSUME NEW k \in Keys, Enqueue(k)
        PROVE  AcceptedIsRecorded' /\ DispatchedWasAccepted' /\ DeadHadItsAttempts'
    BY <1>2 DEF Enqueue, TypeOK, local
  <1>3. CASE Advance
    BY <1>3 DEF Advance, local
  <1>4. ASSUME NEW d \in Dispatchers, ListDue(d) \/ EndDispatch(d) \/ NoHandler(d)
                 \/ HandlerAccepts(d) \/ HandlerRefuses(d) \/ Fault(d)
        PROVE  AcceptedIsRecorded' /\ DispatchedWasAccepted' /\ DeadHadItsAttempts'
    <2>1. outbox' = outbox /\ accepted \subseteq accepted'
      BY <1>4 DEF ListDue, EndDispatch, NoHandler, HandlerAccepts, HandlerRefuses, Fault,
                  ClaimFails, MarkFails, OutOfTime, Crash, Overrun
    <2>2. \A e \in Dispatchers : pc'[e] = "accepted" =>
            row'[e] = row[e] /\ (pc[e] = "accepted" \/ row[e].key \in accepted')
      BY <1>4 DEF ListDue, EndDispatch, NoHandler, AfterNoHandler, HandlerAccepts,
                  HandlerRefuses, Fault, ClaimFails, MarkFails, OutOfTime, Crash, Overrun,
                  Goto, Gone, NextRow, TypeOK, local
    <2>. QED BY <2>1, <2>2
  <1>5. ASSUME NEW d \in Dispatchers, NEW c \in due[d], TryClaim(d, c)
        PROVE  AcceptedIsRecorded' /\ DispatchedWasAccepted' /\ DeadHadItsAttempts'
    <2>1. c.key \in Keys /\ accepted' = accepted
      BY <1>5 DEF TryClaim, TypeOK, Copy
    <2>2. \A e \in Dispatchers : pc'[e] = "accepted" => pc[e] = "accepted" /\ row'[e] = row[e]
      BY <1>5 DEF TryClaim, TypeOK, Goto
    <2>3. \A k \in Keys : outbox'[k] = outbox[k] \/ outbox'[k].state = "pending"
      BY <1>5, <2>1 DEF TryClaim, TypeOK
    <2>. QED BY <2>1, <2>2, <2>3
  <1>6. ASSUME NEW d \in Dispatchers, MarkDispatched(d) \/ MarkFailed(d)
        PROVE  AcceptedIsRecorded' /\ DispatchedWasAccepted' /\ DeadHadItsAttempts'
    <2>1. /\ accepted' = accepted /\ row[d].key \in Keys
          /\ \A k \in Keys : k # row[d].key => outbox'[k] = outbox[k]
      BY <1>6 DEF MarkDispatched, MarkFailed, TypeOK, Copy
    <2>2. \A e \in Dispatchers : pc'[e] = "accepted" => pc[e] = "accepted" /\ row'[e] = row[e]
      BY <1>6 DEF MarkDispatched, MarkFailed, NextRow, Goto, TypeOK
    <2>3. CASE MarkDispatched(d)
      <3>1. outbox'[row[d].key].state = "dispatched" /\ row[d].key \in accepted
        BY <2>1, <2>3 DEF MarkDispatched, TypeOK, OutboxRow
      <3>. QED BY <2>1, <2>2, <3>1
    <2>4. CASE MarkFailed(d)
      <3>1. /\ outbox'[row[d].key].attempts = outbox[row[d].key].attempts
            /\ outbox'[row[d].key].state # "dispatched"
            /\ outbox'[row[d].key].state = "dead" => Exhausted(row[d].key)
        BY <2>1, <2>4 DEF MarkFailed, TypeOK
      <3>. QED BY <2>1, <2>2, <3>1 DEF Exhausted
    <2>. QED BY <1>6, <2>3, <2>4
  <1>. QED BY <1>1, <1>2, <1>3, <1>4, <1>5, <1>6 DEF Next, Progress

\* No row, no fate.
LEMMA InitFate == Init => AcceptedIsRecorded /\ DispatchedWasAccepted /\ DeadHadItsAttempts
  BY DEF Init, NOROW, AcceptedIsRecorded, DispatchedWasAccepted, DeadHadItsAttempts

\* Dispatched rows were accepted and dead rows exhausted, in every reachable state.
LEMMA AlwaysFate == Spec => [](AcceptedIsRecorded /\ DispatchedWasAccepted /\ DeadHadItsAttempts)
  BY InitFate, FateStep, TypeCorrect, PTL DEF Spec

\* A dispatched row is one whose handler said yes.
THEOREM NothingIsDropped == Spec => []DispatchedWasAccepted
  BY AlwaysFate, PTL

\* A buried row has had all its attempts.
THEOREM NothingIsBuriedEarly == Spec => []DeadHadItsAttempts
  BY AlwaysFate, PTL

\* The inductive invariant, for every instance.
THEOREM InductiveInvariant == Spec => []Inv
  <1>1. Spec => [](AttemptsBehindRow /\ OneDispatcherPerAttempt)
    BY InitAttempts, AttemptsStep, TypeCorrect, PTL DEF Spec
  <1>2. TypeOK /\ AttemptsBehindRow /\ OneDispatcherPerAttempt
          /\ AcceptedIsRecorded /\ DispatchedWasAccepted /\ DeadHadItsAttempts => Inv
    BY DEF Inv
  <1>. QED BY <1>1, <1>2, TypeCorrect, AlwaysFate, PTL
=============================================================================
