----------------------- MODULE WorkspaceDeletionProofs -----------------------
(***************************************************************************)
(* Proofs about WorkspaceDeletion, for any number of workspaces whose      *)
(* requests, cancellations and deletions overlap on one index.  A request  *)
(* that was cancelled before its day is never started (Bookings, DueNow),  *)
(* is announced once (Announcements), and a step that is done has left     *)
(* nothing behind (Emptied).                                               *)
(***************************************************************************)
EXTENDS WorkspaceDeletion, TLAPS

Booking == [due : Nat, request : Nat]
Announcement == [request : Nat, left : [Kinds -> Nat], heard : BOOLEAN]

\* The pass has begun to delete a workspace, and is not done with it.
UnderWay == tick.at \in {"step", "checkpoint", "announce", "send", "clear", "unlink"}

Typed ==
    /\ now \in Nat /\ requests \in Nat
    /\ record \in [Workspaces -> Booking \cup {None}]
    /\ front = [ws \in Workspaces |-> front[ws]]
    /\ checkpoint = [ws \in Workspaces |-> checkpoint[ws]]
    /\ rows \in [Workspaces -> [Kinds -> Nat]]
    /\ announced \in Seq(Announcement)
    /\ tick.at # "idle" => tick.began \in Nat /\ tick.began <= now
    /\ UnderWay => tick.ws \in Workspaces /\ tick.request \in Nat

\* A record is of a request of its own, and nobody has cancelled that in time.
Bookings ==
    /\ kept \subseteq 1..requests
    /\ \A ws \in Workspaces : record[ws] # None =>
           record[ws].request \in 1..requests /\ record[ws].request \notin kept
    /\ \A v, w \in Workspaces :
           record[v] # None /\ record[w] # None /\ record[v].request = record[w].request => v = w

\* What is under way has come to its day, and so has its record.
DueNow == UnderWay =>
    /\ tick.request \in 1..requests /\ tick.request \notin kept
    /\ \A ws \in Workspaces :
           record[ws] # None /\ record[ws].request = tick.request => record[ws].due <= now

\* Whoever sends holds the claim, and has not heard that a message was accepted.
Announcements ==
    /\ \A i \in DOMAIN announced : announced[i].request \in claimed
    /\ tick.at = "send" =>
           /\ tick.request \in claimed
           /\ \A i \in DOMAIN announced :
                  announced[i].request = tick.request => ~announced[i].heard
    /\ AnnouncedOnce

Emptied ==
    /\ tick.at = "checkpoint" /\ Step \in Purges => rows[tick.ws][PURGE_TARGETS[Step]] = 0
    /\ DoneIsEmpty

IInv == Typed /\ Bookings /\ DueNow /\ Announcements

\* A pass that has failed no step has found or written the checkpoint of every step before
\* the one it is at, and one that announces has them all.
Progress ==
    /\ tick.at \in {"step", "checkpoint"} =>
           /\ tick.step \in 1..Len(DELETION_STEP)
           /\ tick.complete =>
                  \A n \in 1..(tick.step - 1) : DELETION_STEP[n] \in checkpoint[tick.ws]
    /\ tick.at \in {"announce", "send"} => Steps \subseteq checkpoint[tick.ws]

\* What a step clears that is not the table it purges.
Clear(held, step) ==
    /\ step = "revoke_credentials" => held["credentials"] = 0
    /\ step = "purge_workflows" => held["due"] = 0

Cleared ==
    /\ tick.at = "checkpoint" => Clear(rows[tick.ws], Step)
    /\ \A ws \in Workspaces : \A step \in checkpoint[ws] : Clear(rows[ws], step)

\* The workspace is used meanwhile as the code lets it be once its work is stopped: members
\* sign in, and a tick that held a run writes it a new time to be looked at.
LateUse == Uses \subseteq {"sessions", "due"}

-----------------------------------------------------------------------------
(* The steps of the plan *)

\* A step only removes rows.
LEMMA EffectRemoves ==
  ASSUME NEW held \in [Kinds -> Nat], NEW step
  PROVE  /\ Effect(held, step) \in [Kinds -> Nat]
         /\ \A kind \in Kinds : Effect(held, step)[kind] <= held[kind]
<1>1. \A kinds : /\ Without(held, kinds) \in [Kinds -> Nat]
                 /\ \A kind \in Kinds : Without(held, kinds)[kind] <= held[kind]
  BY DEF Without
<1>2. ASSUME step \in Purges
      PROVE  /\ Purged(held, PURGE_TARGETS[step]) \in [Kinds -> Nat]
             /\ \A kind \in Kinds : Purged(held, PURGE_TARGETS[step])[kind] <= held[kind]
  <2>. DEFINE target == PURGE_TARGETS[step]
              rest == IF held[target] > Ceiling THEN held[target] - Ceiling ELSE 0
              left == [held EXCEPT ![target] = rest]
  <2>1. target \in Kinds
    BY <1>2 DEF Kinds
  <2>2. rest \in Nat /\ rest <= held[target]
    BY <2>1, DaysAssumption
  <2>. HIDE DEF rest
  <2>3. left \in [Kinds -> Nat] /\ \A kind \in Kinds : left[kind] <= held[kind]
    BY <2>1, <2>2
  <2>. HIDE DEF left
  <2>4. \A kinds : /\ Without(left, kinds) \in [Kinds -> Nat]
                   /\ \A kind \in Kinds : Without(left, kinds)[kind] <= left[kind]
    BY <2>3 DEF Without
  <2>5. \A kinds : \A kind \in Kinds : Without(left, kinds)[kind] <= held[kind]
    <3>. SUFFICES ASSUME NEW kinds, NEW kind \in Kinds
                  PROVE  Without(left, kinds)[kind] <= held[kind]
      OBVIOUS
    <3>. QED BY <2>3 DEF Without
  <2>6. \/ Purged(held, target) = left
        \/ \E kinds : Purged(held, target) = Without(left, kinds)
    BY DEF Purged, rest, left
  <2>. QED BY <2>3, <2>4, <2>5, <2>6
<1>. QED BY <1>1, <1>2 DEF Effect

\* A batch that finds less than the ceiling leaves nothing.
LEMMA FoundEmptyLeavesNothing ==
  ASSUME NEW held \in [Kinds -> Nat], NEW step \in Purges,
         FoundEmpty(held, PURGE_TARGETS[step])
  PROVE  Effect(held, step)[PURGE_TARGETS[step]] = 0
<1>. DEFINE target == PURGE_TARGETS[step]
            left == [held EXCEPT ![target] = 0]
<1>1. target \in Kinds
  BY DEF Kinds
<1>2. ~(held[target] > Ceiling)
  BY <1>1, DaysAssumption DEF FoundEmpty
<1>3. Effect(held, step) = Purged(held, target)
  <2>1. step \notin {"revoke_sessions", "revoke_credentials", "stop_scheduled_work"}
    BY DEF Purges, PURGE_TARGETS
  <2>. QED BY <2>1 DEF Effect
<1>4. \/ Purged(held, target) = left
      \/ \E kinds : Purged(held, target) = Without(left, kinds)
  BY <1>2 DEF Purged
<1>5. left[target] = 0 /\ \A kinds : Without(left, kinds)[target] = 0
  BY <1>1 DEF Without
<1>. QED BY <1>3, <1>4, <1>5

-----------------------------------------------------------------------------
(* Where a pass can have come from *)

\* A notice under way: it is claimed and then sent, for the workspace and the request the
\* pass is at, or the pass goes on.
LEMMA Noticing ==
  ASSUME Claim \/ ClaimFails \/ Accepted \/ NotAccepted \/ AnswerLost
  PROVE  /\ tick.at \in {"announce", "send"} /\ tick'.at \in {"send", "clear"}
         /\ tick'.ws = tick.ws /\ tick'.request = tick.request /\ tick'.began = tick.began
<1>. DEFINE Kept == tick'.ws = tick.ws /\ tick'.request = tick.request /\ tick'.began = tick.began
<1>1. ASSUME NEW attempt, tick' = Sending(attempt) PROVE tick'.at = "send" /\ Kept
  BY <1>1 DEF Sending
<1>2. ASSUME Then("clear") PROVE tick'.at = "clear" /\ Kept
  BY <1>2 DEF Then, Stage
<1>3. tick.at \in {"announce", "send"}
  BY DEF Claim, ClaimFails, Accepted, NotAccepted, AnswerLost
<1>4. Then("clear") \/ \E attempt : tick' = Sending(attempt)
  BY DEF Claim, ClaimFails, Accepted, NotAccepted, AnswerLost, Retry
<1>. HIDE DEF Kept
<1>5. tick'.at \in {"send", "clear"} /\ Kept
  BY <1>1, <1>2, <1>4
<1>. QED BY <1>3, <1>5 DEF Kept

\* A pass under way went on with the same workspace and request, or has just looked at a
\* workspace whose day has come.
LEMMA PassMoves ==
  ASSUME [Next]_vars, UnderWay'
  PROVE  \/ UnderWay /\ tick'.request = tick.request /\ tick'.ws = tick.ws
         \/ \E ws \in Workspaces :
                /\ tick.at = "look" /\ record[ws] # None /\ ~(tick.began < record[ws].due)
                /\ tick'.request = record[ws].request /\ tick'.ws = ws
                /\ UNCHANGED <<record, kept, requests, now>>
<1>1. CASE Pass
  <2>1. CASE BeginPass
    BY <2>1 DEF BeginPass, Turn, Idle, UnderWay
  <2>2. CASE \E ws \in Workspaces : Look(ws)
    BY <2>2 DEF Look, Start, Leave, Onwards, Turn, Idle, UnderWay, schedule, bounds
  <2>3. CASE AlreadyDone
    BY <2>3 DEF AlreadyDone, Advance, Stage, Turn, Idle, UnderWay
  <2>4. CASE RunStep
    BY <2>4 DEF RunStep, Advance, Then, Stage, Turn, Idle, UnderWay
  <2>5. CASE WriteCheckpoint
    BY <2>5 DEF WriteCheckpoint, Advance, Stage, Turn, Idle, UnderWay
  <2>6. CASE Claim \/ Accepted \/ NotAccepted
    BY <2>6, Noticing DEF UnderWay
  <2>8. CASE ClearDone \/ UnlinkDone
    BY <2>8 DEF ClearDone, UnlinkDone, Then, Stage, Idle, UnderWay
  <2>7. CASE ReadIndexDone \/ WriteIndexDone
    BY <2>7 DEF ReadIndexDone, WriteIndexDone, Turn, Idle, UnderWay
  <2>. QED BY <1>1, <2>1, <2>2, <2>3, <2>4, <2>5, <2>6, <2>7, <2>8 DEF Pass
<1>2. CASE StepFails
  BY <1>2 DEF StepFails, Advance, Stage, Turn, Idle, UnderWay
<1>6. CASE ClaimFails \/ AnswerLost
  BY <1>6, Noticing DEF UnderWay
<1>3. CASE PassDies
  BY <1>3 DEF PassDies, Idle, UnderWay
<1>4. CASE tick' = tick
  BY <1>4 DEF UnderWay
<1>5. ~Pass /\ ~StepFails /\ ~ClaimFails /\ ~AnswerLost /\ ~PassDies => tick' = tick
  BY DEF Next, vars, Request, Proceed, GiveUp, Cancel, Use, Tomorrow, WriteLink, ReadIndex,
         WriteIndex, ClearRecord, ClearLink
<1>. QED BY <1>1, <1>2, <1>3, <1>4, <1>5, <1>6

\* A pass keeps the moment it began at.
LEMMA PassKeepsItsTime ==
  ASSUME Typed, [Next]_vars, tick'.at # "idle"
  PROVE  \/ tick.at # "idle" /\ tick'.began = tick.began
         \/ tick'.began = now
<1>1. CASE Pass
  <2>1. CASE BeginPass
    BY <2>1 DEF BeginPass, Turn, Idle
  <2>2. CASE \E ws \in Workspaces : Look(ws)
    BY <2>2 DEF Look, Start, Leave, Onwards, Turn, Idle
  <2>3. CASE AlreadyDone \/ RunStep \/ WriteCheckpoint
    BY <2>3 DEF AlreadyDone, RunStep, WriteCheckpoint, Advance, Then, Stage, Turn, Idle
  <2>4. CASE ClearDone \/ UnlinkDone
    BY <2>4 DEF ClearDone, UnlinkDone, Then, Stage
  <2>6. CASE Claim \/ Accepted \/ NotAccepted
    BY <2>6, Noticing
  <2>5. CASE ReadIndexDone \/ WriteIndexDone
    BY <2>5 DEF ReadIndexDone, WriteIndexDone, Turn, Idle
  <2>. QED BY <1>1, <2>1, <2>2, <2>3, <2>4, <2>5, <2>6 DEF Pass
<1>2. CASE StepFails
  BY <1>2 DEF StepFails, Advance, Stage, Turn, Idle
<1>4. CASE ClaimFails \/ AnswerLost
  BY <1>4, Noticing
<1>3. CASE PassDies
  BY <1>3 DEF PassDies, Idle
<1>5. ~Pass /\ ~StepFails /\ ~ClaimFails /\ ~AnswerLost /\ ~PassDies => tick' = tick
  BY DEF Next, vars, Request, Proceed, GiveUp, Cancel, Use, Tomorrow, WriteLink, ReadIndex,
         WriteIndex, ClearRecord, ClearLink
<1>. QED BY <1>1, <1>2, <1>3, <1>4, <1>5

\* Nobody sends but a pass that is at it, and it goes on sending only when it heard nothing.
LEMMA Sends ==
  ASSUME [Next]_vars, announced' # announced
  PROVE  \E heard \in BOOLEAN : /\ tick.at = "send" /\ Accept(heard)
                                /\ tick'.at = "send" => ~heard
<1>1. CASE Accepted
  BY <1>1 DEF Accepted, Then, Stage
<1>2. CASE AnswerLost
  BY <1>2 DEF AnswerLost
<1>3. ~Accepted /\ ~AnswerLost => announced' = announced
  BY DEF Next, vars, Request, Proceed, GiveUp, Cancel, Use, Tomorrow, WriteLink, ReadIndex,
         WriteIndex, ClearRecord, ClearLink, Pass, BeginPass, Look, AlreadyDone, RunStep,
         WriteCheckpoint, Claim, ClaimFails, NotAccepted, ClearDone, UnlinkDone,
         ReadIndexDone, WriteIndexDone, StepFails, PassDies, effects
<1>. QED BY <1>1, <1>2, <1>3

-----------------------------------------------------------------------------
(* Types *)

LEMMA InitTyped == Init => Typed
BY HoldingAssumption DEF Init, Typed, Idle, UnderWay

LEMMA TypedStep == Typed /\ [Next]_vars => Typed'
<1>. SUFFICES ASSUME Typed, [Next]_vars PROVE Typed'
  OBVIOUS
<1>. USE DEF schedule, effects, bounds
<1>1. now' \in Nat /\ requests' \in Nat /\ now <= now' /\ requests <= requests'
  <2>1. CASE Tomorrow
    BY <2>1 DEF Tomorrow, Typed
  <2>2. CASE \E ws \in Workspaces : Request(ws)
    BY <2>2 DEF Request, Typed
  <2>3. ~Tomorrow /\ ~(\E ws \in Workspaces : Request(ws))
           => UNCHANGED <<now, requests>>
    BY DEF Next, vars, Proceed, GiveUp, Cancel, Use, WriteLink, ReadIndex, WriteIndex,
           ClearRecord, ClearLink, Pass, BeginPass, Look, AlreadyDone, RunStep,
           WriteCheckpoint, Claim, ClaimFails, Accepted, NotAccepted, AnswerLost, ClearDone, UnlinkDone, ReadIndexDone, WriteIndexDone,
           StepFails, PassDies
  <2>. QED BY <2>1, <2>2, <2>3 DEF Typed
<1>2. record' \in [Workspaces -> Booking \cup {None}]
  <2>1. CASE \E ws \in Workspaces : Request(ws)
    <3>1. PICK ws \in Workspaces : Request(ws)
      BY <2>1
    <3>2. [due |-> now + Grace, request |-> requests + 1] \in Booking
      BY DaysAssumption DEF Typed, Booking
    <3>. QED BY <3>1, <3>2 DEF Request, Typed
  <2>2. CASE \E ws \in Workspaces : ClearRecord(ws)
    BY <2>2 DEF ClearRecord, Typed
  <2>3. CASE ClearDone
    BY <2>3 DEF ClearDone, Typed
  <2>4. ~(\E ws \in Workspaces : Request(ws) \/ ClearRecord(ws)) /\ ~ClearDone
           => record' = record
    BY DEF Next, vars, Proceed, GiveUp, Cancel, Use, Tomorrow, WriteLink, ReadIndex,
           WriteIndex, ClearLink, Pass, BeginPass, Look, AlreadyDone, RunStep,
           WriteCheckpoint, Claim, ClaimFails, Accepted, NotAccepted, AnswerLost, UnlinkDone, ReadIndexDone, WriteIndexDone,
           StepFails, PassDies
  <2>. QED BY <2>1, <2>2, <2>3, <2>4 DEF Typed
<1>3. (front = [ws \in Workspaces |-> front[ws]])'
  BY DEF Typed, Next, vars, Request, Proceed, GiveUp, Cancel, Use, Tomorrow, WriteLink,
         ReadIndex, WriteIndex, ClearRecord, ClearLink, Wait, Pass, BeginPass, Look,
         AlreadyDone, RunStep, WriteCheckpoint, Claim, ClaimFails, Accepted, NotAccepted, AnswerLost, ClearDone, UnlinkDone,
         ReadIndexDone, WriteIndexDone, StepFails, PassDies
<1>4. (checkpoint = [ws \in Workspaces |-> checkpoint[ws]])'
  BY DEF Typed, Next, vars, Request, Proceed, GiveUp, Cancel, Use, Tomorrow, WriteLink,
         ReadIndex, WriteIndex, ClearRecord, ClearLink, Pass, BeginPass, Look,
         AlreadyDone, RunStep, WriteCheckpoint, Claim, ClaimFails, Accepted, NotAccepted, AnswerLost, ClearDone, UnlinkDone,
         ReadIndexDone, WriteIndexDone, StepFails, PassDies
<1>5. rows' \in [Workspaces -> [Kinds -> Nat]]
  <2>1. CASE RunStep
    <3>1. tick.ws \in Workspaces
      BY <2>1 DEF RunStep, Typed, UnderWay
    <3>2. Effect(rows[tick.ws], Step) \in [Kinds -> Nat]
      BY <3>1, EffectRemoves DEF Typed
    <3>. QED BY <2>1, <3>2 DEF RunStep, Typed
  <2>2. ASSUME NEW ws \in Workspaces, NEW kind \in Uses, Use(ws, kind)
        PROVE  rows' \in [Workspaces -> [Kinds -> Nat]]
    <3>1. rows[ws] \in [Kinds -> Nat]
      BY DEF Typed
    <3>2. OneMore(rows[ws], kind) \in [Kinds -> Nat]
      <4>1. OneMore(rows[ws], kind) =
              [k \in Kinds |-> IF k = kind THEN rows[ws][k] + 1 ELSE rows[ws][k]]
        BY <3>1 DEF OneMore
      <4>. QED BY <3>1, <4>1
    <3>. QED BY <2>2, <3>2 DEF Use, Typed
  <2>3. ~RunStep /\ ~(\E ws \in Workspaces : \E kind \in Uses : Use(ws, kind))
           => rows' = rows
    BY DEF Next, vars, Request, Proceed, GiveUp, Cancel, Tomorrow, WriteLink, ReadIndex,
           WriteIndex, ClearRecord, ClearLink, Pass, BeginPass, Look, AlreadyDone,
           WriteCheckpoint, Claim, ClaimFails, Accepted, NotAccepted, AnswerLost, ClearDone, UnlinkDone, ReadIndexDone, WriteIndexDone,
           StepFails, PassDies
  <2>. QED BY <2>1, <2>2, <2>3 DEF Typed
<1>6. announced' \in Seq(Announcement)
  <2>1. ASSUME NEW heard \in BOOLEAN, tick.at = "send", Accept(heard)
        PROVE  announced' \in Seq(Announcement)
    <3>1. [request |-> tick.request, left |-> rows[tick.ws], heard |-> heard] \in Announcement
      BY <2>1 DEF Typed, UnderWay, Announcement
    <3>. QED BY <2>1, <3>1 DEF Accept, Typed
  <2>. QED BY <2>1, Sends DEF Typed
<1>7. (tick.at # "idle" => tick.began \in Nat /\ tick.began <= now)'
  BY <1>1, PassKeepsItsTime DEF Typed
<1>8. (UnderWay => tick.ws \in Workspaces /\ tick.request \in Nat)'
  BY PassMoves DEF Typed, Booking
<1>. QED BY <1>1, <1>2, <1>3, <1>4, <1>5, <1>6, <1>7, <1>8 DEF Typed

-----------------------------------------------------------------------------
(* Requests, cancellations and the day *)

LEMMA InitRest == Init => Bookings /\ DueNow /\ Announcements /\ Emptied
BY DEF Init, Bookings, DueNow, Announcements, Emptied, AnnouncedOnce, DoneIsEmpty, UnderWay, Idle

\* What a step does to a record, and to the requests that were cancelled.
LEMMA Records ==
  ASSUME Typed, [Next]_vars
  PROVE  \/ \E ws \in Workspaces : Request(ws) /\ record[ws] = None
         \/ \E ws \in Workspaces : ClearRecord(ws)
         \/ ClearDone
         \/ UNCHANGED <<record, kept>>
BY DEF Next, vars, Proceed, GiveUp, Cancel, Use, Tomorrow, WriteLink, ReadIndex, WriteIndex,
       ClearLink, Pass, BeginPass, Look, AlreadyDone, RunStep, WriteCheckpoint, Claim, ClaimFails, Accepted, NotAccepted, AnswerLost,
       UnlinkDone, ReadIndexDone, WriteIndexDone, StepFails, PassDies, Request, schedule

LEMMA BookingsStep == Typed /\ Bookings /\ [Next]_vars => Bookings'
<1>. SUFFICES ASSUME Typed, Bookings, [Next]_vars PROVE Bookings'
  OBVIOUS
<1>0. requests' \in Nat /\ requests <= requests'
  <2>1. CASE \E ws \in Workspaces : Request(ws)
    BY <2>1 DEF Request, Typed
  <2>2. ~(\E ws \in Workspaces : Request(ws)) => requests' = requests
    BY DEF Next, vars, Proceed, GiveUp, Cancel, Use, Tomorrow, WriteLink, ReadIndex,
           WriteIndex, ClearRecord, ClearLink, Pass, BeginPass, Look, AlreadyDone, RunStep,
           WriteCheckpoint, Claim, ClaimFails, Accepted, NotAccepted, AnswerLost, ClearDone, UnlinkDone, ReadIndexDone, WriteIndexDone,
           StepFails, PassDies, bounds
  <2>. QED BY <2>1, <2>2 DEF Typed
<1>1. CASE \E ws \in Workspaces : Request(ws) /\ record[ws] = None
  <2>1. PICK ws \in Workspaces : Request(ws) /\ record[ws] = None
    BY <1>1
  <2>2. /\ kept' = kept /\ requests' = requests + 1
        /\ \A w \in Workspaces : record'[w] =
               IF w = ws THEN [due |-> now + Grace, request |-> requests + 1] ELSE record[w]
    BY <2>1 DEF Request, Typed
  <2>4. /\ requests' \in Nat /\ kept' \subseteq 1..requests'
        /\ requests + 1 \in 1..requests' /\ requests + 1 \notin kept'
    BY <2>2 DEF Bookings, Typed
  <2>5. \A w \in Workspaces : w # ws /\ record[w] # None =>
            /\ record'[w] = record[w] /\ record[w].request # requests + 1
            /\ record[w].request \in 1..requests' /\ record[w].request \notin kept'
    BY <2>2 DEF Bookings, Typed
  <2>6. record'[ws].request = requests + 1
    BY <2>2
  <2>7. \A w \in Workspaces : w # ws => record'[w] = record[w]
    BY <2>2
  <2>8. \A w \in Workspaces : record'[w] # None =>
            record'[w].request \in 1..requests' /\ record'[w].request \notin kept'
    BY <2>4, <2>5, <2>6, <2>7
  <2>9. \A v, w \in Workspaces : record'[v] # None /\ record'[w] # None
            /\ record'[v].request = record'[w].request => v = w
    BY <2>5, <2>6, <2>7 DEF Bookings
  <2>. QED BY <2>4, <2>8, <2>9 DEF Bookings
<1>2. CASE \E ws \in Workspaces : ClearRecord(ws)
  <2>1. PICK ws \in Workspaces : ClearRecord(ws)
    BY <1>2
  <2>2. \A w \in Workspaces : record'[w] = IF w = ws THEN None ELSE record[w]
    BY <2>1 DEF ClearRecord, Typed
  <2>3. \/ kept' = kept
        \/ record[ws] # None /\ kept' = kept \cup {record[ws].request}
    BY <2>1 DEF ClearRecord
  <2>4. requests' = requests
    BY <2>1 DEF ClearRecord, bounds
  <2>. QED BY <2>2, <2>3, <2>4 DEF Bookings, Typed
<1>3. CASE ClearDone
  <2>1. /\ UNCHANGED <<kept, requests>>
        /\ \A w \in Workspaces : record'[w] = IF w = tick.ws THEN None ELSE record[w]
    BY <1>3 DEF ClearDone, Typed, bounds
  <2>. QED BY <2>1 DEF Bookings
<1>4. CASE UNCHANGED <<record, kept>>
  BY <1>0, <1>4 DEF Bookings, Typed
<1>. QED BY <1>1, <1>2, <1>3, <1>4, Records

LEMMA DueNowStep == Typed /\ Bookings /\ DueNow /\ [Next]_vars => DueNow'
<1>. SUFFICES ASSUME Typed, Bookings, DueNow, [Next]_vars, UnderWay'
              PROVE  /\ tick'.request \in 1..requests' /\ tick'.request \notin kept'
                     /\ \A ws \in Workspaces :
                            record'[ws] # None /\ record'[ws].request = tick'.request
                            => record'[ws].due <= now'
  BY DEF DueNow
<1>1. CASE \E ws \in Workspaces :
             /\ tick.at = "look" /\ record[ws] # None /\ ~(tick.began < record[ws].due)
             /\ tick'.request = record[ws].request /\ tick'.ws = ws
             /\ UNCHANGED <<record, kept, requests, now>>
  <2>1. PICK ws \in Workspaces :
             /\ tick.at = "look" /\ record[ws] # None /\ ~(tick.began < record[ws].due)
             /\ tick'.request = record[ws].request /\ tick'.ws = ws
             /\ UNCHANGED <<record, kept, requests, now>>
    BY <1>1
  <2>2. record[ws].due \in Nat /\ record[ws].due <= now
    BY <2>1 DEF Typed, Booking
  <2>. QED BY <2>1, <2>2 DEF Bookings
<1>2. CASE UnderWay /\ tick'.request = tick.request /\ tick'.ws = tick.ws
  <2>1. now' \in Nat /\ now <= now' /\ requests' \in Nat /\ requests <= requests'
    <3>1. now' \in Nat /\ requests' \in Nat
      BY TypedStep DEF Typed
    <3>2. now' = now \/ now' = now + 1
      BY DEF Next, vars, Request, Proceed, GiveUp, Cancel, Use, Tomorrow, WriteLink,
             ReadIndex, WriteIndex, ClearRecord, ClearLink, Pass, BeginPass, Look,
             AlreadyDone, RunStep, WriteCheckpoint, Claim, ClaimFails, Accepted, NotAccepted, AnswerLost, ClearDone, UnlinkDone,
             ReadIndexDone, WriteIndexDone, StepFails, PassDies
    <3>3. requests' = requests \/ requests' = requests + 1
      BY DEF Next, vars, Request, Proceed, GiveUp, Cancel, Use, Tomorrow, WriteLink,
             ReadIndex, WriteIndex, ClearRecord, ClearLink, Pass, BeginPass, Look,
             AlreadyDone, RunStep, WriteCheckpoint, Claim, ClaimFails, Accepted, NotAccepted, AnswerLost, ClearDone, UnlinkDone,
             ReadIndexDone, WriteIndexDone, StepFails, PassDies, bounds
    <3>. QED BY <3>1, <3>2, <3>3 DEF Typed
  <2>2. tick'.request \in 1..requests /\ tick'.request \notin kept
    BY <1>2 DEF DueNow
  <2>3. \A ws \in Workspaces : record[ws] # None /\ record[ws].request = tick'.request
           => record[ws].due <= now
    BY <1>2 DEF DueNow
  <2>4. CASE \E ws \in Workspaces : Request(ws) /\ record[ws] = None
    <3>1. PICK ws \in Workspaces : Request(ws) /\ record[ws] = None
      BY <2>4
    <3>2. /\ kept' = kept /\ now' = now
          /\ \A w \in Workspaces : record'[w] =
                 IF w = ws THEN [due |-> now + Grace, request |-> requests + 1] ELSE record[w]
      BY <3>1 DEF Request, Typed
    <3>3. tick'.request # requests + 1
      BY <2>2 DEF Typed
    <3>4. \A w \in Workspaces : record'[w] # None /\ record'[w].request = tick'.request
              => record'[w].due <= now'
      BY <2>3, <3>2, <3>3
    <3>. QED BY <2>1, <2>2, <3>2, <3>4 DEF Typed
  <2>5. CASE \E ws \in Workspaces : ClearRecord(ws)
    <3>1. PICK ws \in Workspaces : ClearRecord(ws)
      BY <2>5
    <3>2. /\ now' = now
          /\ \A w \in Workspaces : record'[w] = IF w = ws THEN None ELSE record[w]
      BY <3>1 DEF ClearRecord, Typed
    <3>3. \/ kept' = kept
          \/ /\ record[ws] # None /\ now < record[ws].due
             /\ kept' = kept \cup {record[ws].request}
      BY <3>1 DEF ClearRecord
    <3>4. record[ws] # None => record[ws].due \in Nat
      BY DEF Typed, Booking
    <3>5. tick'.request \notin kept'
      <4>1. record[ws] # None /\ now < record[ws].due => record[ws].request # tick'.request
        BY <2>3, <3>4 DEF Typed
      <4>. QED BY <2>2, <3>3, <4>1
    <3>6. \A w \in Workspaces : record'[w] # None /\ record'[w].request = tick'.request
              => record'[w].due <= now'
      BY <2>3, <3>2
    <3>. QED BY <2>1, <2>2, <3>5, <3>6 DEF Typed
  <2>6. CASE ClearDone
    <3>1. /\ UNCHANGED <<now, kept>>
          /\ \A w \in Workspaces : record'[w] = IF w = tick.ws THEN None ELSE record[w]
      BY <2>6 DEF ClearDone, Typed
    <3>. QED BY <2>1, <2>2, <2>3, <3>1 DEF Typed
  <2>7. CASE UNCHANGED <<record, kept>>
    <3>1. \A ws \in Workspaces : record[ws] # None => record[ws].due \in Nat
      BY DEF Typed, Booking
    <3>. QED BY <2>1, <2>2, <2>3, <2>7, <3>1 DEF Typed
  <2>. QED BY <2>4, <2>5, <2>6, <2>7, Records
<1>. QED BY <1>1, <1>2, PassMoves

-----------------------------------------------------------------------------
(* What is announced, and what is done *)

LEMMA AnnouncementsStep == Typed /\ Announcements /\ [Next]_vars => Announcements'
<1>. SUFFICES ASSUME Typed, Announcements, [Next]_vars PROVE Announcements'
  OBVIOUS
<1>1. ASSUME NEW heard \in BOOLEAN, tick.at = "send", Accept(heard), claimed' = claimed,
             tick'.at = "send" => ~heard /\ tick'.request = tick.request
      PROVE  Announcements'
  <2>. DEFINE new == [request |-> tick.request, left |-> rows[tick.ws], heard |-> heard]
  <2>1. /\ announced' = Append(announced, new)
        /\ new.request = tick.request /\ new.heard = heard
    BY <1>1 DEF Accept
  <2>2. announced \in Seq(Announcement) /\ new \in Announcement
    BY <1>1 DEF Typed, UnderWay, Announcement
  <2>. HIDE DEF new
  <2>3. /\ DOMAIN announced' = 1..Len(announced) + 1 /\ DOMAIN announced = 1..Len(announced)
        /\ announced'[Len(announced) + 1] = new
        /\ \A i \in 1..Len(announced) : announced'[i] = announced[i]
        /\ Len(announced) \in Nat
    BY <2>1, <2>2
  <2>4. \A i \in DOMAIN announced' : i \in 1..Len(announced) \/ i = Len(announced) + 1
    BY <2>3
  <2>5. \A i \in 1..Len(announced) :
            /\ announced'[i].request \in claimed
            /\ announced'[i].request = tick.request => ~announced'[i].heard
    BY <1>1, <2>3 DEF Announcements
  <2>6. \A i \in DOMAIN announced' : announced'[i].request \in claimed'
    BY <1>1, <2>1, <2>3, <2>4, <2>5 DEF Announcements
  <2>7. \A i, j \in DOMAIN announced' :
            i < j /\ announced'[i].request = announced'[j].request => ~announced'[i].heard
    <3>. SUFFICES ASSUME NEW i \in DOMAIN announced', NEW j \in DOMAIN announced', i < j,
                         announced'[i].request = announced'[j].request
                  PROVE  ~announced'[i].heard
      OBVIOUS
    <3>1. i \in 1..Len(announced)
      BY <2>3, <2>4
    <3>2. CASE j \in 1..Len(announced)
      BY <2>3, <3>1, <3>2 DEF Announcements, AnnouncedOnce
    <3>3. CASE j = Len(announced) + 1
      BY <2>1, <2>3, <2>5, <3>1, <3>3
    <3>. QED BY <2>4, <3>2, <3>3
  <2>8. tick'.at = "send" =>
            /\ tick'.request \in claimed'
            /\ \A i \in DOMAIN announced' :
                   announced'[i].request = tick'.request => ~announced'[i].heard
    BY <1>1, <2>1, <2>3, <2>4, <2>5 DEF Announcements
  <2>. QED BY <2>6, <2>7, <2>8 DEF Announcements, AnnouncedOnce
<1>2. CASE Claim \/ ClaimFails
  <2>1. announced' = announced /\ claimed \subseteq claimed'
    BY <1>2 DEF Claim, ClaimFails
  <2>2. tick'.at = "send" => tick'.request \in claimed' /\ tick'.request \notin claimed
    BY <1>2 DEF Claim, ClaimFails, Sending, Then, Stage
  <2>. QED BY <2>1, <2>2 DEF Announcements, AnnouncedOnce
<1>3. CASE ~Claim /\ ~ClaimFails
  <2>1. claimed' = claimed
    BY <1>3 DEF Next, vars, Request, Proceed, GiveUp, Cancel, Use, Tomorrow, WriteLink,
           ReadIndex, WriteIndex, ClearRecord, ClearLink, Pass, BeginPass, Look, AlreadyDone,
           RunStep, WriteCheckpoint, Accepted, NotAccepted, AnswerLost, ClearDone, UnlinkDone,
           ReadIndexDone, WriteIndexDone, StepFails, PassDies, effects
  <2>2. tick'.at = "send" => tick.at = "send" /\ tick'.request = tick.request
    <3>1. ~(BeginPass \/ AlreadyDone \/ RunStep \/ WriteCheckpoint \/ StepFails \/ PassDies)
          \/ tick'.at # "send"
      BY DEF BeginPass, AlreadyDone, RunStep, WriteCheckpoint, StepFails, PassDies, Advance,
             Then, Stage, Turn, Idle
    <3>2. ~(ClearDone \/ UnlinkDone \/ ReadIndexDone \/ WriteIndexDone) \/ tick'.at # "send"
      BY DEF ClearDone, UnlinkDone, ReadIndexDone, WriteIndexDone, Then, Stage, Turn, Idle
    <3>3. (\A ws \in Workspaces : ~Look(ws)) \/ tick'.at # "send"
      BY DEF Look, Leave, Onwards, Start, Turn, Idle
    <3>4. Accepted \/ NotAccepted \/ AnswerLost =>
              tick.at = "send" /\ tick'.request = tick.request
      BY Noticing DEF Accepted, NotAccepted, AnswerLost
    <3>. QED BY <1>3, <3>1, <3>2, <3>3, <3>4 DEF Next, Pass, vars, Request, Proceed, GiveUp,
                Cancel, Use, Tomorrow, WriteLink, ReadIndex, WriteIndex, ClearRecord, ClearLink
  <2>3. CASE announced' = announced
    BY <2>1, <2>2, <2>3 DEF Announcements, AnnouncedOnce
  <2>4. CASE announced' # announced
    <3>1. PICK heard \in BOOLEAN : /\ tick.at = "send" /\ Accept(heard)
                                   /\ tick'.at = "send" => ~heard
      BY <2>4, Sends
    <3>. QED BY <1>1, <2>1, <2>2, <3>1
  <2>. QED BY <2>3, <2>4
<1>. QED BY <1>2, <1>3

\* What is gone, and is not added meanwhile, stays gone.
LEMMA GoneStaysGone ==
  ASSUME Typed, [Next]_vars, NEW kind \in Kinds \ Uses, NEW ws \in Workspaces,
         rows[ws][kind] = 0
  PROVE  rows'[ws][kind] = 0
<1>1. CASE RunStep
  <2>1. rows' = [rows EXCEPT ![tick.ws] = Effect(rows[tick.ws], Step)]
    BY <1>1 DEF RunStep
  <2>2. CASE tick.ws # ws
    BY <2>1, <2>2 DEF Typed
  <2>3. CASE tick.ws = ws
    <3>1. /\ Effect(rows[ws], Step) \in [Kinds -> Nat]
          /\ \A k \in Kinds : Effect(rows[ws], Step)[k] <= rows[ws][k]
      BY EffectRemoves DEF Typed
    <3>2. rows'[ws] = Effect(rows[ws], Step)
      BY <2>1, <2>3 DEF Typed
    <3>. QED BY <3>1, <3>2
  <2>. QED BY <2>2, <2>3
<1>2. ASSUME NEW v \in Workspaces, NEW k \in Uses, Use(v, k)
      PROVE  rows'[ws][kind] = 0
  <2>1. rows' = [rows EXCEPT ![v] = OneMore(rows[v], k)]
    BY <1>2 DEF Use
  <2>2. rows[v] \in [Kinds -> Nat]
    BY DEF Typed
  <2>3. OneMore(rows[v], k)[kind] = rows[v][kind]
    BY <2>2 DEF OneMore
  <2>. QED BY <2>1, <2>3 DEF Typed
<1>3. ~RunStep /\ ~(\E v \in Workspaces : \E k \in Uses : Use(v, k)) => rows' = rows
  BY DEF Next, vars, Request, Proceed, GiveUp, Cancel, Tomorrow, WriteLink, ReadIndex,
         WriteIndex, ClearRecord, ClearLink, Pass, BeginPass, Look, AlreadyDone,
         WriteCheckpoint, Claim, ClaimFails, Accepted, NotAccepted, AnswerLost, ClearDone,
         UnlinkDone, ReadIndexDone, WriteIndexDone, StepFails, PassDies, effects
<1>. QED BY <1>1, <1>2, <1>3

\* When nothing that a step removes is added meanwhile, it stays gone.
LEMMA RowsOnlyGo ==
  ASSUME Typed, [Next]_vars, Uses \cap {PURGE_TARGETS[s] : s \in Purges} = {}
  PROVE  \A ws \in Workspaces : \A step \in Purges :
             rows[ws][PURGE_TARGETS[step]] = 0 => rows'[ws][PURGE_TARGETS[step]] = 0
<1>. SUFFICES ASSUME NEW ws \in Workspaces, NEW step \in Purges,
                     rows[ws][PURGE_TARGETS[step]] = 0
              PROVE  rows'[ws][PURGE_TARGETS[step]] = 0
  OBVIOUS
<1>1. PURGE_TARGETS[step] \in Kinds /\ PURGE_TARGETS[step] \notin Uses
  BY DEF Kinds
<1>. QED BY <1>1, GoneStaysGone

LEMMA EmptiedStep ==
  ASSUME Uses \cap {PURGE_TARGETS[s] : s \in Purges} = {}
  PROVE  Typed /\ Emptied /\ [Next]_vars => Emptied'
<1>. SUFFICES ASSUME Typed, Emptied, [Next]_vars PROVE Emptied'
  OBVIOUS
<1>1. ASSUME (tick.at = "checkpoint" /\ Step \in Purges)'
      PROVE  (rows[tick.ws][PURGE_TARGETS[Step]] = 0)'
  <2>1. CASE tick' = tick
    <3>1. Step' = Step /\ tick.ws \in Workspaces
      BY <1>1, <2>1 DEF Step, Typed, UnderWay
    <3>. QED BY <1>1, <2>1, <3>1, RowsOnlyGo DEF Emptied
  <2>2. CASE RunStep
    <3>1. /\ tick.ws \in Workspaces /\ tick'.ws = tick.ws /\ Step' = Step
          /\ rows' = [rows EXCEPT ![tick.ws] = Effect(rows[tick.ws], Step)]
          /\ ~(Step \in Purges /\ ~FoundEmpty(rows[tick.ws], PURGE_TARGETS[Step]))
      BY <1>1, <2>2 DEF RunStep, Advance, Then, Stage, Turn, Idle, Step, Typed, UnderWay
    <3>2. Effect(rows[tick.ws], Step)[PURGE_TARGETS[Step]] = 0
      BY <1>1, <3>1, FoundEmptyLeavesNothing DEF Typed
    <3>. QED BY <3>1, <3>2 DEF Typed
  <2>3. ~RunStep => tick' = tick
    <3>1. ~(BeginPass \/ AlreadyDone \/ WriteCheckpoint \/ StepFails \/ PassDies)
      BY <1>1 DEF BeginPass, AlreadyDone, WriteCheckpoint, StepFails, PassDies, Advance,
                  Stage, Turn, Idle
    <3>2. ~(ClearDone \/ UnlinkDone \/ ReadIndexDone \/ WriteIndexDone)
      BY <1>1 DEF ClearDone, UnlinkDone, ReadIndexDone, WriteIndexDone, Then, Stage, Turn, Idle
    <3>4. ~(Claim \/ ClaimFails \/ Accepted \/ NotAccepted \/ AnswerLost)
      BY <1>1, Noticing
    <3>3. \A ws \in Workspaces : ~Look(ws)
      BY <1>1 DEF Look, Leave, Onwards, Start, Turn, Idle
    <3>. QED BY <3>1, <3>2, <3>3, <3>4 DEF Next, Pass, vars, Request, Proceed, GiveUp, Cancel, Use,
                  Tomorrow, WriteLink, ReadIndex, WriteIndex, ClearRecord, ClearLink
  <2>. QED BY <2>1, <2>2, <2>3
<1>2. DoneIsEmpty'
  <2>1. CASE WriteCheckpoint
    <3>1. /\ tick.at = "checkpoint" /\ tick.ws \in Workspaces /\ rows' = rows
          /\ \A ws \in Workspaces : checkpoint'[ws] =
                 IF ws = tick.ws THEN checkpoint[ws] \cup {Step} ELSE checkpoint[ws]
      BY <2>1 DEF WriteCheckpoint, Typed, UnderWay
    <3>2. SUFFICES ASSUME NEW ws \in Workspaces, NEW step \in checkpoint'[ws] \cap Purges
                   PROVE  rows[ws][PURGE_TARGETS[step]] = 0
      BY <3>1 DEF DoneIsEmpty
    <3>3. CASE step \in checkpoint[ws]
      BY <3>3 DEF Emptied, DoneIsEmpty
    <3>4. CASE step \notin checkpoint[ws]
      BY <3>1, <3>2, <3>4 DEF Emptied
    <3>. QED BY <3>3, <3>4
  <2>2. ~WriteCheckpoint => checkpoint' = checkpoint
    BY DEF Next, vars, Request, Proceed, GiveUp, Cancel, Use, Tomorrow, WriteLink, ReadIndex,
           WriteIndex, ClearRecord, ClearLink, Pass, BeginPass, Look, AlreadyDone, RunStep,
           Claim, ClaimFails, Accepted, NotAccepted, AnswerLost, ClearDone, UnlinkDone, ReadIndexDone, WriteIndexDone, StepFails,
           PassDies, effects
  <2>. QED BY <2>1, <2>2, RowsOnlyGo DEF Emptied, DoneIsEmpty
<1>. QED BY <1>1, <1>2 DEF Emptied

-----------------------------------------------------------------------------
(* How far a pass has come *)

LEMMA ThirteenSteps ==
  /\ Len(DELETION_STEP) = 13
  /\ \A step \in Steps : \E n \in 1..13 : step = DELETION_STEP[n]
<1>1. Len(DELETION_STEP) = 13 /\ DOMAIN DELETION_STEP = 1..13
  BY DEF DELETION_STEP
<1>. QED BY <1>1 DEF Steps, ToSet

\* A checkpoint is written for the step the pass is at, and none is taken back.
LEMMA CheckpointsGrow ==
  ASSUME Typed, [Next]_vars
  PROVE  \A ws \in Workspaces : checkpoint[ws] \subseteq checkpoint'[ws]
<1>1. CASE WriteCheckpoint
  BY <1>1 DEF WriteCheckpoint, Typed
<1>2. ~WriteCheckpoint => checkpoint' = checkpoint
  BY DEF Next, vars, Request, Proceed, GiveUp, Cancel, Use, Tomorrow, WriteLink, ReadIndex,
         WriteIndex, ClearRecord, ClearLink, Pass, BeginPass, Look, AlreadyDone, RunStep,
         Claim, ClaimFails, Accepted, NotAccepted, AnswerLost, ClearDone, UnlinkDone,
         ReadIndexDone, WriteIndexDone, StepFails, PassDies, effects
<1>. QED BY <1>1, <1>2

\* Past a step goes a pass that failed one, or that has the checkpoint of this one too.
LEMMA AdvanceKeepsProgress ==
  ASSUME Typed, Progress, [Next]_vars, tick.at \in {"step", "checkpoint"},
         NEW complete, Advance(complete),
         complete => tick.complete /\ Step \in checkpoint'[tick.ws]
  PROVE  Progress'
<1>. DEFINE N == Len(DELETION_STEP)
<1>1. /\ tick.ws \in Workspaces /\ tick.step \in 1..N /\ N \in Nat
      /\ checkpoint[tick.ws] \subseteq checkpoint'[tick.ws]
  BY CheckpointsGrow, ThirteenSteps DEF Typed, UnderWay, Progress
<1>2. complete => \A n \in 1..tick.step : DELETION_STEP[n] \in checkpoint'[tick.ws]
  <2>. SUFFICES ASSUME complete, NEW n \in 1..tick.step
                PROVE  DELETION_STEP[n] \in checkpoint'[tick.ws]
    OBVIOUS
  <2>1. n \in 1..(tick.step - 1) \/ n = tick.step
    BY <1>1
  <2>. QED BY <1>1, <2>1 DEF Progress, Step
<1>3. CASE tick.step < N
  <2>1. /\ tick'.at = "step" /\ tick'.ws = tick.ws /\ tick'.step = tick.step + 1
        /\ tick'.complete = complete
    BY <1>3 DEF Advance, Stage
  <2>. QED BY <1>1, <1>2, <1>3, <2>1 DEF Progress
<1>4. CASE ~(tick.step < N) /\ complete
  <2>1. tick'.at = "announce" /\ tick'.ws = tick.ws
    BY <1>4 DEF Advance, Stage
  <2>2. tick.step = 13
    BY <1>1, <1>4, ThirteenSteps
  <2>. QED BY <1>2, <1>4, <2>1, <2>2, ThirteenSteps DEF Progress
<1>5. CASE ~(tick.step < N) /\ ~complete
  BY <1>5 DEF Advance, Turn, Idle, Progress
<1>. QED BY <1>3, <1>4, <1>5

LEMMA ProgressStep == Typed /\ Progress /\ [Next]_vars => Progress'
<1>. SUFFICES ASSUME Typed, Progress, [Next]_vars PROVE Progress'
  OBVIOUS
<1>1. CASE AlreadyDone
  <2>1. Step \in checkpoint'[tick.ws]
    BY <1>1 DEF AlreadyDone, effects
  <2>. QED BY <1>1, <2>1, AdvanceKeepsProgress DEF AlreadyDone
<1>2. CASE WriteCheckpoint
  <2>1. tick.ws \in Workspaces
    BY <1>2 DEF WriteCheckpoint, Typed, UnderWay
  <2>2. Step \in checkpoint'[tick.ws]
    BY <1>2, <2>1 DEF WriteCheckpoint, Typed
  <2>. QED BY <1>2, <2>2, AdvanceKeepsProgress DEF WriteCheckpoint
<1>3. CASE RunStep
  <2>1. CASE Advance(FALSE)
    BY <1>3, <2>1, AdvanceKeepsProgress DEF RunStep
  <2>2. CASE Then("checkpoint")
    <3>1. /\ tick'.at = "checkpoint" /\ tick'.ws = tick.ws /\ tick'.step = tick.step
          /\ tick'.complete = tick.complete /\ tick.at = "step" /\ checkpoint' = checkpoint
      BY <1>3, <2>2 DEF RunStep, Then, Stage
    <3>. QED BY <3>1 DEF Progress
  <2>. QED BY <1>3, <2>1, <2>2 DEF RunStep
<1>4. CASE StepFails
  BY <1>4, AdvanceKeepsProgress DEF StepFails
<1>5. CASE Claim \/ ClaimFails \/ Accepted \/ NotAccepted \/ AnswerLost
  <2>1. /\ tick.at \in {"announce", "send"} /\ tick'.at \in {"send", "clear"}
        /\ tick'.ws = tick.ws
    BY <1>5, Noticing
  <2>2. checkpoint' = checkpoint
    BY <1>5 DEF Claim, ClaimFails, Accepted, NotAccepted, AnswerLost, effects
  <2>. QED BY <2>1, <2>2 DEF Progress
<1>6. CASE tick' = tick
  <2>1. tick.at \in {"step", "checkpoint", "announce", "send"} => tick.ws \in Workspaces
    BY DEF Typed, UnderWay
  <2>2. \A ws \in Workspaces : checkpoint[ws] \subseteq checkpoint'[ws]
    BY CheckpointsGrow
  <2>. QED BY <1>6, <2>1, <2>2 DEF Progress
<1>7. CASE BeginPass \/ PassDies
  BY <1>7 DEF BeginPass, PassDies, Turn, Idle, Progress
<1>8. CASE \E ws \in Workspaces : Look(ws)
  <2>1. \/ tick'.at \in {"idle", "look", "unindex"}
        \/ tick'.at = "step" /\ tick'.step = 1
    BY <1>8 DEF Look, Leave, Onwards, Start, Turn, Idle
  <2>. QED BY <2>1, ThirteenSteps DEF Progress
<1>9. CASE ClearDone \/ UnlinkDone \/ ReadIndexDone \/ WriteIndexDone
  <2>1. tick'.at \in {"unlink", "unindex", "remove", "look", "idle"}
    BY <1>9 DEF ClearDone, UnlinkDone, ReadIndexDone, WriteIndexDone, Then, Stage, Turn, Idle
  <2>. QED BY <2>1 DEF Progress
<1>10. \/ AlreadyDone \/ WriteCheckpoint \/ RunStep \/ StepFails
       \/ Claim \/ ClaimFails \/ Accepted \/ NotAccepted \/ AnswerLost
       \/ BeginPass \/ PassDies \/ (\E ws \in Workspaces : Look(ws))
       \/ ClearDone \/ UnlinkDone \/ ReadIndexDone \/ WriteIndexDone
       \/ tick' = tick
  BY DEF Next, Pass, vars, Request, Proceed, GiveUp, Cancel, Use, Tomorrow, WriteLink,
         ReadIndex, WriteIndex, ClearRecord, ClearLink
<1>. QED BY <1>1, <1>2, <1>3, <1>4, <1>5, <1>6, <1>7, <1>8, <1>9, <1>10

-----------------------------------------------------------------------------
(* What a step clears beside the table it purges *)

\* A step that ends 'done' has cleared it: the credentials by itself, and what is due with
\* the last workflow.
LEMMA EffectClears ==
  ASSUME NEW held \in [Kinds -> Nat], NEW step,
         step \in Purges => FoundEmpty(held, PURGE_TARGETS[step])
  PROVE  Clear(Effect(held, step), step)
<1>1. {"credentials", "due", "workflows"} \subseteq Kinds
  <2>1. "purge_workflows" \in Purges /\ PURGE_TARGETS["purge_workflows"] = "workflows"
    BY DEF Purges, PURGE_TARGETS
  <2>. QED BY <2>1 DEF Kinds
<1>2. CASE step = "revoke_credentials"
  <2>1. step \notin Purges
    BY <1>2 DEF Purges, PURGE_TARGETS
  <2>2. Effect(held, step) = Without(held, {"credentials"})
    BY <1>2, <2>1 DEF Effect
  <2>. QED BY <1>1, <1>2, <2>2 DEF Clear, Without
<1>3. CASE step = "purge_workflows"
  <2>1. step \in Purges /\ PURGE_TARGETS[step] = "workflows"
    BY <1>3 DEF Purges, PURGE_TARGETS
  <2>2. Effect(held, step) = Purged(held, "workflows")
    BY <1>3, <2>1 DEF Effect
  <2>3. ~(held["workflows"] > Ceiling)
    BY <1>1, <2>1, DaysAssumption DEF FoundEmpty
  <2>4. "workflows" \in DOMAIN Cascade /\ "due" \in Cascade["workflows"]
    BY DEF Cascade
  <2>5. PICK left : Purged(held, "workflows") = Without(left, Cascade["workflows"])
    BY <2>3, <2>4 DEF Purged
  <2>. QED BY <1>1, <1>3, <2>2, <2>4, <2>5 DEF Clear, Without
<1>4. CASE step \notin {"revoke_credentials", "purge_workflows"}
  BY <1>4 DEF Clear
<1>. QED BY <1>2, <1>3, <1>4

\* A workspace without a workflow has no run that is due again: what writes one a new time
\* needs its workflow.
LEMMA NotDueAgain ==
  ASSUME Typed, [Next]_vars, NEW ws \in Workspaces,
         rows[ws]["workflows"] = 0, rows[ws]["due"] = 0
  PROVE  rows'[ws]["due"] = 0
<1>0. "due" \in Kinds
  BY DEF Kinds
<1>1. CASE "due" \notin Uses
  BY <1>0, <1>1, GoneStaysGone
<1>2. ASSUME NEW v \in Workspaces, NEW k \in Uses, Use(v, k)
      PROVE  rows'[ws]["due"] = 0
  <2>1. rows' = [rows EXCEPT ![v] = OneMore(rows[v], k)]
    BY <1>2 DEF Use
  <2>2. rows[v] \in [Kinds -> Nat]
    BY DEF Typed
  <2>3. k = "due" => v # ws
    <3>1. "workflows" \in HangsOn["due"]
      BY DEF HangsOn
    <3>. QED BY <1>2, <3>1 DEF Use
  <2>4. k # "due" => OneMore(rows[v], k)["due"] = rows[v]["due"]
    BY <1>0, <2>2 DEF OneMore
  <2>. QED BY <2>1, <2>3, <2>4 DEF Typed
<1>3. CASE RunStep
  <2>1. rows' = [rows EXCEPT ![tick.ws] = Effect(rows[tick.ws], Step)]
    BY <1>3 DEF RunStep
  <2>2. CASE tick.ws # ws
    BY <2>1, <2>2 DEF Typed
  <2>3. CASE tick.ws = ws
    <3>1. /\ Effect(rows[ws], Step) \in [Kinds -> Nat]
          /\ \A k \in Kinds : Effect(rows[ws], Step)[k] <= rows[ws][k]
      BY EffectRemoves DEF Typed
    <3>2. rows'[ws] = Effect(rows[ws], Step)
      BY <2>1, <2>3 DEF Typed
    <3>. QED BY <1>0, <3>1, <3>2
  <2>. QED BY <2>2, <2>3
<1>4. ~RunStep /\ ~(\E v \in Workspaces : \E k \in Uses : Use(v, k)) => rows' = rows
  BY DEF Next, vars, Request, Proceed, GiveUp, Cancel, Tomorrow, WriteLink, ReadIndex,
         WriteIndex, ClearRecord, ClearLink, Pass, BeginPass, Look, AlreadyDone,
         WriteCheckpoint, Claim, ClaimFails, Accepted, NotAccepted, AnswerLost, ClearDone,
         UnlinkDone, ReadIndexDone, WriteIndexDone, StepFails, PassDies, effects
<1>. QED BY <1>2, <1>3, <1>4

\* What is clear stays clear, as the step that clears what is due empties the workflows.
LEMMA ClearStaysClear ==
  ASSUME Typed, [Next]_vars, LateUse, NEW ws \in Workspaces, NEW step, Clear(rows[ws], step),
         step \in Purges => rows[ws][PURGE_TARGETS[step]] = 0
  PROVE  Clear(rows'[ws], step)
<1>1. CASE step = "revoke_credentials"
  <2>1. "credentials" \in Kinds \ Uses
    BY DEF Kinds, LateUse
  <2>. QED BY <1>1, <2>1, GoneStaysGone DEF Clear
<1>2. CASE step = "purge_workflows"
  <2>1. step \in Purges /\ PURGE_TARGETS[step] = "workflows"
    BY <1>2 DEF Purges, PURGE_TARGETS
  <2>. QED BY <1>2, <2>1, NotDueAgain DEF Clear
<1>3. CASE step \notin {"revoke_credentials", "purge_workflows"}
  BY <1>3 DEF Clear
<1>. QED BY <1>1, <1>2, <1>3

\* A pass comes to a checkpoint from the step itself, and stays there until it is written.
LEMMA ToCheckpoint ==
  ASSUME [Next]_vars, tick'.at = "checkpoint"
  PROVE  \/ tick' = tick
         \/ /\ RunStep /\ tick'.ws = tick.ws /\ Step' = Step
            /\ Step \in Purges => FoundEmpty(rows[tick.ws], PURGE_TARGETS[Step])
<1>1. CASE RunStep
  BY <1>1 DEF RunStep, Advance, Then, Stage, Turn, Idle, Step
<1>2. ~(BeginPass \/ AlreadyDone \/ WriteCheckpoint \/ StepFails \/ PassDies)
  BY DEF BeginPass, AlreadyDone, WriteCheckpoint, StepFails, PassDies, Advance, Stage, Turn,
         Idle
<1>3. ~(ClearDone \/ UnlinkDone \/ ReadIndexDone \/ WriteIndexDone)
  BY DEF ClearDone, UnlinkDone, ReadIndexDone, WriteIndexDone, Then, Stage, Turn, Idle
<1>4. ~(Claim \/ ClaimFails \/ Accepted \/ NotAccepted \/ AnswerLost)
  BY Noticing
<1>5. \A ws \in Workspaces : ~Look(ws)
  BY DEF Look, Leave, Onwards, Start, Turn, Idle
<1>. QED BY <1>1, <1>2, <1>3, <1>4, <1>5 DEF Next, Pass, vars, Request, Proceed, GiveUp, Cancel,
            Use, Tomorrow, WriteLink, ReadIndex, WriteIndex, ClearRecord, ClearLink

LEMMA ClearedStep ==
  ASSUME LateUse
  PROVE  Typed /\ Emptied /\ Cleared /\ [Next]_vars => Cleared'
<1>. SUFFICES ASSUME Typed, Emptied, Cleared, [Next]_vars PROVE Cleared'
  OBVIOUS
<1>1. ASSUME tick'.at = "checkpoint" PROVE (Clear(rows[tick.ws], Step))'
  <2>1. CASE tick' = tick
    <3>1. PICK ws \in Workspaces : ws = tick.ws
      BY <1>1, <2>1 DEF Typed, UnderWay
    <3>2. PICK step : step = Step
      OBVIOUS
    <3>3. /\ Clear(rows[ws], step)
          /\ step \in Purges => rows[ws][PURGE_TARGETS[step]] = 0
      BY <1>1, <2>1, <3>1, <3>2 DEF Cleared, Emptied
    <3>4. Clear(rows'[ws], step)
      BY <3>3, ClearStaysClear
    <3>5. tick'.ws = ws /\ Step' = step
      BY <2>1, <3>1, <3>2 DEF Step
    <3>. QED BY <3>4, <3>5 DEF Clear
  <2>2. CASE tick' # tick
    <3>1. /\ RunStep /\ tick'.ws = tick.ws /\ Step' = Step
          /\ Step \in Purges => FoundEmpty(rows[tick.ws], PURGE_TARGETS[Step])
      BY <1>1, <2>2, ToCheckpoint
    <3>2. /\ tick.ws \in Workspaces
          /\ rows' = [rows EXCEPT ![tick.ws] = Effect(rows[tick.ws], Step)]
      BY <3>1 DEF RunStep, Typed, UnderWay
    <3>3. Clear(Effect(rows[tick.ws], Step), Step)
      BY <3>1, <3>2, EffectClears DEF Typed
    <3>4. rows'[tick.ws] = Effect(rows[tick.ws], Step)
      BY <3>2 DEF Typed
    <3>. QED BY <3>1, <3>3, <3>4 DEF Clear
  <2>. QED BY <2>1, <2>2
<1>2. ASSUME NEW ws \in Workspaces, NEW step \in checkpoint'[ws]
      PROVE  Clear(rows'[ws], step)
  <2>1. CASE step \in checkpoint[ws]
    BY <2>1, ClearStaysClear DEF Cleared, Emptied, DoneIsEmpty
  <2>2. CASE step \notin checkpoint[ws]
    <3>1. WriteCheckpoint
      <4>1. ~WriteCheckpoint => checkpoint' = checkpoint
        BY DEF Next, vars, Request, Proceed, GiveUp, Cancel, Use, Tomorrow, WriteLink,
               ReadIndex, WriteIndex, ClearRecord, ClearLink, Pass, BeginPass, Look,
               AlreadyDone, RunStep, Claim, ClaimFails, Accepted, NotAccepted, AnswerLost,
               ClearDone, UnlinkDone, ReadIndexDone, WriteIndexDone, StepFails, PassDies,
               effects
      <4>. QED BY <1>2, <2>2, <4>1
    <3>2. tick.at = "checkpoint" /\ tick.ws = ws /\ step = Step /\ rows' = rows
      BY <1>2, <2>2, <3>1 DEF WriteCheckpoint, Typed
    <3>. QED BY <3>2 DEF Cleared
  <2>. QED BY <2>1, <2>2
<1>. QED BY <1>1, <1>2 DEF Cleared

\* Where every step is done, every kind of row is gone but the sessions, which no step after
\* the first looks at.
LEMMA AllGone ==
  ASSUME Typed, Emptied, Cleared, NEW ws \in Workspaces, Steps \subseteq checkpoint[ws]
  PROVE  \A kind \in Kinds \ {"sessions"} : rows[ws][kind] = 0
<1>1. Purges \subseteq Steps /\ {"revoke_credentials", "purge_workflows"} \subseteq Steps
  <2>. DEFINE d == DELETION_STEP
  <2>1. /\ DOMAIN d = 1..13
        /\ d[2] = "revoke_credentials" /\ d[6] = "purge_evidence"
        /\ d[7] = "purge_source_events" /\ d[8] = "purge_workflows"
        /\ d[9] = "purge_connections" /\ d[10] = "purge_support_cases"
        /\ d[11] = "purge_notifications" /\ d[12] = "purge_memberships"
    BY DEF DELETION_STEP
  <2>. HIDE DEF d
  <2>2. Steps = {d[i] : i \in 1..13}
    BY <2>1 DEF Steps, ToSet, d
  <2>3. Purges = {"purge_evidence", "purge_source_events", "purge_workflows",
                  "purge_connections", "purge_support_cases", "purge_notifications",
                  "purge_memberships"}
    BY DEF Purges, PURGE_TARGETS
  <2>4. {d[2], d[6], d[7], d[8], d[9], d[10], d[11], d[12]} \subseteq Steps
    BY <2>2
  <2>. QED BY <2>1, <2>3, <2>4
<1>2. \A step \in Purges : rows[ws][PURGE_TARGETS[step]] = 0
  BY <1>1 DEF Emptied, DoneIsEmpty
<1>3. rows[ws]["credentials"] = 0 /\ rows[ws]["due"] = 0
  BY <1>1 DEF Cleared, Clear
<1>. QED BY <1>2, <1>3 DEF Kinds

LEMMA GoneStep ==
  Typed /\ Emptied /\ Cleared /\ Progress /\ AnnouncedIsGone /\ [Next]_vars => AnnouncedIsGone'
<1>. SUFFICES ASSUME Typed, Emptied, Cleared, Progress, AnnouncedIsGone, [Next]_vars
              PROVE  AnnouncedIsGone'
  OBVIOUS
<1>1. CASE announced' = announced
  BY <1>1 DEF AnnouncedIsGone
<1>2. CASE announced' # announced
  <2>1. PICK heard \in BOOLEAN : tick.at = "send" /\ Accept(heard)
    BY <1>2, Sends
  <2>2. tick.ws \in Workspaces /\ Steps \subseteq checkpoint[tick.ws]
    BY <2>1 DEF Typed, UnderWay, Progress
  <2>. DEFINE new == [request |-> tick.request, left |-> rows[tick.ws], heard |-> heard]
  <2>3. \A kind \in Kinds \ {"sessions"} : new.left[kind] = 0
    BY <2>2, AllGone
  <2>4. announced' = Append(announced, new)
    BY <2>1 DEF Accept
  <2>5. announced \in Seq(Announcement) /\ new \in Announcement
    BY <2>1 DEF Typed, UnderWay, Announcement
  <2>. HIDE DEF new
  <2>6. \A i \in DOMAIN announced' :
            \/ i \in DOMAIN announced /\ announced'[i] = announced[i]
            \/ announced'[i] = new
    BY <2>4, <2>5
  <2>. QED BY <2>3, <2>6 DEF AnnouncedIsGone
<1>. QED BY <1>1, <1>2

-----------------------------------------------------------------------------
(* The theorems *)

\* The invariant the rest follows from: it holds at first, and every step keeps it.
THEOREM InductiveInvariant == Spec => []IInv
<1>1. Init => IInv
  BY InitTyped, InitRest DEF IInv
<1>2. IInv /\ [Next]_vars => IInv'
  BY TypedStep, BookingsStep, DueNowStep, AnnouncementsStep DEF IInv
<1>. QED BY <1>1, <1>2, PTL DEF Spec

\* However many ticks a deletion takes, and wherever they die, it is confirmed once.
THEOREM ConfirmedOnce == Spec => []AnnouncedOnce
<1>1. IInv => AnnouncedOnce
  BY DEF IInv, Announcements
<1>. QED BY <1>1, InductiveInvariant, PTL

\* Whatever overlaps, no step runs for a request that was cancelled before its day.
THEOREM CancelledAreKept == Spec => CancelledIsKept
<1>1. IInv => (tick.at = "step" /\ tick.request \in kept => rows' = rows)
  BY DEF IInv, DueNow, UnderWay
<1>. QED BY <1>1, InductiveInvariant, PTL DEF CancelledIsKept

\* In a workspace where nothing a step removes is added meanwhile, a step that is done has
\* left nothing, so that a resumed deletion may skip it.
THEOREM DoneMeansEmpty ==
  ASSUME Uses \cap {PURGE_TARGETS[s] : s \in Purges} = {}
  PROVE  Spec => []DoneIsEmpty
<1>1. Init => Typed /\ Emptied
  BY InitTyped, InitRest
<1>2. Typed /\ Emptied /\ [Next]_vars => (Typed /\ Emptied)'
  BY TypedStep, EmptiedStep
<1>3. Emptied => DoneIsEmpty
  BY DEF Emptied
<1>. QED BY <1>1, <1>2, <1>3, PTL DEF Spec

\* A confirmation says what is so: when it is accepted, nothing of the workspace is left that
\* a step removes, by whatever passes its steps were done, whoever signed in and whichever
\* run was written a new time meanwhile.
THEOREM AnnouncedMeansGone ==
  ASSUME LateUse
  PROVE  Spec => []AnnouncedIsGone
<1>. DEFINE J == Typed /\ Emptied /\ Cleared /\ Progress /\ AnnouncedIsGone
<1>0. Uses \cap {PURGE_TARGETS[s] : s \in Purges} = {}
  BY DEF LateUse, Purges, PURGE_TARGETS
<1>1. Init => J
  <2>1. Init => Typed /\ Emptied
    BY InitTyped, InitRest
  <2>2. Init => Cleared /\ Progress /\ AnnouncedIsGone
    BY DEF Init, Idle, Cleared, Progress, AnnouncedIsGone
  <2>. QED BY <2>1, <2>2
<1>2. J /\ [Next]_vars => J'
  BY <1>0, TypedStep, EmptiedStep, ClearedStep, ProgressStep, GoneStep
<1>3. J => AnnouncedIsGone
  OBVIOUS
<1>. QED BY <1>1, <1>2, <1>3, PTL DEF Spec
=============================================================================
