-------------------------- MODULE WorkspaceDeletion --------------------------
(***************************************************************************)
(* Deleting a workspace: privacy/requests.ts records a request and cancels *)
(* it, and the tick's runDueWorkspaceDeletions carries out what is due     *)
(* with the thirteen steps of privacy/deletion.ts over db/supportPort.ts.  *)
(* The schedule is a record and a cancel link per workspace and one index  *)
(* of pending workspaces, all rows of settings, read and rewritten without *)
(* a transaction; a step is done when its checkpoint is.  Requests,        *)
(* cancellations and ticks overlap, any statement may fail and any of them *)
(* may be killed.                                                          *)
(***************************************************************************)
EXTENDS Integers, Sequences, FiniteSets, SequencesExt

CONSTANTS
    Workspaces,
    Holding,      \* rows of each kind a workspace has to begin with
    Grace,        \* DELETION_GRACE_DAYS
    Ceiling,      \* MAX_PURGE_BATCHES, of one row each
    Limit,        \* workspaces one tick looks at
    MaxPending,   \* MAX_PENDING_DELETIONS
    Attempts,     \* MAX_SEND_ATTEMPTS
    MaxTime,      \* bound: the last day
    MaxRequests,  \* bound: requests, over all workspaces
    MaxFaults,    \* bound: failed statements and killed invocations
    Uses,         \* the kinds of row that use of a workspace may add meanwhile
    MaxUse,       \* bound: how many of them
    None

ASSUME DaysAssumption == Grace \in Nat /\ Ceiling \in Nat
ASSUME AttemptsAssumption == Attempts \in Nat \ {0}

VARIABLES
    now,
    record,       \* privacy:deletion:<workspace>: the day it is due, and the request's number
    link,         \* privacy:deletion-cancel:<hash>: the workspace, the request's number and
                  \* the day it works until
    index,        \* privacy:deletion-index
    checkpoint,   \* deletion:<workspace>:<step> = 'done'
    rows,         \* rows of each kind a workspace has
    deleted,      \* workspaces.deleted_at
    claimed,      \* notification keys of deletion_completed, by request: rows of
                  \* notification_deliveries that come after the purge and are not in rows
    announced,    \* deletion_completed messages the sending service accepted: what was left
                  \* of the workspace, and whether its answer was heard
    front,        \* the request or cancellation of each workspace that is under way
    tick,         \* the pass of the tick
    kept,         \* requests cancelled before their day
    requests, faults, use

vars == <<now, record, link, index, checkpoint, rows, deleted, claimed, announced,
          front, tick, kept, requests, faults, use>>
schedule == <<record, link, index>>
effects == <<checkpoint, rows, deleted, claimed, announced>>
bounds == <<requests, faults, use>>

Idle == [at |-> "idle"]

-----------------------------------------------------------------------------
(* The plan: privacy/deletion.ts *)

DELETION_STEP ==
    <<"revoke_sessions", "revoke_credentials", "stop_scheduled_work", "expire_report_links",
      "schedule_evidence_removal", "purge_evidence", "purge_source_events",
      "purge_workflows", "purge_connections", "purge_support_cases",
      "purge_notifications", "purge_memberships", "mark_workspace_deleted">>
Steps == ToSet(DELETION_STEP)

PURGE_TARGETS ==
    [purge_evidence |-> "evidence", purge_source_events |-> "source_events",
     purge_workflows |-> "workflows", purge_connections |-> "connections",
     purge_support_cases |-> "support_cases",
     purge_notifications |-> "notification_deliveries",
     purge_memberships |-> "memberships"]
Purges == DOMAIN PURGE_TARGETS

\* What goes with the last row of a table, by a cascading foreign key.
Cascade == [source_events |-> {"due", "evidence"}, workflows |-> {"due", "evidence"},
            connections |-> {"credentials"}]
Kinds == {PURGE_TARGETS[s] : s \in Purges} \cup {"sessions", "credentials", "due"}

\* A workspace begins with some number of rows of each kind.
ASSUME HoldingAssumption == Holding \in [Kinds -> Nat]

Without(held, kinds) == [k \in Kinds |-> IF k \in kinds THEN 0 ELSE held[k]]

\* retention.purgeWorkspaceRows in batches, up to the ceiling.
Purged(held, kind) ==
    LET rest == IF held[kind] > Ceiling THEN held[kind] - Ceiling ELSE 0
        left == [held EXCEPT ![kind] = rest]
    IN  IF rest = 0 /\ kind \in DOMAIN Cascade THEN Without(left, Cascade[kind]) ELSE left

\* Mutant: one row may be left.
FoundNearly(held, kind) == held[kind] <= Ceiling + 1

\* Only a batch that finds nothing ends the loop with 'done'.
FoundEmpty(held, kind) == held[kind] < Ceiling

\* runStep: the effect of a step on what a workspace holds.
Effect(held, step) ==
    CASE step \in Purges -> Purged(held, PURGE_TARGETS[step])
      [] step = "revoke_sessions" ->
            IF held["memberships"] > 0 THEN Without(held, {"sessions"}) ELSE held
      [] step = "revoke_credentials" -> Without(held, {"credentials"})
      [] step = "stop_scheduled_work" -> Without(held, {"due"})
      [] OTHER -> held

-----------------------------------------------------------------------------
(* requestWorkspaceDeletion and cancelWorkspaceDeletion: one of them at a  *)
(* time for a workspace, but those of different workspaces overlap.        *)

Wait(ws, at) ==
    front' = [front EXCEPT ![ws] = [at |-> at, request |-> front[ws].request]]
Fault == faults < MaxFaults /\ faults' = faults + 1

\* A pending record is left as it is, and its request answered with its dates.
Request(ws) ==
    /\ front[ws] = Idle /\ ~deleted[ws]
    /\ requests < MaxRequests /\ now + Grace <= MaxTime
    /\ requests' = requests + 1
    /\ IF record[ws] = None
       THEN /\ record' = [record EXCEPT ![ws] = [due |-> now + Grace, request |-> requests + 1]]
            /\ front' = [front EXCEPT ![ws] = [at |-> "link", request |-> requests + 1,
                                               until |-> now + Grace]]
       ELSE UNCHANGED <<record, front>>
    /\ UNCHANGED <<now, link, index, effects, tick, kept, faults, use>>

WriteLink(ws) ==
    /\ front[ws].at = "link"
    /\ link' = link \cup {[ws |-> ws, request |-> front[ws].request, until |-> front[ws].until]}
    /\ Wait(ws, "index")
    /\ UNCHANGED <<now, record, index, effects, tick, kept, bounds>>

\* addToDeletionIndex and removeFromDeletionIndex read the index first.
ReadIndex(ws) ==
    /\ front[ws].at \in {"index", "unindex"}
    /\ LET adds == front[ws].at = "index"
           read == [at |-> IF adds THEN "add" ELSE "remove", request |-> front[ws].request,
                    index |-> index]
       IN  front' = [front EXCEPT ![ws] =
              IF \/ (ws \in ToSet(index)) = adds
                 \/ adds /\ Len(index) >= MaxPending
              THEN Idle ELSE read]
    /\ UNCHANGED <<now, schedule, effects, tick, kept, bounds>>

WriteIndex(ws) ==
    /\ front[ws].at \in {"add", "remove"}
    /\ index' = IF front[ws].at = "add" THEN Append(front[ws].index, ws)
                ELSE Remove(front[ws].index, ws)
    /\ front' = [front EXCEPT ![ws] = Idle]
    /\ UNCHANGED <<now, record, link, effects, tick, kept, bounds>>

Unlinked(request) == {l \in link : l.request # request}

\* cancelWorkspaceDeletion reads the link, which works until its day, and the record of its
\* workspace, which may be of a later request.
Cancel(l) ==
    /\ front[l.ws] = Idle
    /\ now < l.until /\ record[l.ws] # None
    /\ front' = [front EXCEPT ![l.ws] = [at |-> "clear", request |-> l.request]]
    /\ UNCHANGED <<now, schedule, effects, tick, kept, bounds>>

ClearRecord(ws) ==
    /\ front[ws].at = "clear"
    /\ record' = [record EXCEPT ![ws] = None]
    /\ kept' = IF record[ws] # None /\ now < record[ws].due
               THEN kept \cup {record[ws].request} ELSE kept
    /\ Wait(ws, "unlink")
    /\ UNCHANGED <<now, link, index, effects, tick, bounds>>

ClearLink(ws) ==
    /\ front[ws].at = "unlink"
    /\ link' = Unlinked(front[ws].request)
    /\ Wait(ws, "unindex")
    /\ UNCHANGED <<now, record, index, effects, tick, kept, bounds>>

\* The request is killed, or a statement of it fails.
GiveUp(ws) ==
    /\ front[ws] # Idle
    /\ Fault
    /\ front' = [front EXCEPT ![ws] = Idle]
    /\ UNCHANGED <<now, schedule, effects, tick, kept, requests, use>>

-----------------------------------------------------------------------------
(* The tick: runDueWorkspaceDeletions *)

\* The next workspace of the pass, or its end.
Turn(began, rest) ==
    IF rest = <<>> THEN Idle ELSE [at |-> "look", began |-> began, rest |-> rest]

BeginPass ==
    /\ tick = Idle
    /\ index # <<>>
    /\ tick' = Turn(now, SubSeq(index, 1, Min({Limit, Len(index)})))
    /\ UNCHANGED <<now, schedule, effects, front, kept, bounds>>

\* The workspace of a pass whose turn it is, and the pass after it.
Onwards == Turn(tick.began, Tail(tick.rest))
Leave(ws) == [at |-> "unindex", ws |-> ws, began |-> tick.began, rest |-> Tail(tick.rest)]
Start(ws) == [at |-> "step", ws |-> ws, began |-> tick.began, rest |-> Tail(tick.rest),
              step |-> 1, complete |-> TRUE, request |-> record[ws].request]

\* Mutants: carried out on its day only; carried out before its day.
LookOnDay(ws) ==
    /\ tick.at = "look" /\ ws = Head(tick.rest)
    /\ tick' = IF record[ws] = None THEN Leave(ws)
               ELSE IF tick.began # record[ws].due THEN Onwards
               ELSE Start(ws)
    /\ UNCHANGED <<now, schedule, effects, front, kept, bounds>>

LookNotAtDate(ws) ==
    /\ tick.at = "look" /\ ws = Head(tick.rest)
    /\ tick' = IF record[ws] = None THEN Leave(ws) ELSE Start(ws)
    /\ UNCHANGED <<now, schedule, effects, front, kept, bounds>>

\* A workspace whose record is gone leaves the index, one that is not due stays, and one
\* that is due is deleted from the first step on.
Look(ws) ==
    /\ tick.at = "look" /\ ws = Head(tick.rest)
    /\ tick' = IF record[ws] = None THEN Leave(ws)
               ELSE IF tick.began < record[ws].due THEN Onwards
               ELSE Start(ws)
    /\ UNCHANGED <<now, schedule, effects, front, kept, bounds>>

Step == DELETION_STEP[tick.step]
Stage(at, step, complete) ==
    [at |-> at, ws |-> tick.ws, began |-> tick.began, rest |-> tick.rest,
     step |-> step, complete |-> complete, request |-> tick.request]
Then(at) == tick' = Stage(at, tick.step, tick.complete)

\* Past the last step: announced when all are done, and to be resumed when not.
Advance(complete) ==
    tick' = IF tick.step < Len(DELETION_STEP)
            THEN Stage("step", tick.step + 1, complete)
            ELSE IF complete THEN Stage("announce", tick.step, complete)
            ELSE Turn(tick.began, tick.rest)

AlreadyDone ==
    /\ tick.at = "step" /\ Step \in checkpoint[tick.ws]
    /\ Advance(tick.complete)
    /\ UNCHANGED <<now, schedule, effects, front, kept, bounds>>

\* The effect first, the checkpoint after it.
RunStep ==
    LET held == rows[tick.ws]
    IN  /\ tick.at = "step" /\ Step \notin checkpoint[tick.ws]
        /\ rows' = [rows EXCEPT ![tick.ws] = Effect(held, Step)]
        /\ deleted' = IF Step = "mark_workspace_deleted"
                      THEN [deleted EXCEPT ![tick.ws] = TRUE] ELSE deleted
        /\ IF Step \in Purges /\ ~FoundEmpty(held, PURGE_TARGETS[Step])
           THEN Advance(FALSE)
           ELSE Then("checkpoint")
        /\ UNCHANGED <<now, schedule, checkpoint, claimed, announced, front, kept, bounds>>

WriteCheckpoint ==
    /\ tick.at = "checkpoint"
    /\ checkpoint' = [checkpoint EXCEPT ![tick.ws] = @ \cup {Step}]
    /\ Advance(tick.complete)
    /\ UNCHANGED <<now, schedule, rows, deleted, claimed, announced, front, kept, bounds>>

\* Mutant: a failed step is not remembered.
StepFailsQuietly ==
    /\ tick.at \in {"step", "checkpoint"}
    /\ Fault
    /\ Advance(tick.complete)
    /\ UNCHANGED <<now, schedule, effects, front, kept, requests, use>>

\* A statement of a step fails: the step is 'failed', and the next one runs.
StepFails ==
    /\ tick.at \in {"step", "checkpoint"}
    /\ Fault
    /\ Advance(FALSE)
    /\ UNCHANGED <<now, schedule, effects, front, kept, requests, use>>

\* notifications/send.ts: dispatchNotification claims the key, and then sends.
Sending(attempt) ==
    [at |-> "send", ws |-> tick.ws, began |-> tick.began, rest |-> tick.rest,
     step |-> tick.step, complete |-> tick.complete, request |-> tick.request,
     attempt |-> attempt]

\* Mutant: a key that was claimed is sent again.
ClaimAgain ==
    /\ tick.at = "announce"
    /\ claimed' = claimed \cup {tick.request}
    /\ tick' = Sending(1)
    /\ UNCHANGED <<now, schedule, checkpoint, rows, deleted, announced, front, kept, bounds>>

\* A key that was claimed before, settled or not, sends nothing.
Claim ==
    /\ tick.at = "announce"
    /\ claimed' = claimed \cup {tick.request}
    /\ IF tick.request \in claimed THEN Then("clear") ELSE tick' = Sending(1)
    /\ UNCHANGED <<now, schedule, checkpoint, rows, deleted, announced, front, kept, bounds>>

\* The insert fails, or the read of its row after it: nothing is sent, and the pass goes on.
ClaimFails ==
    /\ tick.at = "announce"
    /\ Fault
    /\ claimed' \in {claimed, claimed \cup {tick.request}}
    /\ Then("clear")
    /\ UNCHANGED <<now, schedule, checkpoint, rows, deleted, announced, front, kept, requests, use>>

Accept(heard) ==
    announced' = Append(announced, [request |-> tick.request, left |-> rows[tick.ws],
                                    heard |-> heard])
Retry == IF tick.attempt < Attempts THEN tick' = Sending(tick.attempt + 1) ELSE Then("clear")

Accepted ==
    /\ tick.at = "send"
    /\ Accept(TRUE)
    /\ Then("clear")
    /\ UNCHANGED <<now, schedule, checkpoint, rows, deleted, claimed, front, kept, bounds>>

\* Unavailable, and worth another attempt; or refused, no transport or no usable address.
NotAccepted ==
    /\ tick.at = "send"
    /\ Retry \/ Then("clear")
    /\ UNCHANGED <<now, schedule, effects, front, kept, bounds>>

\* The service accepts the message, and the answer is lost or comes after SEND_TIMEOUT_MS.
AnswerLost ==
    /\ tick.at = "send"
    /\ Fault
    /\ Accept(FALSE)
    /\ Retry
    /\ UNCHANGED <<now, schedule, checkpoint, rows, deleted, claimed, front, kept, requests, use>>

ClearDone ==
    /\ tick.at = "clear"
    /\ record' = [record EXCEPT ![tick.ws] = None]
    /\ Then("unlink")
    /\ UNCHANGED <<now, link, index, effects, front, kept, bounds>>

UnlinkDone ==
    /\ tick.at = "unlink"
    /\ link' = Unlinked(tick.request)
    /\ tick' = [at |-> "unindex", ws |-> tick.ws, began |-> tick.began, rest |-> tick.rest]
    /\ UNCHANGED <<now, record, index, effects, front, kept, bounds>>

ReadIndexDone ==
    /\ tick.at = "unindex"
    /\ tick' = IF tick.ws \in ToSet(index)
               THEN [at |-> "remove", ws |-> tick.ws, began |-> tick.began,
                     rest |-> tick.rest, index |-> index]
               ELSE Turn(tick.began, tick.rest)
    /\ UNCHANGED <<now, schedule, effects, front, kept, bounds>>

WriteIndexDone ==
    /\ tick.at = "remove"
    /\ index' = Remove(tick.index, tick.ws)
    /\ tick' = Turn(tick.began, tick.rest)
    /\ UNCHANGED <<now, record, link, effects, front, kept, bounds>>

\* The invocation is killed, or a statement outside the steps fails.
PassDies ==
    /\ tick # Idle
    /\ Fault
    /\ tick' = Idle
    /\ UNCHANGED <<now, schedule, effects, front, kept, requests, use>>

-----------------------------------------------------------------------------
(* Time, and the workspace in use: a sign-in by a member, a delivery that   *)
(* is admitted and a look at a run that is due, each for as long as what it *)
(* hangs on is there.                                                       *)

Tomorrow ==
    /\ now < MaxTime
    /\ now' = now + 1
    /\ UNCHANGED <<schedule, effects, front, tick, kept, bounds>>

HangsOn == [sessions |-> {"memberships"}, source_events |-> {"workflows", "connections"},
            evidence |-> {"source_events", "workflows"}, due |-> {"source_events", "workflows"},
            support_cases |-> {"memberships"}]

OneMore(held, kind) == [held EXCEPT ![kind] = @ + 1]

Use(ws, kind) ==
    /\ use < MaxUse
    /\ use' = use + 1
    /\ \A k \in HangsOn[kind] : rows[ws][k] > 0
    /\ rows' = [rows EXCEPT ![ws] = OneMore(rows[ws], kind)]
    /\ UNCHANGED <<now, schedule, checkpoint, deleted, claimed, announced, front, tick, kept,
                   requests, faults>>

-----------------------------------------------------------------------------

Init ==
    /\ now = 0
    /\ record = [ws \in Workspaces |-> None] /\ link = {} /\ index = <<>>
    /\ checkpoint = [ws \in Workspaces |-> {}]
    /\ rows = [ws \in Workspaces |-> Holding]
    /\ deleted = [ws \in Workspaces |-> FALSE]
    /\ claimed = {} /\ announced = <<>>
    /\ front = [ws \in Workspaces |-> Idle] /\ tick = Idle /\ kept = {}
    /\ requests = 0 /\ faults = 0 /\ use = 0

Proceed(ws) ==
    WriteLink(ws) \/ ReadIndex(ws) \/ WriteIndex(ws) \/ ClearRecord(ws) \/ ClearLink(ws)

Pass ==
    \/ BeginPass \/ (\E ws \in Workspaces : Look(ws))
    \/ AlreadyDone \/ RunStep \/ WriteCheckpoint
    \/ Claim \/ Accepted \/ NotAccepted \/ ClearDone \/ UnlinkDone \/ ReadIndexDone \/ WriteIndexDone

Next ==
    \/ \E ws \in Workspaces : Request(ws) \/ Proceed(ws) \/ GiveUp(ws)
    \/ \E l \in link : Cancel(l)
    \/ \E ws \in Workspaces : \E kind \in Uses : Use(ws, kind)
    \/ Pass \/ StepFails \/ ClaimFails \/ AnswerLost \/ PassDies \/ Tomorrow

Spec == Init /\ [][Next]_vars

\* Time passes, the tick runs every minute and a request that is not killed goes on.
FairSpec ==
    /\ Spec
    /\ WF_vars(Tomorrow) /\ WF_vars(Pass)
    /\ \A ws \in Workspaces : WF_vars(Proceed(ws))

-----------------------------------------------------------------------------
(* Properties *)

\* privacy/requests.ts: deletion_completed is sent only when nothing is left, no run a
\* tick would look at either, although a tick that held one while its workspace's work was
\* stopped writes it a new time to be looked at.
AnnouncedIsGone ==
    \A i \in DOMAIN announced : \A kind \in Kinds \ {"sessions"} : announced[i].left[kind] = 0

\* notifications/send.ts, "at most once": however many ticks a request took and wherever
\* they died, no confirmation follows one the service is known to have accepted.
AnnouncedOnce ==
    \A i, j \in DOMAIN announced :
        i < j /\ announced[i].request = announced[j].request => ~announced[i].heard

\* "You can stop this at any point before the date": of a request that was cancelled
\* before its day, no step runs, whatever pass was under way.
CancelledIsKept ==
    [][tick.at = "step" /\ tick.request \in kept => rows' = rows]_vars

\* A resumed deletion skips a step that is done, so of what that step removes nothing is
\* left, wherever the passes before it failed or died.
DoneIsEmpty ==
    \A ws \in Workspaces : \A step \in checkpoint[ws] \cap Purges :
        rows[ws][PURGE_TARGETS[step]] = 0

\* A pending request that the index names is carried out or cancelled: an incomplete pass
\* is retried on the next tick until it is complete.
IndexedIsCarriedOut ==
    \A ws \in Workspaces : []<>~(record[ws] # None /\ ws \in ToSet(index))
=============================================================================
