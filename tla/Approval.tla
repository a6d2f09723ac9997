------------------------------- MODULE Approval -------------------------------
(***************************************************************************)
(* Join-request admission: src/modules/approval/index.ts (the service),    *)
(* src/modules/approval/sync.ts (the admission-sync sweep), the approval   *)
(* table and the hourly maintenance that expires its rows.                 *)
(*                                                                         *)
(* A task is one asynchronous invocation of the service.  What it does     *)
(* between two awaits is one action.  Inside the per-flag lock the only    *)
(* await is the set_group_add_request call, so a task holds the lock       *)
(* exactly while its call is in flight.  Waiters are woken in any order,   *)
(* which includes the FIFO order NamedLocks shows.                         *)
(*                                                                         *)
(* CAPTCHA enters through the four operations the captcha service performs *)
(* on an approval; here they may happen at any time, module Captcha        *)
(* restricts them to what its handlers do.                                 *)
(***************************************************************************)
EXTENDS Naturals, Sequences

CONSTANTS
    Flags,      \* join requests, named by their OneBot flag
    Managed,    \* the ones whose group has Guardian enabled
    Tasks,      \* invocations in flight at once
    SweepTask,  \* the one the admission-sync loop awaits
    NoFlag,     \* flag of an idle task
    Ttl,        \* approval.pendingTtlSeconds
    MaxTime,    \* bound on the clock
    MaxCrashes  \* bound on process crashes

ASSUME ApprovalAssumption ==
    /\ Managed \subseteq Flags
    /\ SweepTask \in Tasks
    /\ NoFlag \notin Flags
    /\ Ttl \in Nat \ {0}
    /\ MaxTime \in Nat
    /\ MaxCrashes \in Nat

VARIABLES
    now,      \* the wall clock
    records,  \* table approval_records; a row's id is its position
    counted,  \* statistics: approvals_total bumps, per flag
    task,     \* what each task is doing
    sweep,    \* the admission-sync loop: _running and its remaining requests
    crashes,
    qq,       \* external: the request as QQ sees it
    sent,     \* external: decisions on their way to QQ
    acks      \* history: the decisions the provider acknowledged, and for whom

serviceVars == <<records, counted, task, sweep, crashes, acks>>
approvalVars == <<now, records, counted, task, sweep, crashes, qq, sent, acks>>

Decisions == {"approve", "reject"}
Actors == {"policy", "operator", "captcha"}
Statuses == {"pending", "captcha", "approved", "rejected", "expired"}
TaskStates == {"idle", "lock", "call", "returned"}

Record == [flag : Flags, status : Statuses, expires : Nat, penalised : BOOLEAN]
Task == [pc : TaskStates, by : Actors, flag : Flags \cup {NoFlag}, id : Nat, decision : Decisions]
Ack == [decision : Decisions, by : Actors]

Idle == [pc |-> "idle", by |-> "policy", flag |-> NoFlag, id |-> 0, decision |-> "approve"]

Ids == DOMAIN records

TypeOK ==
    /\ now \in Nat
    /\ records \in Seq(Record)
    /\ counted \in [Flags -> Nat]
    /\ task \in [Tasks -> Task]
    /\ sweep \in [running : BOOLEAN, todo : SUBSET Flags, fetched : BOOLEAN]
    /\ crashes \in Nat
    /\ qq \in [Flags -> {"absent", "open", "admitted", "refused"}]
    /\ sent \in [Flags -> SUBSET Decisions]
    /\ acks \in [Flags -> Seq(Ack)]

(* approvalRepo.findByFlag *)
HasRecord(f) == \E i \in Ids : records[i].flag = f

(* locks.approval(flag) is held. *)
Busy(f) == \E t \in Tasks : task[t].pc = "call" /\ task[t].flag = f

(* What an acknowledged decision makes of the request in QQ ... *)
Applied(d) == IF d = "approve" THEN "admitted" ELSE "refused"

(* ... and of the row. *)
Final(d) == IF d = "approve" THEN "approved" ELSE "rejected"

Sweeping(todo) == [running |-> TRUE, todo |-> todo, fetched |-> TRUE]
NotSweeping == [running |-> FALSE, todo |-> {}, fetched |-> FALSE]

Init ==
    /\ now = 0
    /\ records = <<>>
    /\ counted = [f \in Flags |-> 0]
    /\ task = [t \in Tasks |-> Idle]
    /\ sweep = NotSweeping
    /\ crashes = 0
    /\ qq = [f \in Flags |-> "absent"]
    /\ sent = [f \in Flags |-> {}]
    /\ acks = [f \in Flags |-> <<>>]

-----------------------------------------------------------------------------
(***************************************************************************)
(* The routing decision, in the order handleJoinRequest takes it.          *)
(***************************************************************************)
Facts == [blacklisted : BOOLEAN, activeKick : BOOLEAN,
          redFlag : {"none", "observe", "enforced"},
          rejectMatch : BOOLEAN,
          approveMatch : {"none", "custom", "builtin"},
          action : {"auto_approve", "auto_reject", "captcha", "manual"}]

Penalised(x) == x.blacklisted \/ x.activeKick \/ x.redFlag = "enforced"

(* The group's configured action, when no rule has matched. *)
Default(x) ==
    CASE x.action = "auto_approve" -> "approve"
      [] x.action = "auto_reject" -> "reject"
      [] x.action \in {"captcha", "manual"} -> x.action

(* The built-in referral heuristic counts only in manual-review groups. *)
ApproveRuleMatches(x) ==
    \/ x.approveMatch = "custom"
    \/ x.approveMatch = "builtin" /\ x.action = "manual"

(* A mutant that consults the allow rules first. *)
VerdictApproveFirst(x) ==
    IF ApproveRuleMatches(x) THEN "approve"
    ELSE IF Penalised(x) \/ x.rejectMatch THEN "reject"
    ELSE Default(x)

Verdict(x) ==
    IF Penalised(x) \/ x.rejectMatch THEN "reject"
    ELSE IF ApproveRuleMatches(x) THEN "approve"
    ELSE Default(x)

Outcomes == {[verdict |-> Verdict(x), penalised |-> Penalised(x)] : x \in Facts}

-----------------------------------------------------------------------------
(***************************************************************************)
(* QQ and the provider (external).  A decision that was sent may take      *)
(* effect at any later time, once; the first one to do so decides.         *)
(***************************************************************************)
RequestArrives(f) ==
    /\ qq[f] = "absent"
    /\ qq' = [qq EXCEPT ![f] = "open"]
    /\ UNCHANGED <<now, serviceVars, sent>>

QQApplies(f, d) ==
    /\ qq[f] = "open"
    /\ d \in sent[f]
    /\ qq' = [qq EXCEPT ![f] = Applied(d)]
    /\ UNCHANGED <<now, serviceVars, sent>>

(* A human administrator decides inside QQ. *)
HumanDecides(f) ==
    /\ qq[f] = "open"
    /\ \E d \in Decisions : qq' = [qq EXCEPT ![f] = Applied(d)]
    /\ UNCHANGED <<now, serviceVars, sent>>

Tick ==
    /\ now < MaxTime
    /\ now' = now + 1
    /\ UNCHANGED <<serviceVars, qq, sent>>

-----------------------------------------------------------------------------
(***************************************************************************)
(* Building blocks.  StartCall enters the await inside the lock.           *)
(***************************************************************************)
StartCall(t, k) ==
    /\ task' = [task EXCEPT ![t] = [k EXCEPT !.pc = "call"]]
    /\ sent' = [sent EXCEPT ![k.flag] = @ \cup {k.decision}]

(* A captcha operation returns to its caller, the others just end. *)
Ended(k) == IF k.by = "captcha" THEN [k EXCEPT !.pc = "returned"] ELSE Idle

End(t) == task' = [task EXCEPT ![t] = Ended(@)]

SetStatus(i, s) == records' = [records EXCEPT ![i].status = s]

Waits(t, by) == task[t].pc = "lock" /\ task[t].by = by

-----------------------------------------------------------------------------
(***************************************************************************)
(* handleJoinRequest: the group is enabled; then intelService.ensureFresh  *)
(* and the lock are awaited, and nothing is read between the two.          *)
(***************************************************************************)
StartRoute(t, f) ==
    /\ f \in Managed
    /\ task[t].pc = "idle"
    /\ task' = [task EXCEPT ![t] = [Idle EXCEPT !.pc = "lock", !.flag = f]]

HandleJoinRequest(t, f) ==
    /\ t # SweepTask
    /\ qq[f] # "absent"
    /\ StartRoute(t, f)
    /\ UNCHANGED <<now, records, counted, sweep, crashes, qq, sent, acks>>

NewRecord(f, s, p) == [flag |-> f, status |-> s, expires |-> now + Ttl, penalised |-> p]

(* statisticsRepo.bump(group, 'approvals_total'), a transaction of its own. *)
Count(f) == counted' = [counted EXCEPT ![f] = @ + 1]

(* The mutant routes on the absence of a lock holder alone. *)
RouteWithoutRecordCheck(t) ==
    /\ Waits(t, "policy")
    /\ ~Busy(task[t].flag)
    /\ LET f == task[t].flag IN
       /\ Len(records) < 3
       /\ Count(f)
       /\ records' = Append(records, NewRecord(f, "pending", FALSE))
       /\ task' = [task EXCEPT ![t] = Idle]
       /\ UNCHANGED <<now, sweep, crashes, qq, sent, acks>>

(***************************************************************************)
(* The critical section of handleJoinRequest: a flag with a record is left *)
(* alone; otherwise the request is counted, recorded, and an automatic     *)
(* decision is sent.                                                       *)
(***************************************************************************)
Route(t) ==
    /\ Waits(t, "policy")
    /\ ~Busy(task[t].flag)
    /\ LET f == task[t].flag IN
       \/ /\ HasRecord(f)
          /\ End(t)
          /\ UNCHANGED <<records, counted, sent>>
       \/ /\ ~HasRecord(f)
          /\ Count(f)
          /\ \E o \in Outcomes :
               \/ /\ o.verdict \in Decisions
                  /\ records' = Append(records, NewRecord(f, "pending", o.penalised))
                  /\ StartCall(t, [task[t] EXCEPT !.id = Len(records) + 1, !.decision = o.verdict])
               \/ /\ o.verdict \in {"captcha", "manual"}
                  /\ records' = Append(records,
                        NewRecord(f, IF o.verdict = "manual" THEN "pending" ELSE "captcha", o.penalised))
                  /\ End(t)
                  /\ UNCHANGED sent
    /\ UNCHANGED <<now, sweep, crashes, qq, acks>>

(***************************************************************************)
(* approveManually and rejectManually: find the row, queue for its lock,   *)
(* re-read it there.                                                       *)
(***************************************************************************)
StartManual(t, i, d) ==
    /\ t # SweepTask
    /\ task[t].pc = "idle"
    /\ task' = [task EXCEPT ![t] = [pc |-> "lock", by |-> "operator",
                                    flag |-> records[i].flag, id |-> i, decision |-> d]]
    /\ UNCHANGED <<now, records, counted, sweep, crashes, qq, sent, acks>>

DecideManually(t) ==
    /\ Waits(t, "operator")
    /\ ~Busy(task[t].flag)
    /\ LET r == records[task[t].id] IN
       \/ /\ r.status # "pending"
          /\ End(t)
          /\ UNCHANGED <<records, sent>>
       \/ /\ r.status = "pending" /\ r.expires <= now
          /\ SetStatus(task[t].id, "expired")
          /\ End(t)
          /\ UNCHANGED sent
       \/ /\ r.status = "pending" /\ now < r.expires
          /\ StartCall(t, task[t])
          /\ UNCHANGED records
    /\ UNCHANGED <<now, counted, sweep, crashes, qq, acks>>

(***************************************************************************)
(* approveAfterCaptcha and rejectAfterCaptchaFail; the caller has seen the *)
(* status `captcha' before it queues for the lock.                         *)
(***************************************************************************)
StartAfterCaptcha(t, i, d) ==
    /\ task[t].pc = "idle"
    /\ records[i].status = "captcha"
    /\ task' = [task EXCEPT ![t] = [pc |-> "lock", by |-> "captcha",
                                    flag |-> records[i].flag, id |-> i, decision |-> d]]
    /\ UNCHANGED <<now, records, counted, sweep, crashes, qq, sent, acks>>

DecideAfterCaptcha(t) ==
    /\ Waits(t, "captcha")
    /\ ~Busy(task[t].flag)
    /\ \/ /\ records[task[t].id].status # "captcha"
          /\ End(t)
          /\ UNCHANGED sent
       \/ /\ records[task[t].id].status = "captcha"
          /\ StartCall(t, task[t])
    /\ UNCHANGED <<now, records, counted, sweep, crashes, qq, acks>>

ReturnAfterCaptcha(t) ==
    /\ task[t].pc = "returned"
    /\ task' = [task EXCEPT ![t] = Idle]
    /\ UNCHANGED <<now, records, counted, sweep, crashes, qq, sent, acks>>

(***************************************************************************)
(* The provider answers.  On success updateStatus overwrites whatever the  *)
(* row says by now; on an error or a timeout _markActionFailure returns an *)
(* undecided row to the manual queue.                                      *)
(***************************************************************************)
Acknowledge(t) ==
    /\ task[t].pc = "call"
    /\ LET k == task[t] IN
       /\ qq[k.flag] = Applied(k.decision)
       /\ SetStatus(k.id, Final(k.decision))
       /\ acks' = [acks EXCEPT ![k.flag] = Append(@, [decision |-> k.decision, by |-> k.by])]
    /\ End(t)
    /\ UNCHANGED <<now, counted, sweep, crashes, qq, sent>>

_markActionFailure(i) ==
    IF records[i].status \in {"pending", "captcha"}
    THEN SetStatus(i, "pending")
    ELSE UNCHANGED records

CallFails(t) ==
    /\ task[t].pc = "call"
    /\ _markActionFailure(task[t].id)
    /\ End(t)
    /\ UNCHANGED <<now, counted, sweep, crashes, qq, sent, acks>>

-----------------------------------------------------------------------------
(***************************************************************************)
(* Status changes made outside the per-flag lock.                          *)
(***************************************************************************)

(***************************************************************************)
(* The captcha service's writes: rows of P go back to the manual queue     *)
(* (_markApprovalPending and the retired sessions of a reconciliation),    *)
(* rows of E have passed their deadline.  Both updates apply to rows that  *)
(* still say `captcha'.                                                    *)
(***************************************************************************)
RowsForCaptcha(P, E) ==
    /\ P \cap E = {}
    /\ \A i \in P \cup E : records[i].status = "captcha"
    /\ \A i \in E : records[i].expires < now

WriteRows(P, E) ==
    records' = [i \in Ids |-> IF i \in P THEN [records[i] EXCEPT !.status = "pending"]
                              ELSE IF i \in E THEN [records[i] EXCEPT !.status = "expired"]
                              ELSE records[i]]

CaptchaWrites(P, E) ==
    /\ P \cup E # {}
    /\ RowsForCaptcha(P, E)
    /\ WriteRows(P, E)
    /\ UNCHANGED <<now, counted, task, sweep, crashes, qq, sent, acks>>

ExpireDecidedToo(r) == r.expires <= now

Expirable(r) == r.status \in {"pending", "captcha"} /\ r.expires <= now

(* runHourlyMaintenance: approvalRepo.expireOldPending *)
ExpireOldPending ==
    /\ \E i \in Ids : Expirable(records[i])
    /\ records' = [i \in Ids |-> IF Expirable(records[i])
                                 THEN [records[i] EXCEPT !.status = "expired"]
                                 ELSE records[i]]
    /\ UNCHANGED <<now, counted, task, sweep, crashes, qq, sent, acks>>

-----------------------------------------------------------------------------
(***************************************************************************)
(* syncPendingJoinRequests: one sweep at a time; fetch QQ's unchecked      *)
(* requests, then hand each one without a record to handleJoinRequest and  *)
(* await it.                                                               *)
(***************************************************************************)
StartSweep ==
    /\ ~sweep.running
    /\ sweep' = [sweep EXCEPT !.running = TRUE]
    /\ UNCHANGED <<now, records, counted, task, crashes, qq, sent, acks>>

SweepFetches ==
    /\ sweep.running /\ ~sweep.fetched
    /\ sweep' = Sweeping({f \in Flags : qq[f] = "open"})
    /\ UNCHANGED <<now, records, counted, task, crashes, qq, sent, acks>>

SweepFetchFails ==
    /\ sweep.running /\ ~sweep.fetched
    /\ sweep' = NotSweeping
    /\ UNCHANGED <<now, records, counted, task, crashes, qq, sent, acks>>

SweepTakes(f) ==
    IF f \in Managed /\ ~HasRecord(f)
    THEN StartRoute(SweepTask, f)
    ELSE UNCHANGED task

SweepNext(f) ==
    /\ f \in sweep.todo
    /\ task[SweepTask].pc = "idle"
    /\ sweep' = Sweeping(sweep.todo \ {f})
    /\ SweepTakes(f)
    /\ UNCHANGED <<now, records, counted, crashes, qq, sent, acks>>

SweepEnds ==
    /\ sweep.fetched /\ sweep.todo = {}
    /\ task[SweepTask].pc = "idle"
    /\ sweep' = NotSweeping
    /\ UNCHANGED <<now, records, counted, task, crashes, qq, sent, acks>>

(***************************************************************************)
(* The process dies: every task, lock and sweep is gone; the table and     *)
(* what was sent to QQ remain.  It may die between two actions, or within  *)
(* Route, which commits the count before it inserts the record.            *)
(***************************************************************************)
CountedOnly(t) ==
    /\ Waits(t, "policy")
    /\ ~Busy(task[t].flag)
    /\ ~HasRecord(task[t].flag)
    /\ Count(task[t].flag)

Crash ==
    /\ crashes < MaxCrashes
    /\ crashes' = crashes + 1
    /\ \/ UNCHANGED counted
       \/ \E t \in Tasks : CountedOnly(t)
    /\ task' = [t \in Tasks |-> Idle]
    /\ sweep' = NotSweeping
    /\ UNCHANGED <<now, records, qq, sent, acks>>

-----------------------------------------------------------------------------
QQNext ==
    \E f \in Flags :
        \/ RequestArrives(f)
        \/ HumanDecides(f)
        \/ \E d \in Decisions : QQApplies(f, d)

TaskNext(t) ==
    \/ Route(t) \/ DecideManually(t) \/ DecideAfterCaptcha(t)
    \/ Acknowledge(t) \/ CallFails(t)

SweepStep == StartSweep \/ SweepFetches \/ SweepFetchFails \/ SweepEnds \/ \E f \in Flags : SweepNext(f)

(* What does not involve CAPTCHA. *)
CoreNext ==
    \/ Tick
    \/ QQNext
    \/ SweepStep
    \/ ExpireOldPending
    \/ \E t \in Tasks :
         \/ TaskNext(t)
         \/ \E f \in Flags : HandleJoinRequest(t, f)
         \/ \E i \in Ids, d \in Decisions : StartManual(t, i, d)

(* The captcha service, unconstrained. *)
CaptchaNext ==
    \/ \E P, E \in SUBSET Ids : CaptchaWrites(P, E)
    \/ \E t \in Tasks \ {SweepTask} :
         \/ ReturnAfterCaptcha(t)
         \/ \E i \in Ids, d \in Decisions : StartAfterCaptcha(t, i, d)

Next == CoreNext \/ CaptchaNext \/ Crash

Spec == Init /\ [][Next]_approvalVars

(***************************************************************************)
(* The sweep's interval timer keeps firing; a fetch that keeps being tried *)
(* eventually succeeds; provider calls settle (they carry deadlines); the  *)
(* FIFO lock serves the sweep's task however often others take it.         *)
(***************************************************************************)
Fairness ==
    /\ WF_approvalVars(StartSweep)
    /\ SF_approvalVars(SweepFetches)
    /\ \A f \in Flags : WF_approvalVars(SweepNext(f))
    /\ WF_approvalVars(SweepEnds)
    /\ SF_approvalVars(Route(SweepTask))
    /\ \A t \in Tasks : WF_approvalVars(Acknowledge(t) \/ CallFails(t))

FairSpec == Spec /\ Fairness

-----------------------------------------------------------------------------
(***************************************************************************)
(* "a request is never routed (nor counted) twice": whatever live events,  *)
(* sweeps, failed calls and crashes do, a flag has at most one record; a   *)
(* recorded request was counted, and it is counted again only where the    *)
(* process died between the count and the record: once per death.          *)
(***************************************************************************)
RoutedOnce ==
    /\ \A i, j \in Ids : records[i].flag = records[j].flag => i = j
    /\ \A f \in Flags : HasRecord(f) => counted[f] \in 1..(1 + crashes)
    /\ \A f \in Flags : ~HasRecord(f) => counted[f] <= crashes

(***************************************************************************)
(* At most one decision per request is ever acknowledged, and the row says *)
(* that decision for ever after: no racing operator, captcha answer,       *)
(* expiry or failure write changes it, and QQ agrees with it.              *)
(***************************************************************************)
AckedDecisionStands ==
    \A f \in Flags : acks[f] # <<>> =>
        /\ Len(acks[f]) = 1
        /\ qq[f] = Applied(acks[f][1].decision)
        /\ \A i \in Ids : records[i].flag = f => records[i].status = Final(acks[f][1].decision)

(***************************************************************************)
(* A row says approved or rejected only for a decision the provider        *)
(* acknowledged.                                                           *)
(***************************************************************************)
FinalOnlyIfAcked ==
    \A i \in Ids : records[i].status \in {"approved", "rejected"} =>
        acks[records[i].flag] # <<>>

(***************************************************************************)
(* An applicant who was blacklisted, under an active kick or on the        *)
(* enforced red-flag list when routed is admitted, if ever, by an          *)
(* operator: never by policy and never by passing a CAPTCHA.               *)
(***************************************************************************)
PenalisedNeverAutoAdmitted ==
    \A i \in Ids : records[i].penalised =>
        \A n \in DOMAIN acks[records[i].flag] :
            LET a == acks[records[i].flag][n] IN a.decision = "approve" => a.by = "operator"

-----------------------------------------------------------------------------
(***************************************************************************)
(* Strengthening: what an in-flight call says about its row.  The status   *)
(* may have been changed under it, but only among the undecided ones.      *)
(***************************************************************************)
CallsAreExclusive ==
    \A t, u \in Tasks :
        task[t].pc = "call" /\ task[u].pc = "call" /\ task[t].flag = task[u].flag => t = u

TasksNameRows ==
    \A t \in Tasks :
        /\ task[t].pc = "lock" => task[t].flag \in Flags
        /\ \/ task[t].pc = "call"
           \/ task[t].pc = "lock" /\ task[t].by # "policy"
           => task[t].id \in Ids /\ records[task[t].id].flag = task[t].flag
        /\ task[t].pc = "call" =>
             /\ task[t].flag \in Flags
             /\ acks[task[t].flag] = <<>>
             /\ records[task[t].id].status \in {"pending", "captcha", "expired"}
             /\ task[t].by = "captcha" => ~records[task[t].id].penalised
             /\ task[t].by = "policy" /\ records[task[t].id].penalised => task[t].decision = "reject"

CaptchaRowsAreClean ==
    \A i \in Ids : records[i].status = "captcha" => ~records[i].penalised

AcksHaveRows == \A f \in Flags : acks[f] # <<>> => HasRecord(f)

IndInv ==
    /\ TypeOK
    /\ RoutedOnce
    /\ AckedDecisionStands
    /\ FinalOnlyIfAcked
    /\ PenalisedNeverAutoAdmitted
    /\ CallsAreExclusive
    /\ TasksNameRows
    /\ CaptchaRowsAreClean
    /\ AcksHaveRows
=============================================================================
