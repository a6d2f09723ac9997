-------------------------------- MODULE Captcha --------------------------------
(***************************************************************************)
(* The CAPTCHA gate of the admission service:                              *)
(* src/modules/captcha/index.ts composed with Approval.                    *)
(*                                                                         *)
(* A handler holds locks.captcha(approval) across its provider calls and   *)
(* takes the approval's flag lock inside it.  locks.captchaUser is held    *)
(* only within one turn, so what it protects is part of a single action.   *)
(* Private notices change nothing and are left out; the delivery of a      *)
(* challenge, whose failure does, is kept.                                 *)
(***************************************************************************)
EXTENDS Approval, FiniteSets

CONSTANTS
    Users,        \* applicants
    UserOf,       \* the applicant of each request
    MaxActive,    \* MAX_ACTIVE_CAPTCHA_SESSIONS_PER_USER
    MaxAttempts,  \* captcha.maxAttempts
    CaptchaTtl,   \* captcha.ttlSeconds
    LegacyRows    \* requests that may have a session from before the upgrade

ASSUME CaptchaAssumption ==
    /\ UserOf \in [Flags -> Users]
    /\ {MaxActive, MaxAttempts, CaptchaTtl} \subseteq Nat \ {0}
    /\ LegacyRows \in Seq(Flags)
    /\ \A m, n \in DOMAIN LegacyRows : LegacyRows[m] = LegacyRows[n] => m = n

VARIABLES
    sess,     \* table captcha_sessions, by approval id (one session each)
    toIssue,  \* CaptchaRequired handlers that wait for the captcha lock
    sending,  \* handlers that hold it and await the delivery of the challenge
    answer    \* per task: the session it works on, if any

captchaVars == <<sess, toIssue, sending, answer>>
vars == <<approvalVars, captchaVars>>

Session == [attempts : Nat, expires : Nat, solved : BOOLEAN, passed : BOOLEAN]
NoAnswer == [pc |-> "none", id |-> 0, correct |-> FALSE]

CaptchaTypeOK ==
    /\ TypeOK
    /\ DOMAIN sess \subseteq Ids /\ sess \in [DOMAIN sess -> Session]
    /\ toIssue \subseteq Ids /\ sending \subseteq Ids
    /\ answer \in [Tasks -> [pc : {"none", "wait", "decide"}, id : Ids \cup {0}, correct : BOOLEAN]]

NewSession == [attempts |-> 0, expires |-> now + CaptchaTtl, solved |-> FALSE, passed |-> FALSE]

(***************************************************************************)
(* The table is empty, or holds open sessions written by a version that    *)
(* had no per-user limit.                                                  *)
(***************************************************************************)
CaptchaInit ==
    /\ \E n \in 0..Len(LegacyRows) :
         LET legacy == {LegacyRows[i] : i \in 1..n} IN
         /\ records = [i \in 1..n |-> [flag |-> LegacyRows[i], status |-> "captcha",
                                       expires |-> Ttl, penalised |-> FALSE]]
         /\ sess \in [1..n -> {[attempts |-> 0, expires |-> e, solved |-> FALSE, passed |-> FALSE] :
                                 e \in 1..CaptchaTtl}]
         /\ counted = [f \in Flags |-> IF f \in legacy THEN 1 ELSE 0]
         /\ qq = [f \in Flags |-> IF f \in legacy THEN "open" ELSE "absent"]
    /\ now = 0
    /\ task = [t \in Tasks |-> Idle]
    /\ sweep = NotSweeping
    /\ crashes = 0
    /\ sent = [f \in Flags |-> {}]
    /\ acks = [f \in Flags |-> <<>>]
    /\ toIssue = {} /\ sending = {}
    /\ answer = [t \in Tasks |-> NoAnswer]

-----------------------------------------------------------------------------
SessionUser(i) == UserOf[records[i].flag]

Open(i) == i \in DOMAIN sess /\ ~sess[i].solved

(* The session's own deadline; a session is usable at the deadline itself. *)
Stale(i) == sess[i].expires < now

(* locks.captcha(i) is held. *)
CaptchaBusy(i) ==
    i \in sending \/ \E t \in Tasks : answer[t].pc = "decide" /\ answer[t].id = i

Closed(S) == [i \in DOMAIN sess |-> IF i \in S THEN [sess[i] EXCEPT !.solved = TRUE] ELSE sess[i]]

-----------------------------------------------------------------------------
(***************************************************************************)
(* _reconcileActiveSessions, one transaction: expire the user's overdue    *)
(* captcha rows, close the open sessions whose row is not `captcha' (any   *)
(* more), keep the newest sessions up to the limit and send the rest back  *)
(* to manual review.  Expired sessions are left to the sweep.              *)
(***************************************************************************)
Overdue(u) == {i \in Ids : SessionUser(i) = u /\ records[i].status = "captcha" /\ records[i].expires < now}

Orphans(u) == {i \in DOMAIN sess : Open(i) /\ SessionUser(i) = u
                                   /\ (records[i].status # "captcha" \/ i \in Overdue(u))}

Candidates(u) == {i \in DOMAIN sess : Open(i) /\ SessionUser(i) = u /\ ~Stale(i)
                                      /\ records[i].status = "captcha" /\ i \notin Overdue(u)}

(* The possible sets of kept sessions: ties in age are broken by a random id. *)
Kept(u) ==
    {K \in SUBSET Candidates(u) :
        /\ Cardinality(K) = IF Cardinality(Candidates(u)) < MaxActive
                            THEN Cardinality(Candidates(u)) ELSE MaxActive
        /\ \A k \in K, r \in Candidates(u) \ K : sess[k].expires >= sess[r].expires}

Retired(u, K) == Candidates(u) \ K

Reconciled(u, K) == Closed(Orphans(u) \cup Retired(u, K))

-----------------------------------------------------------------------------
(***************************************************************************)
(* Routing to CAPTCHA emits CaptchaRequired, whose handler starts          *)
(* issueChallenge for the new row.                                         *)
(***************************************************************************)
RouteAndEmit(t) ==
    /\ Route(t)
    /\ toIssue' = toIssue \cup {i \in Ids' \ Ids : records'[i].status = "captcha"}
    /\ UNCHANGED <<sess, sending, answer>>

(***************************************************************************)
(* issueChallenge up to its first provider call.  The row is re-read under *)
(* the user lock; at the limit it goes to manual review, otherwise a       *)
(* session is inserted and delivery starts with the captcha lock held.     *)
(* The conditional claim of the row cannot miss: it shares the turn with   *)
(* the re-read.                                                            *)
(***************************************************************************)
IssueChallenge(i) ==
    /\ i \in toIssue /\ ~CaptchaBusy(i)
    /\ toIssue' = toIssue \ {i}
    /\ LET u == SessionUser(i) IN
       \/ /\ records[i].status # "captcha" \/ records[i].expires < now
          /\ UNCHANGED <<approvalVars, sess, sending>>
       \/ /\ records[i].status = "captcha" /\ now <= records[i].expires
          /\ \E K \in Kept(u) :
               \/ /\ Cardinality(K) >= MaxActive
                  /\ WriteRows(Retired(u, K) \cup {i}, Overdue(u))
                  /\ sess' = Reconciled(u, K)
                  /\ UNCHANGED sending
               \/ /\ Cardinality(K) < MaxActive
                  /\ WriteRows(Retired(u, K), Overdue(u))
                  /\ sess' = [j \in DOMAIN sess \cup {i} |->
                                IF j = i THEN NewSession ELSE Reconciled(u, K)[j]]
                  /\ sending' = sending \cup {i}
          /\ UNCHANGED <<now, counted, task, sweep, crashes, qq, sent, acks>>
    /\ UNCHANGED answer

ChallengeDelivered(i) ==
    /\ i \in sending
    /\ sending' = sending \ {i}
    /\ UNCHANGED <<approvalVars, sess, toIssue, answer>>

DeliveryFailsUnconditionally(i) ==
    /\ i \in sending
    /\ sending' = sending \ {i}
    /\ sess' = Closed({i})
    /\ WriteRows({i}, {})
    /\ UNCHANGED <<now, counted, task, sweep, crashes, qq, sent, acks, toIssue, answer>>

(* "A challenge that could not be delivered is not usable." *)
DeliveryFails(i) ==
    /\ i \in sending
    /\ sending' = sending \ {i}
    /\ sess' = Closed({i})
    /\ WriteRows(IF records[i].status = "captcha" THEN {i} ELSE {}, {})
    /\ UNCHANGED <<now, counted, task, sweep, crashes, qq, sent, acks, toIssue, answer>>

-----------------------------------------------------------------------------
(***************************************************************************)
(* handlePrivateMessage: reconcile, then route the reply.  With one active *)
(* session a plain reply goes to it; otherwise only a reply that names an  *)
(* active session's code is routed, and anything else gets a hint.  With   *)
(* none, a stale session (the oldest) is still taken, to be rejected.      *)
(***************************************************************************)
Plain == 0

Addressed(u, K, target) ==
    IF K # {}
    THEN {i \in K : i = target \/ (target = Plain /\ K = {i})}
    ELSE LET stale == {i \in DOMAIN sess : Open(i) /\ SessionUser(i) = u /\ Stale(i)
                                           /\ records[i].status = "captcha" /\ i \notin Overdue(u)}
         IN  {i \in stale : \A j \in stale : sess[i].expires <= sess[j].expires}

HandlePrivateMessage(t, u, target, correct) ==
    /\ t # SweepTask /\ task[t].pc = "idle" /\ answer[t].pc = "none"
    /\ \E K \in Kept(u) :
         /\ WriteRows(Retired(u, K), Overdue(u))
         /\ sess' = Reconciled(u, K)
         /\ IF Addressed(u, K, target) = {}
            THEN UNCHANGED answer
            ELSE \E i \in Addressed(u, K, target) :
                   answer' = [answer EXCEPT ![t] = [pc |-> "wait", id |-> i, correct |-> correct]]
    /\ UNCHANGED <<now, counted, task, sweep, crashes, qq, sent, acks, toIssue, sending>>

DecideLeavingOpen(t, i, d, s) ==
    \/ /\ records[i].status # "captcha"
       /\ sess' = s
       /\ answer' = [answer EXCEPT ![t] = NoAnswer]
       /\ UNCHANGED approvalVars
    \/ /\ StartAfterCaptcha(t, i, d)
       /\ sess' = s
       /\ answer' = [answer EXCEPT ![t] = [NoAnswer EXCEPT !.pc = "decide", !.id = i]]

(* _approveSessionLocked and _rejectSessionLocked up to the flag lock. *)
Decide(t, i, d, s) ==
    \/ /\ records[i].status # "captcha"
       /\ sess' = [s EXCEPT ![i].solved = TRUE]
       /\ answer' = [answer EXCEPT ![t] = NoAnswer]
       /\ UNCHANGED approvalVars
    \/ /\ StartAfterCaptcha(t, i, d)
       /\ sess' = s
       /\ answer' = [answer EXCEPT ![t] = [NoAnswer EXCEPT !.pc = "decide", !.id = i]]

Drop(t) ==
    /\ answer' = [answer EXCEPT ![t] = NoAnswer]
    /\ UNCHANGED <<approvalVars, sess>>

Attempt(i, correct) == [sess EXCEPT ![i].attempts = @ + 1, ![i].passed = correct]

ProcessBudgetFirst(t) ==
    /\ answer[t].pc = "wait" /\ ~CaptchaBusy(answer[t].id)
    /\ LET i == answer[t].id
           after == Attempt(i, answer[t].correct) IN
       IF sess[i].solved THEN Drop(t)
       ELSE Decide(t, i, IF after[i].attempts < MaxAttempts THEN "approve" ELSE "reject", after)
    /\ UNCHANGED <<toIssue, sending>>

ProcessBudgetLate(t) ==
    /\ answer[t].pc = "wait" /\ ~CaptchaBusy(answer[t].id)
    /\ LET i == answer[t].id IN
       IF sess[i].solved THEN Drop(t)
       ELSE IF answer[t].correct THEN Decide(t, i, "approve", Attempt(i, TRUE))
       ELSE /\ sess' = Attempt(i, FALSE)
            /\ answer' = [answer EXCEPT ![t] = NoAnswer]
            /\ UNCHANGED approvalVars
    /\ UNCHANGED <<toIssue, sending>>

(***************************************************************************)
(* _processAnswer, under the captcha lock.                                 *)
(***************************************************************************)
ProcessAnswer(t) ==
    /\ answer[t].pc = "wait" /\ ~CaptchaBusy(answer[t].id)
    /\ LET i == answer[t].id
           after == Attempt(i, answer[t].correct) IN
       \/ sess[i].solved /\ Drop(t)
       \/ ~sess[i].solved /\ Stale(i) /\ Decide(t, i, "reject", sess)
       \/ ~sess[i].solved /\ ~Stale(i) /\ answer[t].correct /\ Decide(t, i, "approve", after)
       \/ /\ ~sess[i].solved /\ ~Stale(i) /\ ~answer[t].correct
          /\ after[i].attempts >= MaxAttempts
          /\ Decide(t, i, "reject", after)
       \/ /\ ~sess[i].solved /\ ~Stale(i) /\ ~answer[t].correct
          /\ after[i].attempts < MaxAttempts
          /\ sess' = after
          /\ answer' = [answer EXCEPT ![t] = NoAnswer]
          /\ UNCHANGED approvalVars
    /\ UNCHANGED <<toIssue, sending>>

(***************************************************************************)
(* One action of the expiry sweep: tryWithLock, re-read the session,       *)
(* reject it.  CaptchaSweep models how many run at once.                   *)
(***************************************************************************)
ExpireSession(t, i) ==
    /\ t # SweepTask /\ task[t].pc = "idle" /\ answer[t].pc = "none"
    /\ Open(i) /\ Stale(i) /\ ~CaptchaBusy(i)
    /\ Decide(t, i, "reject", sess)
    /\ UNCHANGED <<toIssue, sending>>

(* The decision came back, true, false or failed: close the session. *)
AfterDecision(t) ==
    /\ answer[t].pc = "decide" /\ ReturnAfterCaptcha(t)
    /\ sess' = Closed({answer[t].id})
    /\ answer' = [answer EXCEPT ![t] = NoAnswer]
    /\ UNCHANGED <<toIssue, sending>>

(***************************************************************************)
(* The process dies: between two actions, or within one that commits       *)
(* twice, after its first write.  A failed delivery closes the session     *)
(* before it returns the row; a reply is counted before it is judged.      *)
(***************************************************************************)
CaptchaCrash ==
    /\ Crash
    /\ \/ UNCHANGED sess
       \/ \E i \in sending : sess' = Closed({i})
       \/ \E t \in Tasks :
            /\ answer[t].pc = "wait" /\ ~CaptchaBusy(answer[t].id)
            /\ ~sess[answer[t].id].solved /\ ~Stale(answer[t].id)
            /\ sess' = Attempt(answer[t].id, answer[t].correct)
    /\ toIssue' = {} /\ sending' = {}
    /\ answer' = [t \in Tasks |-> NoAnswer]

-----------------------------------------------------------------------------
(***************************************************************************)
(* The parts of Approval that go on unchanged.  The admission-sync loop    *)
(* (another source of routed requests) and decisions a human takes inside  *)
(* QQ (to the CAPTCHA, failed calls) are left to Approval.                 *)
(***************************************************************************)
ApprovalStep ==
    \/ Tick
    \/ \E f \in Flags : RequestArrives(f) \/ \E d \in Decisions : QQApplies(f, d)
    \/ ExpireOldPending
    \/ \E t \in Tasks :
         \/ DecideManually(t) \/ DecideAfterCaptcha(t) \/ Acknowledge(t) \/ CallFails(t)
         \/ answer[t].pc = "none" /\ \E f \in Flags : HandleJoinRequest(t, f)
         \/ answer[t].pc = "none" /\ \E i \in Ids, d \in Decisions : StartManual(t, i, d)

CaptchaAction ==
    \/ \E i \in Ids : IssueChallenge(i) \/ ChallengeDelivered(i) \/ DeliveryFails(i)
    \/ \E t \in Tasks :
         \/ \E u \in Users, target \in Ids \cup {Plain}, correct \in BOOLEAN :
              HandlePrivateMessage(t, u, target, correct)
         \/ ProcessAnswer(t)
         \/ \E i \in DOMAIN sess : ExpireSession(t, i)
         \/ AfterDecision(t)

CaptchaAdmissionNext ==
    \/ ApprovalStep /\ UNCHANGED captchaVars
    \/ \E t \in Tasks : RouteAndEmit(t)
    \/ CaptchaAction
    \/ CaptchaCrash

CaptchaSpec == CaptchaInit /\ [][CaptchaAdmissionNext]_vars

(***************************************************************************)
(* A task that can go on does (SF: other holders take its lock in between, *)
(* each of them only once), deliveries settle, and the periodic sweep      *)
(* keeps trying every stale session.                                       *)
(***************************************************************************)
Continue(t) ==
    \/ /\ DecideManually(t) \/ DecideAfterCaptcha(t) \/ Acknowledge(t) \/ CallFails(t)
       /\ UNCHANGED captchaVars
    \/ RouteAndEmit(t) \/ ProcessAnswer(t) \/ AfterDecision(t)

CaptchaFairness ==
    /\ \A t \in Tasks \ {SweepTask} : SF_vars(Continue(t))
    /\ \A i \in 1..Cardinality(Flags) :
         /\ WF_vars(ChallengeDelivered(i) \/ DeliveryFails(i))
         /\ SF_vars(i \in DOMAIN sess /\ \E t \in Tasks : ExpireSession(t, i))

FairCaptchaSpec == CaptchaSpec /\ CaptchaFairness

-----------------------------------------------------------------------------
(***************************************************************************)
(* Every step of the composed system is a step of the admission service    *)
(* with an unconstrained CAPTCHA, or leaves it alone.  What is proved of   *)
(* the steps of Approval therefore holds here.                             *)
(***************************************************************************)
RefinesApproval == [][Next]_approvalVars

(***************************************************************************)
(* The CAPTCHA admits only those who earned it: an approval it gets        *)
(* acknowledged is for a session that took a correct answer, through       *)
(* crashes and repeated replies too.  It rejects one who answered          *)
(* correctly only if a crash lost the answer's approval.                   *)
(***************************************************************************)
CaptchaDecisionEarned ==
    \A i \in DOMAIN sess : \A n \in DOMAIN acks[records[i].flag] :
        LET a == acks[records[i].flag][n] IN
        a.by = "captcha" =>
            /\ a.decision = "approve" => sess[i].passed
            /\ a.decision = "reject" /\ crashes = 0 => ~sess[i].passed

(***************************************************************************)
(* The attempt budget: concurrent replies never buy an extra attempt.  A   *)
(* crash between the last wrong answer and the acknowledged rejection      *)
(* does: the restarted service takes one more answer, and only one.        *)
(***************************************************************************)
AttemptBudget == \A i \in DOMAIN sess : sess[i].attempts <= MaxAttempts + crashes

(***************************************************************************)
(* Nothing stays stuck behind the nested locks: a session past its         *)
(* deadline is eventually closed, whoever else is working on it.           *)
(***************************************************************************)
StaleSessionCloses ==
    \A i \in 1..Cardinality(Flags) : (Open(i) /\ Stale(i)) ~> ~Open(i)

(***************************************************************************)
(* Strengthening.                                                          *)
(***************************************************************************)
Deciding(i) == \E t \in Tasks : answer[t].pc = "decide" /\ answer[t].id = i

(* A handler that awaits a decision is the task that takes it. *)
HandlersCoherent ==
    /\ answer[SweepTask].pc = "none"
    /\ sending \subseteq DOMAIN sess
    /\ \A t \in Tasks :
         /\ answer[t].pc # "none" => answer[t].id \in DOMAIN sess
         /\ answer[t].pc = "decide" <=> task[t].by = "captcha"
         /\ answer[t].pc = "decide" => task[t].id = answer[t].id

(* What a handler decides is what the session says. *)
DecisionsFollowAnswers ==
    \A t \in Tasks : task[t].by = "captcha" =>
        /\ task[t].decision = "approve" => sess[task[t].id].passed
        /\ task[t].decision = "reject" /\ crashes = 0 => ~sess[task[t].id].passed

(* A session that can take an answer has an attempt left, and no answer    *)
(* that would admit, unless a crash has interrupted the admission.         *)
AttemptsLeft ==
    \A i \in DOMAIN sess : ~sess[i].solved /\ ~Deciding(i) =>
        /\ sess[i].attempts < MaxAttempts + crashes
        /\ crashes = 0 => ~sess[i].passed

CaptchaAcked(i) ==
    \E n \in DOMAIN acks[records[i].flag] : acks[records[i].flag][n].by = "captcha"

(* A reply that waits for the lock of a decided session finds it closed. *)
LateRepliesDropped ==
    \A t \in Tasks : answer[t].pc = "wait" /\ CaptchaAcked(answer[t].id) =>
        sess[answer[t].id].solved \/ Deciding(answer[t].id)

CaptchaIndInv ==
    /\ CaptchaTypeOK /\ IndInv
    /\ HandlersCoherent /\ DecisionsFollowAnswers /\ LateRepliesDropped
    /\ AttemptBudget /\ AttemptsLeft /\ CaptchaDecisionEarned
=============================================================================
