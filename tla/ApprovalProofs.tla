---------------------------- MODULE ApprovalProofs ----------------------------
(***************************************************************************)
(* Proofs about Approval, for every set of requests and tasks, every TTL   *)
(* and any number of crashes: the inductive invariant IndInv, and from it  *)
(* the safety properties.  The second half is about Captcha, the gate      *)
(* composed with it: every step refines one of Approval, and the inductive *)
(* invariant CaptchaIndInv extends IndInv to the sessions.                 *)
(***************************************************************************)
EXTENDS Captcha, TLAPS

USE DEF Ids

(***************************************************************************)
(* The routing order of handleJoinRequest: whatever else is true of an     *)
(* applicant, a penalty on record decides `reject'.                        *)
(***************************************************************************)
LEMMA PenaltyDecides ==
    ASSUME NEW o \in Outcomes
    PROVE  /\ o.verdict \in {"approve", "reject", "captcha", "manual"}
           /\ o.penalised \in BOOLEAN
           /\ o.penalised => o.verdict = "reject"
<1>1. PICK x \in Facts : o = [verdict |-> Verdict(x), penalised |-> Penalised(x)]
    BY DEF Outcomes
<1>2. /\ x.action \in {"auto_approve", "auto_reject", "captcha", "manual"}
      /\ x.blacklisted \in BOOLEAN /\ x.activeKick \in BOOLEAN
    BY DEF Facts
<1>3. Penalised(x) \in BOOLEAN
    BY <1>2 DEF Penalised
<1>4. Verdict(x) \in {"approve", "reject", "captcha", "manual"}
    BY <1>2 DEF Verdict, Default
<1>5. Penalised(x) => Verdict(x) = "reject"
    BY DEF Verdict
<1> QED
    BY <1>1, <1>3, <1>4, <1>5

(***************************************************************************)
(* What a change of one row's status leaves alone.                         *)
(***************************************************************************)
LEMMA SetStatusEffect ==
    ASSUME records \in Seq(Record), NEW i \in Ids, NEW s \in Statuses, SetStatus(i, s)
    PROVE  /\ records' \in Seq(Record) /\ Ids' = Ids
           /\ records'[i].status = s
           /\ \A j \in Ids : /\ records'[j].flag = records[j].flag
                             /\ records'[j].penalised = records[j].penalised
                             /\ j # i => records'[j].status = records[j].status
<1>1. \A j \in Ids : records[j] \in Record
    OBVIOUS
<1>2. [records[i] EXCEPT !.status = s] \in Record
    BY <1>1 DEF Record
<1>3. records' = [records EXCEPT ![i] = [records[i] EXCEPT !.status = s]]
    BY DEF SetStatus
<1>4. records' \in Seq(Record) /\ Ids' = Ids
    BY <1>2, <1>3
<1> QED
    BY <1>1, <1>3, <1>4 DEF Record

(***************************************************************************)
(* The steps that neither route a request, nor enter a call, nor record an *)
(* acknowledgement: time, QQ's own decisions, queueing, giving up,         *)
(* expiry, a failed call, a crash.  They move only undecided rows, and     *)
(* only to another undecided status.                                       *)
(***************************************************************************)
QuietRow(i) ==
    /\ records'[i].flag = records[i].flag
    /\ records'[i].penalised = records[i].penalised
    /\ \/ records'[i].status = records[i].status
       \/ records[i].status \in {"pending", "captcha"} /\ records'[i].status \in {"pending", "expired"}

QuietTask(t) ==
    \/ task'[t] = task[t]
    \/ task'[t].pc \in {"idle", "returned"}
    \/ /\ task'[t].pc = "lock" /\ task'[t].flag \in Flags
       /\ task'[t].by # "policy" =>
            task'[t].id \in Ids /\ records[task'[t].id].flag = task'[t].flag

LEMMA QuietInd ==
    ASSUME IndInv, TypeOK', UNCHANGED <<counted, crashes, acks>>, Ids' = Ids,
           \A f \in Flags : qq'[f] = qq[f] \/ qq[f] \in {"absent", "open"},
           \A i \in Ids : QuietRow(i),
           \A t \in Tasks : QuietTask(t)
    PROVE  IndInv'
<1> USE DEF QuietRow, QuietTask
<1>1. RoutedOnce'
  <2>1. \A f \in Flags : HasRecord(f)' <=> HasRecord(f)
    BY DEF HasRecord
  <2> QED
    BY <2>1 DEF IndInv, RoutedOnce
<1>2. AckedDecisionStands'
  <2>1. ASSUME NEW f \in Flags, acks[f] # <<>>
        PROVE  /\ qq'[f] = qq[f]
               /\ \A i \in Ids : records[i].flag = f => records'[i].status = records[i].status
    BY <2>1 DEF IndInv, AckedDecisionStands, Applied, Final
  <2> QED
    BY <2>1 DEF IndInv, AckedDecisionStands
<1>3. FinalOnlyIfAcked'
    BY DEF IndInv, FinalOnlyIfAcked
<1>4. PenalisedNeverAutoAdmitted'
    BY DEF IndInv, PenalisedNeverAutoAdmitted
<1>5. CallsAreExclusive'
    BY DEF IndInv, CallsAreExclusive
<1>6. TasksNameRows'
  <2> SUFFICES ASSUME NEW t \in Tasks
               PROVE  /\ task'[t].pc = "lock" => task'[t].flag \in Flags
                      /\ \/ task'[t].pc = "call"
                         \/ task'[t].pc = "lock" /\ task'[t].by # "policy"
                         => task'[t].id \in Ids' /\ records'[task'[t].id].flag = task'[t].flag
                      /\ task'[t].pc = "call" =>
                           /\ task'[t].flag \in Flags
                           /\ acks'[task'[t].flag] = <<>>
                           /\ records'[task'[t].id].status \in {"pending", "captcha", "expired"}
                           /\ task'[t].by = "captcha" => ~records'[task'[t].id].penalised
                           /\ task'[t].by = "policy" /\ records'[task'[t].id].penalised =>
                                task'[t].decision = "reject"
    BY DEF TasksNameRows
  <2>1. CASE task'[t] = task[t]
    BY <2>1 DEF IndInv, TasksNameRows
  <2>2. CASE task'[t] # task[t]
    BY <2>2
  <2> QED
    BY <2>1, <2>2
<1>7. CaptchaRowsAreClean'
    BY DEF IndInv, CaptchaRowsAreClean
<1>8. AcksHaveRows'
    BY DEF IndInv, AcksHaveRows, HasRecord
<1> QED
    BY <1>1, <1>2, <1>3, <1>4, <1>5, <1>6, <1>7, <1>8 DEF IndInv

(***************************************************************************)
(* Entering a call under the lock, for an undecided row.                   *)
(***************************************************************************)
LEMMA EnterCallInd ==
    ASSUME IndInv, NEW t \in Tasks, task[t].pc = "lock", task[t].by # "policy",
           ~Busy(task[t].flag),
           records[task[t].id].status \in {"pending", "captcha"},
           task[t].by = "captcha" => records[task[t].id].status = "captcha",
           StartCall(t, task[t]),
           UNCHANGED <<now, records, counted, sweep, crashes, qq, acks>>
    PROVE  IndInv'
<1> DEFINE k == task[t]
<1>1. /\ k \in Task /\ k.flag \in Flags /\ k.id \in Ids /\ records[k.id].flag = k.flag
      /\ task \in [Tasks -> Task] /\ sent \in [Flags -> SUBSET Decisions]
    BY DEF IndInv, TypeOK, TasksNameRows
<1>2. /\ task' = [task EXCEPT ![t] = [k EXCEPT !.pc = "call"]]
      /\ [k EXCEPT !.pc = "call"] \in Task
      /\ sent' \in [Flags -> SUBSET Decisions]
    BY <1>1 DEF StartCall, Task, TaskStates
<1>3. /\ task'[t].pc = "call" /\ task'[t].flag = k.flag /\ task'[t].id = k.id /\ task'[t].by = k.by
      /\ \A u \in Tasks \ {t} : task'[u] = task[u]
    BY <1>1, <1>2 DEF Task
<1>4. TypeOK'
    BY <1>1, <1>2 DEF IndInv, TypeOK
<1>5. acks[k.flag] = <<>>
    BY <1>1 DEF IndInv, AckedDecisionStands, Final
<1>6. CallsAreExclusive'
    BY <1>3 DEF IndInv, CallsAreExclusive, Busy
<1>7. TasksNameRows'
  <2> SUFFICES ASSUME NEW u \in Tasks
               PROVE  /\ task'[u].pc = "lock" => task'[u].flag \in Flags
                      /\ \/ task'[u].pc = "call"
                         \/ task'[u].pc = "lock" /\ task'[u].by # "policy"
                         => task'[u].id \in Ids /\ records[task'[u].id].flag = task'[u].flag
                      /\ task'[u].pc = "call" =>
                           /\ task'[u].flag \in Flags
                           /\ acks[task'[u].flag] = <<>>
                           /\ records[task'[u].id].status \in {"pending", "captcha", "expired"}
                           /\ task'[u].by = "captcha" => ~records[task'[u].id].penalised
                           /\ task'[u].by = "policy" /\ records[task'[u].id].penalised =>
                                task'[u].decision = "reject"
    BY DEF TasksNameRows
  <2>1. CASE u = t
    BY <2>1, <1>1, <1>3, <1>5 DEF IndInv, CaptchaRowsAreClean
  <2>2. CASE u # t
    BY <2>2, <1>3 DEF IndInv, TasksNameRows
  <2> QED
    BY <2>1, <2>2
<1> QED
    BY <1>4, <1>6, <1>7
    DEF IndInv, RoutedOnce, HasRecord, AckedDecisionStands, FinalOnlyIfAcked,
        PenalisedNeverAutoAdmitted, CaptchaRowsAreClean, AcksHaveRows

(***************************************************************************)
(* Routing a request that has no record: the row, the count and, for an    *)
(* automatic decision, the call appear together.                           *)
(***************************************************************************)
LEMMA NewRowInd ==
    ASSUME IndInv, TypeOK', NEW t \in Tasks, task[t].pc = "lock",
           NEW r \in Record, r.flag = task[t].flag, ~HasRecord(r.flag), ~Busy(r.flag),
           records' = Append(records, r),
           counted' = [counted EXCEPT ![r.flag] = @ + 1],
           r.status \in {"pending", "captcha"},
           r.status = "captcha" => ~r.penalised,
           UNCHANGED <<crashes, qq, acks>>,
           \A u \in Tasks \ {t} : task'[u] = task[u],
           \/ task'[t].pc \in {"idle", "returned"}
           \/ /\ task'[t].pc = "call" /\ task'[t].flag = r.flag /\ task'[t].id = Len(records) + 1
              /\ task'[t].by = "policy" /\ (r.penalised => task'[t].decision = "reject")
    PROVE  IndInv'
<1> DEFINE n == Len(records) + 1
<1>1. /\ records \in Seq(Record) /\ counted \in [Flags -> Nat] /\ r.flag \in Flags
      /\ Ids = 1..Len(records) /\ Len(records) \in Nat
    BY DEF IndInv, TypeOK, Record
<1>2. /\ Ids' = Ids \cup {n} /\ n \notin Ids /\ records'[n] = r
      /\ \A i \in Ids : records'[i] = records[i]
    BY <1>1
<1>3. acks[r.flag] = <<>>
    BY <1>1 DEF IndInv, AcksHaveRows
<1>4. \A f \in Flags : HasRecord(f)' <=> HasRecord(f) \/ f = r.flag
    BY <1>2 DEF HasRecord
<1>5. RoutedOnce'
  <2>1. \A i, j \in Ids' : records'[i].flag = records'[j].flag => i = j
    BY <1>2 DEF IndInv, RoutedOnce, HasRecord
  <2>2. /\ crashes' = crashes /\ crashes \in Nat /\ counted[r.flag] \in 0..crashes
        /\ counted'[r.flag] = counted[r.flag] + 1
        /\ \A f \in Flags \ {r.flag} : counted'[f] = counted[f]
    BY <1>1 DEF IndInv, RoutedOnce, TypeOK
  <2>3. \A f \in Flags : HasRecord(f)' => counted'[f] \in 1..(1 + crashes')
    BY <1>4, <2>2 DEF IndInv, RoutedOnce
  <2>4. \A f \in Flags : ~HasRecord(f)' => counted'[f] <= crashes'
    BY <1>4, <2>2 DEF IndInv, RoutedOnce
  <2> QED
    BY <2>1, <2>3, <2>4 DEF RoutedOnce
<1>6. AckedDecisionStands'
    BY <1>2, <1>3 DEF IndInv, AckedDecisionStands
<1>7. FinalOnlyIfAcked'
    BY <1>2 DEF IndInv, FinalOnlyIfAcked
<1>8. PenalisedNeverAutoAdmitted'
  <2> SUFFICES ASSUME NEW i \in Ids', records'[i].penalised,
                      NEW m \in DOMAIN acks[records'[i].flag],
                      acks[records'[i].flag][m].decision = "approve"
               PROVE  acks[records'[i].flag][m].by = "operator"
    BY DEF PenalisedNeverAutoAdmitted
  <2>1. i \in Ids
    BY <1>2, <1>3
  <2> QED
    BY <2>1, <1>2 DEF IndInv, PenalisedNeverAutoAdmitted
<1>9. CallsAreExclusive'
    BY DEF IndInv, CallsAreExclusive, Busy
<1>10. TasksNameRows'
  <2> SUFFICES ASSUME NEW u \in Tasks
               PROVE  /\ task'[u].pc = "lock" => task'[u].flag \in Flags
                      /\ \/ task'[u].pc = "call"
                         \/ task'[u].pc = "lock" /\ task'[u].by # "policy"
                         => task'[u].id \in Ids' /\ records'[task'[u].id].flag = task'[u].flag
                      /\ task'[u].pc = "call" =>
                           /\ task'[u].flag \in Flags
                           /\ acks[task'[u].flag] = <<>>
                           /\ records'[task'[u].id].status \in {"pending", "captcha", "expired"}
                           /\ task'[u].by = "captcha" => ~records'[task'[u].id].penalised
                           /\ task'[u].by = "policy" /\ records'[task'[u].id].penalised =>
                                task'[u].decision = "reject"
    BY DEF TasksNameRows
  <2>1. CASE u = t
    BY <2>1, <1>1, <1>2, <1>3
  <2>2. CASE u # t
    BY <2>2, <1>2 DEF IndInv, TasksNameRows
  <2> QED
    BY <2>1, <2>2
<1>11. CaptchaRowsAreClean'
    BY <1>2 DEF IndInv, CaptchaRowsAreClean
<1>12. AcksHaveRows'
    BY <1>4 DEF IndInv, AcksHaveRows
<1> QED
    BY <1>5, <1>6, <1>7, <1>8, <1>9, <1>10, <1>11, <1>12 DEF IndInv

(***************************************************************************)
(* The shape of the row handleJoinRequest creates.                         *)
(***************************************************************************)
LEMMA NewRecordType ==
    ASSUME IndInv, NEW f \in Flags, NEW s \in Statuses, NEW p \in BOOLEAN
    PROVE  /\ NewRecord(f, s, p) \in Record
           /\ NewRecord(f, s, p).flag = f
           /\ NewRecord(f, s, p).status = s
           /\ NewRecord(f, s, p).penalised = p
<1>1. now + Ttl \in Nat
    BY ApprovalAssumption DEF IndInv, TypeOK
<1> QED
    BY <1>1 DEF NewRecord, Record

LEMMA EndEffect ==
    ASSUME task \in [Tasks -> Task], NEW t \in Tasks, End(t)
    PROVE  /\ task' \in [Tasks -> Task]
           /\ task'[t].pc \in {"idle", "returned"}
           /\ \A u \in Tasks \ {t} : task'[u] = task[u]
<1>1. Ended(task[t]) \in Task /\ Ended(task[t]).pc \in {"idle", "returned"}
    BY DEF Ended, Idle, Task, TaskStates, Actors, Decisions
<1> QED
    BY <1>1 DEF End

LEMMA RouteInd ==
    ASSUME IndInv, NEW t \in Tasks, Route(t)
    PROVE  IndInv'
<1> DEFINE f == task[t].flag
<1>1. /\ TypeOK /\ task[t].pc = "lock" /\ task[t].by = "policy" /\ ~Busy(f) /\ f \in Flags
      /\ task[t] \in Task /\ UNCHANGED <<now, sweep, crashes, qq, acks>>
    BY DEF Route, Waits, IndInv, TypeOK, TasksNameRows
<1>2. CASE HasRecord(f) /\ End(t) /\ UNCHANGED <<records, counted, sent>>
  <2>1. /\ task' \in [Tasks -> Task] /\ task'[t].pc \in {"idle", "returned"}
        /\ \A u \in Tasks \ {t} : task'[u] = task[u]
    BY <1>1, <1>2, EndEffect DEF TypeOK
  <2>2. TypeOK'
    BY <1>1, <1>2, <2>1 DEF TypeOK
  <2> QED
    BY <1>1, <1>2, <2>1, <2>2, QuietInd DEF QuietRow, QuietTask
<1>3. ASSUME ~HasRecord(f), counted' = [counted EXCEPT ![f] = @ + 1],
             NEW o \in Outcomes, o.verdict \in Decisions,
             records' = Append(records, NewRecord(f, "pending", o.penalised)),
             StartCall(t, [task[t] EXCEPT !.id = Len(records) + 1, !.decision = o.verdict])
      PROVE  IndInv'
  <2> DEFINE r == NewRecord(f, "pending", o.penalised)
             k == [task[t] EXCEPT !.pc = "call", !.id = Len(records) + 1, !.decision = o.verdict]
  <2>1. /\ r \in Record /\ r.flag = f /\ r.status = "pending" /\ r.penalised = o.penalised
    BY <1>1, NewRecordType, PenaltyDecides DEF Statuses
  <2>2. /\ k \in Task /\ k.pc = "call" /\ k.flag = f /\ k.id = Len(records) + 1
        /\ k.by = "policy" /\ k.decision = o.verdict
    <3>1. Len(records) + 1 \in Nat
      BY <1>1 DEF TypeOK
    <3> QED
      BY <1>1, <1>3, <3>1 DEF Task, TaskStates
  <2>3. task' = [task EXCEPT ![t] = k] /\ sent' = [sent EXCEPT ![f] = @ \cup {o.verdict}]
    BY <1>1, <1>3 DEF StartCall, Task
  <2>4. /\ task' \in [Tasks -> Task] /\ task'[t] = k
        /\ \A u \in Tasks \ {t} : task'[u] = task[u]
    BY <1>1, <2>2, <2>3 DEF TypeOK
  <2>5. TypeOK'
    BY <1>1, <1>3, <2>1, <2>3, <2>4 DEF TypeOK
  <2>6. o.penalised => o.verdict = "reject"
    BY PenaltyDecides
  <2> HIDE DEF r, k
  <2> QED
    BY <1>1, <1>3, <2>1, <2>2, <2>4, <2>5, <2>6, NewRowInd DEF r
<1>4. ASSUME ~HasRecord(f), counted' = [counted EXCEPT ![f] = @ + 1],
             NEW o \in Outcomes, o.verdict \in {"captcha", "manual"},
             records' = Append(records,
                NewRecord(f, IF o.verdict = "manual" THEN "pending" ELSE "captcha", o.penalised)),
             End(t), UNCHANGED sent
      PROVE  IndInv'
  <2> DEFINE s == IF o.verdict = "manual" THEN "pending" ELSE "captcha"
             r == NewRecord(f, s, o.penalised)
  <2>1. /\ r \in Record /\ r.flag = f /\ r.status = s /\ r.penalised = o.penalised
    BY <1>1, NewRecordType, PenaltyDecides DEF Statuses
  <2>2. s \in {"pending", "captcha"} /\ ~o.penalised
    BY <1>4, PenaltyDecides
  <2>3. /\ task' \in [Tasks -> Task] /\ task'[t].pc \in {"idle", "returned"}
        /\ \A u \in Tasks \ {t} : task'[u] = task[u]
    BY <1>1, <1>4, EndEffect DEF TypeOK
  <2>4. TypeOK'
    BY <1>1, <1>4, <2>1, <2>3 DEF TypeOK
  <2> HIDE DEF r, s
  <2> QED
    BY <1>1, <1>4, <2>1, <2>2, <2>3, <2>4, NewRowInd DEF r, s
<1> QED
    BY <1>2, <1>3, <1>4 DEF Route, Count

LEMMA DecideManuallyInd ==
    ASSUME IndInv, NEW t \in Tasks, DecideManually(t)
    PROVE  IndInv'
<1> DEFINE k == task[t]
<1>1. /\ TypeOK /\ k.pc = "lock" /\ k.by = "operator" /\ ~Busy(k.flag)
      /\ k.id \in Ids
      /\ UNCHANGED <<now, counted, sweep, crashes, qq, acks>>
    BY DEF DecideManually, Waits, IndInv, TasksNameRows
<1>2. ASSUME End(t), UNCHANGED sent, TypeOK \in BOOLEAN,
             \/ UNCHANGED records
             \/ records[k.id].status = "pending" /\ SetStatus(k.id, "expired")
      PROVE  IndInv'
  <2>1. /\ task' \in [Tasks -> Task] /\ task'[t].pc \in {"idle", "returned"}
        /\ \A u \in Tasks \ {t} : task'[u] = task[u]
    BY <1>1, <1>2, EndEffect DEF TypeOK
  <2>2. records' \in Seq(Record) /\ Ids' = Ids /\ \A i \in Ids : QuietRow(i)
    BY <1>1, <1>2, SetStatusEffect DEF TypeOK, QuietRow, Statuses
  <2>3. TypeOK'
    BY <1>1, <1>2, <2>1, <2>2 DEF TypeOK
  <2> QED
    BY <1>1, <2>1, <2>2, <2>3, QuietInd DEF QuietTask
<1>3. ASSUME records[k.id].status = "pending", StartCall(t, k), UNCHANGED records
      PROVE  IndInv'
    BY <1>1, <1>3, EnterCallInd
<1> QED
    BY <1>1, <1>2, <1>3 DEF DecideManually

LEMMA DecideAfterCaptchaInd ==
    ASSUME IndInv, NEW t \in Tasks, DecideAfterCaptcha(t)
    PROVE  IndInv'
<1> DEFINE k == task[t]
<1>1. /\ TypeOK /\ k.pc = "lock" /\ k.by = "captcha" /\ ~Busy(k.flag) /\ k.id \in Ids
      /\ UNCHANGED <<now, records, counted, sweep, crashes, qq, acks>>
    BY DEF DecideAfterCaptcha, Waits, IndInv, TasksNameRows
<1>2. CASE End(t) /\ UNCHANGED sent
  <2>1. /\ task' \in [Tasks -> Task] /\ task'[t].pc \in {"idle", "returned"}
        /\ \A u \in Tasks \ {t} : task'[u] = task[u]
    BY <1>1, <1>2, EndEffect DEF TypeOK
  <2>2. TypeOK'
    BY <1>1, <1>2, <2>1 DEF TypeOK
  <2> QED
    BY <1>1, <2>1, <2>2, QuietInd DEF QuietTask, QuietRow
<1>3. CASE records[k.id].status = "captcha" /\ StartCall(t, k)
    BY <1>1, <1>3, EnterCallInd
<1> QED
    BY <1>2, <1>3 DEF DecideAfterCaptcha

(***************************************************************************)
(* The acknowledgement is the first of its request, and the only row of    *)
(* that request takes the acknowledged status.                             *)
(***************************************************************************)
LEMMA AcknowledgeInd ==
    ASSUME IndInv, NEW t \in Tasks, Acknowledge(t)
    PROVE  IndInv'
<1> DEFINE k == task[t]
           a == [decision |-> k.decision, by |-> k.by]
<1>1. /\ TypeOK /\ k \in Task /\ k.pc = "call" /\ k.flag \in Flags /\ k.id \in Ids
      /\ records[k.id].flag = k.flag /\ acks[k.flag] = <<>>
      /\ k.decision \in Decisions /\ k.by \in Actors
      /\ qq[k.flag] = Applied(k.decision) /\ SetStatus(k.id, Final(k.decision))
      /\ acks' = [acks EXCEPT ![k.flag] = Append(@, a)]
      /\ End(t) /\ UNCHANGED <<now, counted, sweep, crashes, qq, sent>>
    BY DEF Acknowledge, IndInv, TypeOK, TasksNameRows, Task
<1>2. /\ records' \in Seq(Record) /\ Ids' = Ids
      /\ records'[k.id].status = Final(k.decision)
      /\ \A j \in Ids : /\ records'[j].flag = records[j].flag
                        /\ records'[j].penalised = records[j].penalised
                        /\ j # k.id => records'[j].status = records[j].status
    BY <1>1, SetStatusEffect DEF TypeOK, Final, Statuses, Decisions
<1>3. /\ task' \in [Tasks -> Task] /\ task'[t].pc \in {"idle", "returned"}
      /\ \A u \in Tasks \ {t} : task'[u] = task[u]
    BY <1>1, EndEffect DEF TypeOK
<1>4. /\ a \in Ack /\ acks' \in [Flags -> Seq(Ack)] /\ acks'[k.flag] = <<a>>
      /\ \A f \in Flags \ {k.flag} : acks'[f] = acks[f]
  <2>1. a \in Ack
    BY <1>1 DEF Ack
  <2>2. Append(acks[k.flag], a) = <<a>> /\ <<a>> \in Seq(Ack)
    BY <1>1, <2>1
  <2>3. acks \in [Flags -> Seq(Ack)]
    BY <1>1 DEF TypeOK
  <2> QED
    BY <1>1, <2>1, <2>2, <2>3
<1>5. TypeOK'
    BY <1>1, <1>2, <1>3, <1>4 DEF TypeOK
<1>6. \A i \in Ids : records[i].flag = k.flag => i = k.id
    BY <1>1 DEF IndInv, RoutedOnce
<1>7. RoutedOnce'
    BY <1>1, <1>2 DEF IndInv, RoutedOnce, HasRecord
<1>8. AckedDecisionStands'
  <2> SUFFICES ASSUME NEW f \in Flags, acks'[f] # <<>>
               PROVE  /\ Len(acks'[f]) = 1
                      /\ qq'[f] = Applied(acks'[f][1].decision)
                      /\ \A i \in Ids' : records'[i].flag = f =>
                           records'[i].status = Final(acks'[f][1].decision)
    BY DEF AckedDecisionStands
  <2>1. CASE f = k.flag
    BY <2>1, <1>1, <1>2, <1>4, <1>6
  <2>2. CASE f # k.flag
    BY <2>2, <1>1, <1>2, <1>4 DEF IndInv, AckedDecisionStands
  <2> QED
    BY <2>1, <2>2
<1>9. FinalOnlyIfAcked'
  <2> SUFFICES ASSUME NEW i \in Ids, records'[i].status \in {"approved", "rejected"}
               PROVE  acks'[records[i].flag] # <<>>
    BY <1>2 DEF FinalOnlyIfAcked
  <2>1. CASE i = k.id
    BY <2>1, <1>1, <1>4
  <2>2. CASE i # k.id
    <3>1. records[i].flag \in Flags /\ records[i].flag # k.flag
      <4>1. records \in Seq(Record)
        BY <1>1 DEF TypeOK
      <4>2. records[i] \in Record
        BY <4>1
      <4> QED
        BY <4>2, <2>2, <1>6 DEF Record
    <3> QED
      BY <2>2, <3>1, <1>2, <1>4 DEF IndInv, FinalOnlyIfAcked
  <2> QED
    BY <2>1, <2>2
<1>10. PenalisedNeverAutoAdmitted'
  <2> SUFFICES ASSUME NEW i \in Ids, records[i].penalised,
                      NEW n \in DOMAIN acks'[records[i].flag],
                      acks'[records[i].flag][n].decision = "approve"
               PROVE  acks'[records[i].flag][n].by = "operator"
    BY <1>2 DEF PenalisedNeverAutoAdmitted
  <2>1. CASE records[i].flag = k.flag
    <3>1. i = k.id /\ acks'[records[i].flag][n] = a
      BY <2>1, <1>4, <1>6
    <3>2. k.decision = "approve" /\ k.by # "captcha" /\ k.by # "policy"
      BY <3>1, <1>1 DEF IndInv, TasksNameRows
    <3> QED
      BY <3>1, <3>2, <1>1 DEF Actors
  <2>2. CASE records[i].flag # k.flag
    <3>1. acks'[records[i].flag] = acks[records[i].flag]
      BY <2>2, <1>1, <1>4 DEF TypeOK, Record
    <3> QED
      BY <3>1 DEF IndInv, PenalisedNeverAutoAdmitted
  <2> QED
    BY <2>1, <2>2
<1>11. CallsAreExclusive'
    BY <1>3 DEF IndInv, CallsAreExclusive
<1>12. TasksNameRows'
  <2> SUFFICES ASSUME NEW u \in Tasks
               PROVE  /\ task'[u].pc = "lock" => task'[u].flag \in Flags
                      /\ \/ task'[u].pc = "call"
                         \/ task'[u].pc = "lock" /\ task'[u].by # "policy"
                         => task'[u].id \in Ids /\ records'[task'[u].id].flag = task'[u].flag
                      /\ task'[u].pc = "call" =>
                           /\ task'[u].flag \in Flags
                           /\ acks'[task'[u].flag] = <<>>
                           /\ records'[task'[u].id].status \in {"pending", "captcha", "expired"}
                           /\ task'[u].by = "captcha" => ~records'[task'[u].id].penalised
                           /\ task'[u].by = "policy" /\ records'[task'[u].id].penalised =>
                                task'[u].decision = "reject"
    BY <1>2 DEF TasksNameRows
  <2>1. CASE u = t
    BY <2>1, <1>3
  <2>2. CASE u # t
    <3>1. task'[u] = task[u]
      BY <2>2, <1>3
    <3>2. task[u].pc = "call" => task[u].flag # k.flag /\ task[u].id # k.id
      BY <2>2, <1>1 DEF IndInv, CallsAreExclusive, TasksNameRows
    <3> QED
      BY <3>1, <3>2, <1>2, <1>4 DEF IndInv, TasksNameRows
  <2> QED
    BY <2>1, <2>2
<1>13. CaptchaRowsAreClean'
    BY <1>1, <1>2 DEF IndInv, CaptchaRowsAreClean, Final
<1>14. AcksHaveRows'
    BY <1>1, <1>2, <1>4 DEF IndInv, AcksHaveRows, HasRecord
<1> QED
    BY <1>5, <1>7, <1>8, <1>9, <1>10, <1>11, <1>12, <1>13, <1>14 DEF IndInv

LEMMA CallFailsInd ==
    ASSUME IndInv, NEW t \in Tasks, CallFails(t)
    PROVE  IndInv'
<1> DEFINE i == task[t].id
<1>1. /\ TypeOK /\ task[t].pc = "call" /\ i \in Ids /\ End(t) /\ _markActionFailure(i)
      /\ UNCHANGED <<now, counted, sweep, crashes, qq, sent, acks>>
    BY DEF CallFails, IndInv, TasksNameRows
<1>2. /\ task' \in [Tasks -> Task] /\ task'[t].pc \in {"idle", "returned"}
      /\ \A u \in Tasks \ {t} : task'[u] = task[u]
    BY <1>1, EndEffect DEF TypeOK
<1>3. records' \in Seq(Record) /\ Ids' = Ids /\ \A j \in Ids : QuietRow(j)
  <2>1. CASE records[i].status \in {"pending", "captcha"}
    <3>1. SetStatus(i, "pending")
      BY <2>1, <1>1 DEF _markActionFailure
    <3> QED
      BY <2>1, <3>1, <1>1, SetStatusEffect DEF TypeOK, QuietRow, Statuses
  <2>2. CASE records[i].status \notin {"pending", "captcha"}
    BY <2>2, <1>1 DEF _markActionFailure, TypeOK, QuietRow
  <2> QED
    BY <2>1, <2>2
<1>4. TypeOK'
    BY <1>1, <1>2, <1>3 DEF TypeOK
<1> QED
    BY <1>1, <1>2, <1>3, <1>4, QuietInd DEF QuietTask

(***************************************************************************)
(* Expiry and the captcha service's writes, made outside the lock.         *)
(***************************************************************************)
LEMMA UnlockedWritesInd ==
    ASSUME IndInv,
           \/ ExpireOldPending
           \/ \E P, E \in SUBSET Ids : CaptchaWrites(P, E)
    PROVE  IndInv'
<1>1. /\ TypeOK /\ UNCHANGED <<now, counted, task, sweep, crashes, qq, sent, acks>>
      /\ Ids = 1..Len(records) /\ Len(records) \in Nat /\ \A i \in Ids : records[i] \in Record
    BY DEF IndInv, TypeOK, ExpireOldPending, CaptchaWrites
<1> DEFINE Written ==
      /\ Ids' = Ids /\ records' = [i \in Ids |-> records'[i]]
      /\ \A i \in Ids :
           \/ records'[i] = records[i]
           \/ /\ records[i].status \in {"pending", "captcha"}
              /\ \E s \in {"pending", "expired"} : records'[i] = [records[i] EXCEPT !.status = s]
<1>2. Written
  <2>1. CASE ExpireOldPending
    BY <2>1, <1>1 DEF ExpireOldPending, Expirable
  <2>2. ASSUME NEW P \in SUBSET Ids, NEW E \in SUBSET Ids, CaptchaWrites(P, E)
        PROVE  Written
    BY <2>2, <1>1 DEF CaptchaWrites, RowsForCaptcha, WriteRows
  <2> QED
    BY <2>1, <2>2
<1>3. \A i \in Ids : records'[i] \in Record /\ QuietRow(i)
    BY <1>1, <1>2 DEF Record, Statuses, QuietRow
<1>4. records' \in Seq(Record)
    BY <1>1, <1>2, <1>3
<1>5. TypeOK'
    BY <1>1, <1>4 DEF TypeOK
<1> QED
    BY <1>1, <1>2, <1>3, <1>5, QuietInd DEF QuietTask

(***************************************************************************)
(* A task starts, and queues for the lock of a flag.                       *)
(***************************************************************************)
LEMMA QueueingInd ==
    ASSUME IndInv, NEW t \in Tasks, NEW k \in Task,
           task' = [task EXCEPT ![t] = k],
           k.pc \in {"idle", "returned", "lock"},
           k.pc = "lock" => k.flag \in Flags,
           k.pc = "lock" /\ k.by # "policy" => k.id \in Ids /\ records[k.id].flag = k.flag,
           sweep' \in [running : BOOLEAN, todo : SUBSET Flags, fetched : BOOLEAN],
           UNCHANGED <<now, records, counted, crashes, qq, sent, acks>>
    PROVE  IndInv'
<1>1. /\ task' \in [Tasks -> Task] /\ task'[t] = k
      /\ \A u \in Tasks \ {t} : task'[u] = task[u]
    BY DEF IndInv, TypeOK
<1>2. TypeOK'
    BY <1>1 DEF IndInv, TypeOK
<1> QED
    BY <1>1, <1>2, QuietInd DEF QuietTask, QuietRow

LEMMA StartsInd ==
    ASSUME IndInv, NEW t \in Tasks,
           \/ \E f \in Flags : HandleJoinRequest(t, f)
           \/ \E i \in Ids, d \in Decisions : StartManual(t, i, d) \/ StartAfterCaptcha(t, i, d)
           \/ ReturnAfterCaptcha(t)
    PROVE  IndInv'
<1>1. TypeOK /\ sweep \in [running : BOOLEAN, todo : SUBSET Flags, fetched : BOOLEAN]
    BY DEF IndInv, TypeOK
<1>2. ASSUME NEW f \in Flags, HandleJoinRequest(t, f)
      PROVE  IndInv'
  <2> DEFINE k == [Idle EXCEPT !.pc = "lock", !.flag = f]
  <2>1. k \in Task /\ k.pc = "lock" /\ k.flag = f /\ k.by = "policy"
    BY DEF Idle, Task, TaskStates, Actors, Decisions
  <2>2. task' = [task EXCEPT ![t] = k] /\ UNCHANGED <<now, records, counted, sweep, crashes, qq, sent, acks>>
    BY <1>2 DEF HandleJoinRequest, StartRoute
  <2> HIDE DEF k
  <2> QED
    BY <1>1, <2>1, <2>2, QueueingInd
<1>3. ASSUME NEW i \in Ids, NEW d \in Decisions, StartManual(t, i, d) \/ StartAfterCaptcha(t, i, d)
      PROVE  IndInv'
  <2>0. records[i].flag \in Flags /\ i \in Nat
    <3>1. records \in Seq(Record)
      BY <1>1 DEF TypeOK
    <3>2. records[i] \in Record /\ i \in Nat
      BY <3>1
    <3> QED
      BY <3>2 DEF Record
  <2>1. PICK k \in Task : /\ task' = [task EXCEPT ![t] = k]
                          /\ k.pc = "lock" /\ k.flag = records[i].flag /\ k.id = i
    <3>1. PICK by \in {"operator", "captcha"} :
             task' = [task EXCEPT ![t] = [pc |-> "lock", by |-> by,
                                          flag |-> records[i].flag, id |-> i, decision |-> d]]
      BY <1>3 DEF StartManual, StartAfterCaptcha
    <3>2. [pc |-> "lock", by |-> by, flag |-> records[i].flag, id |-> i, decision |-> d] \in Task
      BY <2>0 DEF Task, TaskStates, Actors
    <3> QED
      BY <3>1, <3>2
  <2>2. UNCHANGED <<now, records, counted, sweep, crashes, qq, sent, acks>>
    BY <1>3 DEF StartManual, StartAfterCaptcha
  <2> QED
    BY <1>1, <2>0, <2>1, <2>2, QueueingInd
<1>4. CASE ReturnAfterCaptcha(t)
  <2>1. Idle \in Task /\ Idle.pc = "idle"
    BY DEF Idle, Task, TaskStates, Actors, Decisions
  <2> QED
    BY <1>1, <1>4, <2>1, QueueingInd DEF ReturnAfterCaptcha
<1> QED
    BY <1>2, <1>3, <1>4

(***************************************************************************)
(* The admission-sync loop.                                                *)
(***************************************************************************)
LEMMA SweepInd ==
    ASSUME IndInv, SweepStep
    PROVE  IndInv'
<1>1. TypeOK /\ sweep \in [running : BOOLEAN, todo : SUBSET Flags, fetched : BOOLEAN]
    BY DEF IndInv, TypeOK
<1>2. CASE StartSweep \/ SweepFetches \/ SweepFetchFails \/ SweepEnds
  <2>1. /\ UNCHANGED <<now, records, counted, task, crashes, qq, sent, acks>>
        /\ sweep' \in [running : BOOLEAN, todo : SUBSET Flags, fetched : BOOLEAN]
    <3>1. CASE StartSweep
      BY <1>1, <3>1 DEF StartSweep
    <3>2. CASE SweepFetches
      <4>1. {f \in Flags : qq[f] = "open"} \in SUBSET Flags
        OBVIOUS
      <4> QED
        BY <3>2, <4>1 DEF SweepFetches, Sweeping
    <3>3. CASE SweepFetchFails \/ SweepEnds
      <4>1. NotSweeping \in [running : BOOLEAN, todo : SUBSET Flags, fetched : BOOLEAN]
        BY DEF NotSweeping
      <4> QED
        BY <3>3, <4>1 DEF SweepFetchFails, SweepEnds
    <3> QED
      BY <1>2, <3>1, <3>2, <3>3
  <2>2. TypeOK'
    BY <1>1, <2>1 DEF TypeOK
  <2> QED
    BY <2>1, <2>2, QuietInd DEF QuietTask, QuietRow
<1>3. ASSUME NEW f \in Flags, SweepNext(f)
      PROVE  IndInv'
  <2>1. /\ UNCHANGED <<now, records, counted, crashes, qq, sent, acks>>
        /\ sweep' \in [running : BOOLEAN, todo : SUBSET Flags, fetched : BOOLEAN]
    BY <1>1, <1>3 DEF SweepNext, Sweeping
  <2>2. CASE UNCHANGED task
    <3>1. TypeOK'
      BY <1>1, <2>1, <2>2 DEF TypeOK
    <3> QED
      BY <2>1, <2>2, <3>1, QuietInd DEF QuietTask, QuietRow
  <2>3. CASE StartRoute(SweepTask, f)
    <3> DEFINE k == [Idle EXCEPT !.pc = "lock", !.flag = f]
    <3>1. k \in Task /\ k.pc = "lock" /\ k.flag = f /\ k.by = "policy"
      BY DEF Idle, Task, TaskStates, Actors, Decisions
    <3>2. task' = [task EXCEPT ![SweepTask] = k] /\ SweepTask \in Tasks
      BY <2>3, ApprovalAssumption DEF StartRoute
    <3> HIDE DEF k
    <3> QED
      BY <2>1, <3>1, <3>2, QueueingInd
  <2> QED
    BY <1>3, <2>2, <2>3 DEF SweepNext, SweepTakes
<1> QED
    BY <1>2, <1>3 DEF SweepStep

(***************************************************************************)
(* Time, QQ and crashes.                                                   *)
(***************************************************************************)
LEMMA EnvironmentInd ==
    ASSUME IndInv, Tick \/ QQNext
    PROVE  IndInv'
<1>1. TypeOK
    BY DEF IndInv
<1>2. CASE Tick
  <2>1. TypeOK'
    BY <1>1, <1>2 DEF Tick, serviceVars, TypeOK
  <2> QED
    BY <1>2, <2>1, QuietInd DEF Tick, serviceVars, QuietTask, QuietRow
<1>3. CASE QQNext
  <2>1. /\ UNCHANGED <<now, serviceVars, sent>>
        /\ qq' \in [Flags -> {"absent", "open", "admitted", "refused"}]
        /\ \A f \in Flags : qq'[f] = qq[f] \/ qq[f] \in {"absent", "open"}
    BY <1>1, <1>3 DEF QQNext, RequestArrives, HumanDecides, QQApplies, Applied, TypeOK
  <2>2. TypeOK'
    BY <1>1, <2>1 DEF serviceVars, TypeOK
  <2> QED
    BY <2>1, <2>2, QuietInd DEF serviceVars, QuietTask, QuietRow
<1> QED
    BY <1>2, <1>3

(***************************************************************************)
(* A death takes the tasks and may leave a count without its record, which *)
(* it pays for itself.                                                     *)
(***************************************************************************)
LEMMA CrashInd ==
    ASSUME IndInv, Crash
    PROVE  IndInv'
<1>1. /\ TypeOK /\ counted \in [Flags -> Nat] /\ crashes \in Nat
      /\ crashes' = crashes + 1 /\ UNCHANGED <<now, records, qq, sent, acks>> /\ Ids' = Ids
      /\ task' = [t \in Tasks |-> Idle] /\ sweep' = NotSweeping
    BY DEF IndInv, TypeOK, Crash
<1>2. Idle \in Task /\ Idle.pc = "idle"
    BY DEF Idle, Task, TaskStates, Actors, Decisions
<1>3. /\ counted' \in [Flags -> Nat]
      /\ \A f \in Flags : \/ counted'[f] = counted[f]
                          \/ ~HasRecord(f) /\ counted'[f] = counted[f] + 1
  <2>1. CASE UNCHANGED counted
    BY <1>1, <2>1
  <2>2. ASSUME NEW t \in Tasks, CountedOnly(t)
        PROVE  /\ counted' \in [Flags -> Nat]
               /\ \A f \in Flags : \/ counted'[f] = counted[f]
                                   \/ ~HasRecord(f) /\ counted'[f] = counted[f] + 1
    <3>1. task[t].flag \in Flags
        BY <2>2 DEF CountedOnly, Waits, IndInv, TasksNameRows
    <3> QED
        BY <1>1, <2>2, <3>1 DEF CountedOnly, Count
  <2> QED
    BY <2>1, <2>2 DEF Crash
<1>4. TypeOK'
    BY <1>1, <1>2, <1>3 DEF NotSweeping, TypeOK
<1>5. RoutedOnce'
  <2>1. \A f \in Flags : HasRecord(f)' <=> HasRecord(f)
    BY <1>1 DEF HasRecord
  <2>2. \A i, j \in Ids' : records'[i].flag = records'[j].flag => i = j
    BY <1>1 DEF IndInv, RoutedOnce
  <2>3. \A f \in Flags : HasRecord(f)' => counted'[f] \in 1..(1 + crashes')
    BY <1>1, <1>3, <2>1 DEF IndInv, RoutedOnce
  <2>4. \A f \in Flags : ~HasRecord(f)' => counted'[f] <= crashes'
    BY <1>1, <1>3, <2>1 DEF IndInv, RoutedOnce
  <2> QED
    BY <2>2, <2>3, <2>4 DEF RoutedOnce
<1> QED
    BY <1>1, <1>2, <1>4, <1>5
    DEF IndInv, AckedDecisionStands, FinalOnlyIfAcked, PenalisedNeverAutoAdmitted, CallsAreExclusive,
        TasksNameRows, CaptchaRowsAreClean, AcksHaveRows, HasRecord

LEMMA InitInd == Init => IndInv
<1> SUFFICES ASSUME Init PROVE IndInv
    OBVIOUS
<1>1. Idle \in Task /\ Idle.pc = "idle"
    BY DEF Idle, Task, TaskStates, Actors, Decisions
<1>2. Ids = {}
    BY DEF Init
<1>3. TypeOK
    BY <1>1 DEF Init, TypeOK, NotSweeping
<1> QED
    BY <1>1, <1>2, <1>3
    DEF Init, IndInv, RoutedOnce, HasRecord, AckedDecisionStands, FinalOnlyIfAcked,
        PenalisedNeverAutoAdmitted, CallsAreExclusive, TasksNameRows, CaptchaRowsAreClean,
        AcksHaveRows

(***************************************************************************)
(* Every step keeps the inductive invariant.                               *)
(***************************************************************************)
LEMMA NextInd == IndInv /\ [Next]_approvalVars => IndInv'
<1> SUFFICES ASSUME IndInv, [Next]_approvalVars PROVE IndInv'
    OBVIOUS
<1>1. CASE Tick \/ QQNext \/ Crash
    BY <1>1, EnvironmentInd, CrashInd
<1>2. CASE SweepStep
    BY <1>2, SweepInd
<1>3. CASE ExpireOldPending \/ \E P, E \in SUBSET Ids : CaptchaWrites(P, E)
    BY <1>3, UnlockedWritesInd
<1>4. ASSUME NEW t \in Tasks, TaskNext(t)
      PROVE  IndInv'
    BY <1>4, RouteInd, DecideManuallyInd, DecideAfterCaptchaInd, AcknowledgeInd, CallFailsInd
       DEF TaskNext
<1>5. ASSUME NEW t \in Tasks,
             \/ \E f \in Flags : HandleJoinRequest(t, f)
             \/ \E i \in Ids, d \in Decisions : StartManual(t, i, d) \/ StartAfterCaptcha(t, i, d)
             \/ ReturnAfterCaptcha(t)
      PROVE  IndInv'
    BY <1>5, StartsInd
<1>6. CASE UNCHANGED approvalVars
  <2>1. TypeOK'
    BY <1>6 DEF approvalVars, IndInv, TypeOK
  <2> QED
    BY <1>6, <2>1, QuietInd DEF approvalVars, QuietTask, QuietRow
<1> QED
    BY <1>1, <1>2, <1>3, <1>4, <1>5, <1>6 DEF Next, CoreNext, CaptchaNext

(***************************************************************************)
(* The inductive invariant, of which the type invariant is a part, holds   *)
(* in every reachable state of the admission service.                      *)
(***************************************************************************)
THEOREM IndInvHolds == Spec => []IndInv
BY InitInd, NextInd, PTL DEF Spec

(***************************************************************************)
(* No request is routed or recorded twice, however many live events,       *)
(* sweeps and crashes there are; it is counted when it is recorded, and    *)
(* each death can add one count at most.                                   *)
(***************************************************************************)
THEOREM RoutedOnceHolds == Spec => []RoutedOnce
<1>1. IndInv => RoutedOnce
    BY DEF IndInv
<1> QED
    BY <1>1, IndInvHolds, PTL

(***************************************************************************)
(* An acknowledged decision is the only one of its request and is what the *)
(* row says for ever after.                                                *)
(***************************************************************************)
THEOREM AckedDecisionStandsHolds == Spec => []AckedDecisionStands
<1>1. IndInv => AckedDecisionStands
    BY DEF IndInv
<1> QED
    BY <1>1, IndInvHolds, PTL

(***************************************************************************)
(* Nobody under a penalty is admitted without an operator's decision.      *)
(***************************************************************************)
THEOREM PenalisedNeverAutoAdmittedHolds == Spec => []PenalisedNeverAutoAdmitted
<1>1. IndInv => PenalisedNeverAutoAdmitted
    BY DEF IndInv
<1> QED
    BY <1>1, IndInvHolds, PTL

-----------------------------------------------------------------------------
(***************************************************************************)
(* The CAPTCHA on top of the admission service.                            *)
(***************************************************************************)
LEMMA WriteRowsEffect ==
    ASSUME TypeOK, NEW P \in SUBSET Ids, NEW E \in SUBSET Ids, WriteRows(P, E)
    PROVE  /\ Ids' = Ids /\ \A i \in Ids : records'[i].flag = records[i].flag
           /\ P \cup E = {} => records' = records
<1>1. records \in Seq(Record) /\ \A i \in Ids : records[i] \in Record
    BY DEF TypeOK
<1>2. Ids' = Ids /\ \A i \in Ids : records'[i].flag = records[i].flag
    BY <1>1 DEF WriteRows, Record
<1>3. ASSUME P \cup E = {} PROVE records' = records
    <2>1. records' = [i \in Ids |-> records[i]]
        BY <1>3 DEF WriteRows
    <2>2. records = [i \in Ids |-> records[i]]
        BY <1>1
    <2> QED
        BY <2>1, <2>2
<1> QED
    BY <1>2, <1>3

(* Writing rows that qualify is the captcha service's write, or nothing.   *)
LEMMA WritesAreCaptchaWrites ==
    ASSUME TypeOK, NEW P \in SUBSET Ids, NEW E \in SUBSET Ids,
           RowsForCaptcha(P, E), WriteRows(P, E),
           UNCHANGED <<now, counted, task, sweep, crashes, qq, sent, acks>>
    PROVE  [Next]_approvalVars
<1>1. CASE P \cup E = {}
    BY <1>1, WriteRowsEffect DEF approvalVars
<1>2. CASE P \cup E # {}
    BY <1>2 DEF CaptchaWrites, CaptchaNext, Next
<1> QED
    BY <1>1, <1>2

(* What a reconciliation writes qualifies. *)
LEMMA ReconciliationWrites ==
    ASSUME CaptchaTypeOK, NEW u \in Users, NEW K \in Kept(u)
    PROVE  /\ K \subseteq DOMAIN sess /\ Overdue(u) \in SUBSET Ids /\ Retired(u, K) \in SUBSET Ids
           /\ RowsForCaptcha(Retired(u, K), Overdue(u))
           /\ \A i \in K : records[i].status = "captcha"
           /\ \A i \in Ids : records[i].status = "captcha" /\ ~(records[i].expires < now) =>
                 RowsForCaptcha(Retired(u, K) \cup {i}, Overdue(u))
<1>1. K \subseteq Candidates(u)
    BY DEF Kept
<1>2. /\ Candidates(u) \subseteq DOMAIN sess /\ DOMAIN sess \subseteq Ids /\ Overdue(u) \in SUBSET Ids
      /\ \A i \in Candidates(u) : records[i].status = "captcha" /\ i \notin Overdue(u)
      /\ \A i \in Overdue(u) : records[i].status = "captcha" /\ records[i].expires < now
    BY DEF Candidates, Overdue, CaptchaTypeOK
<1>3. Retired(u, K) \subseteq Candidates(u)
    BY DEF Retired
<1> HIDE DEF Ids
<1>4. RowsForCaptcha(Retired(u, K), Overdue(u))
    BY <1>2, <1>3 DEF RowsForCaptcha
<1>5. ASSUME NEW i \in Ids, records[i].status = "captcha", ~(records[i].expires < now)
      PROVE  RowsForCaptcha(Retired(u, K) \cup {i}, Overdue(u))
    BY <1>2, <1>3, <1>5 DEF RowsForCaptcha
<1> QED
    BY <1>1, <1>2, <1>3, <1>4, <1>5

(***************************************************************************)
(* A session is decided, or found decided, as the admission service allows *)
(* it.                                                                     *)
(***************************************************************************)
LEMMA DecideRefines ==
    ASSUME NEW t \in Tasks \ {SweepTask}, NEW i \in Ids, NEW d \in Decisions, NEW s, Decide(t, i, d, s)
    PROVE  [Next]_approvalVars
BY DEF Decide, Next, CaptchaNext

LEMMA IssueRefines ==
    ASSUME CaptchaTypeOK, NEW i \in Ids, IssueChallenge(i)
    PROVE  [Next]_approvalVars
<1> DEFINE u == SessionUser(i)
<1>0. TypeOK /\ u \in Users /\ records[i].expires \in Nat /\ now \in Nat
    <2>1. TypeOK /\ records \in Seq(Record) /\ now \in Nat
        BY DEF CaptchaTypeOK, TypeOK
    <2>2. records[i] \in Record
        BY <2>1
    <2> QED
        BY <2>1, <2>2, CaptchaAssumption DEF SessionUser, Record
<1>1. CASE UNCHANGED approvalVars
    BY <1>1
<1>2. CASE ~UNCHANGED approvalVars
    <2>1. PICK K \in Kept(u) :
             /\ records[i].status = "captcha" /\ now <= records[i].expires
             /\ WriteRows(Retired(u, K), Overdue(u)) \/ WriteRows(Retired(u, K) \cup {i}, Overdue(u))
             /\ UNCHANGED <<now, counted, task, sweep, crashes, qq, sent, acks>>
        BY <1>2 DEF IssueChallenge
    <2>2. ~(records[i].expires < now)
        BY <1>0, <2>1
    <2> HIDE DEF u
    <2>3. CASE WriteRows(Retired(u, K), Overdue(u))
        BY <1>0, <2>1, <2>3, ReconciliationWrites, WritesAreCaptchaWrites
    <2>4. CASE WriteRows(Retired(u, K) \cup {i}, Overdue(u))
        <3>1. Retired(u, K) \cup {i} \in SUBSET Ids /\ RowsForCaptcha(Retired(u, K) \cup {i}, Overdue(u))
              /\ Overdue(u) \in SUBSET Ids
            BY <1>0, <2>1, <2>2, ReconciliationWrites
        <3> QED
            BY <1>0, <2>1, <2>4, <3>1, WritesAreCaptchaWrites
    <2> QED
        BY <2>1, <2>3, <2>4
<1> QED
    BY <1>1, <1>2

(***************************************************************************)
(* Every step is a step of the admission service, or leaves it alone.      *)
(***************************************************************************)
LEMMA StepRefines ==
    ASSUME CaptchaTypeOK, HandlersCoherent, [CaptchaAdmissionNext]_vars
    PROVE  [Next]_approvalVars
<1>0. TypeOK /\ DOMAIN sess \subseteq Ids /\ sending \subseteq DOMAIN sess
    BY DEF CaptchaTypeOK, HandlersCoherent
<1>1. CASE ApprovalStep
    <2>1. ASSUME NEW t \in Tasks,
                 \/ DecideManually(t) \/ DecideAfterCaptcha(t) \/ Acknowledge(t) \/ CallFails(t)
                 \/ \E f \in Flags : HandleJoinRequest(t, f)
                 \/ \E i \in Ids, d \in Decisions : StartManual(t, i, d)
          PROVE  Next
        BY <2>1 DEF Next, CoreNext, TaskNext
    <2>2. ASSUME Tick \/ ExpireOldPending PROVE Next
        BY <2>2 DEF Next, CoreNext
    <2>3. ASSUME NEW f \in Flags, RequestArrives(f) \/ \E d \in Decisions : QQApplies(f, d) PROVE Next
        BY <2>3 DEF Next, CoreNext, QQNext
    <2> QED
        BY <1>1, <2>1, <2>2, <2>3 DEF ApprovalStep
<1>2. ASSUME NEW t \in Tasks, RouteAndEmit(t) PROVE Next
    BY <1>2 DEF RouteAndEmit, Next, CoreNext, TaskNext
<1>3. ASSUME NEW i \in Ids, IssueChallenge(i) PROVE [Next]_approvalVars
    BY <1>3, IssueRefines
<1>4. ASSUME NEW i \in Ids, ChallengeDelivered(i) PROVE [Next]_approvalVars
    BY <1>4 DEF ChallengeDelivered
<1>5. ASSUME NEW i \in Ids, DeliveryFails(i) PROVE [Next]_approvalVars
    <2> DEFINE P == IF records[i].status = "captcha" THEN {i} ELSE {}
    <2>1. P \in SUBSET Ids /\ {} \in SUBSET Ids /\ RowsForCaptcha(P, {}) /\ WriteRows(P, {})
          /\ UNCHANGED <<now, counted, task, sweep, crashes, qq, sent, acks>>
        BY <1>5 DEF DeliveryFails, RowsForCaptcha
    <2> QED
        BY <1>0, <2>1, WritesAreCaptchaWrites
<1>6. ASSUME NEW t \in Tasks, NEW u \in Users, NEW target, NEW correct, HandlePrivateMessage(t, u, target, correct)
      PROVE  [Next]_approvalVars
    <2>1. PICK K \in Kept(u) : WriteRows(Retired(u, K), Overdue(u))
                               /\ UNCHANGED <<now, counted, task, sweep, crashes, qq, sent, acks>>
        BY <1>6 DEF HandlePrivateMessage
    <2> QED
        BY <1>0, <2>1, ReconciliationWrites, WritesAreCaptchaWrites
<1>7. ASSUME NEW t \in Tasks, ProcessAnswer(t) PROVE [Next]_approvalVars
    <2>1. t # SweepTask /\ answer[t].id \in Ids
        BY <1>0, <1>7 DEF ProcessAnswer, HandlersCoherent
    <2>2. CASE UNCHANGED approvalVars
        BY <2>2
    <2>3. CASE ~UNCHANGED approvalVars
        <3>1. \E d \in Decisions, s \in {sess, Attempt(answer[t].id, answer[t].correct)} :
                 Decide(t, answer[t].id, d, s)
            BY <1>7, <2>3 DEF ProcessAnswer, Drop, Decisions
        <3> QED
            BY <2>1, <3>1, DecideRefines
    <2> QED
        BY <2>2, <2>3
<1>8. ASSUME NEW t \in Tasks, NEW i \in DOMAIN sess, ExpireSession(t, i) PROVE [Next]_approvalVars
    <2>1. t # SweepTask /\ Decide(t, i, "reject", sess) /\ i \in Ids /\ "reject" \in Decisions
        BY <1>0, <1>8 DEF ExpireSession, Decisions
    <2> QED
        BY <2>1, DecideRefines
<1>9. ASSUME NEW t \in Tasks, AfterDecision(t) PROVE Next
    <2>1. t # SweepTask /\ ReturnAfterCaptcha(t)
        BY <1>9 DEF AfterDecision, HandlersCoherent
    <2> QED
        BY <2>1 DEF Next, CaptchaNext
<1>10. ASSUME CaptchaCrash PROVE Next
    BY <1>10 DEF CaptchaCrash, Next
<1>11. CASE UNCHANGED vars
    BY <1>11 DEF vars
<1> QED
    BY <1>1, <1>2, <1>3, <1>4, <1>5, <1>6, <1>7, <1>8, <1>9, <1>10, <1>11
    DEF CaptchaAdmissionNext, CaptchaAction

(***************************************************************************)
(* What the handlers, the sessions and the acknowledgements say together.  *)
(***************************************************************************)
CaptchaSafe ==
    /\ HandlersCoherent /\ DecisionsFollowAnswers /\ LateRepliesDropped
    /\ AttemptBudget /\ AttemptsLeft /\ CaptchaDecisionEarned

FlagsKept == Ids \subseteq Ids' /\ \A i \in Ids : records'[i].flag = records[i].flag

LEMMA CaptchaTypes ==
    ASSUME CaptchaTypeOK
    PROVE  /\ TypeOK /\ DOMAIN sess \subseteq Ids /\ crashes \in Nat /\ task \in [Tasks -> Task]
           /\ acks \in [Flags -> Seq(Ack)]
           /\ \A i \in Ids : records[i].flag \in Flags /\ records[i] \in Record
           /\ sess \in [DOMAIN sess -> Session]
           /\ \A i \in DOMAIN sess : /\ sess[i] \in Session /\ sess[i].attempts \in Nat
                                     /\ sess[i].solved \in BOOLEAN /\ sess[i].passed \in BOOLEAN
           /\ MaxAttempts \in Nat \ {0} /\ SweepTask \in Tasks
<1>1. TypeOK /\ records \in Seq(Record)
    BY DEF CaptchaTypeOK, TypeOK
<1>2. \A i \in Ids : records[i] \in Record
    BY <1>1
<1> QED
    BY <1>1, <1>2, CaptchaAssumption, ApprovalAssumption DEF CaptchaTypeOK, TypeOK, Record, Session

(* Steps of tasks that leave the sessions and the acknowledgements alone.  *)
KeepsRole(t) ==
    /\ task'[t].by = "captcha" <=> task[t].by = "captcha"
    /\ task[t].by = "captcha" => task'[t].id = task[t].id /\ task'[t].decision = task[t].decision

LEMMA TaskStepSafe ==
    ASSUME CaptchaTypeOK, CaptchaSafe, FlagsKept, UNCHANGED <<sess, sending, answer, crashes, acks>>,
           \A t \in Tasks : KeepsRole(t)
    PROVE  CaptchaSafe'
<1>0. /\ CaptchaTypeOK /\ DOMAIN sess \subseteq Ids /\ SweepTask \in Tasks
      /\ HandlersCoherent /\ DecisionsFollowAnswers /\ LateRepliesDropped
      /\ AttemptBudget /\ AttemptsLeft /\ CaptchaDecisionEarned
    BY CaptchaTypes DEF CaptchaSafe
<1>1. HandlersCoherent'
    BY <1>0 DEF HandlersCoherent, KeepsRole
<1>2. DecisionsFollowAnswers'
    BY <1>0 DEF DecisionsFollowAnswers, KeepsRole
<1>3. \A i \in DOMAIN sess : CaptchaAcked(i)' = CaptchaAcked(i) /\ Deciding(i)' = Deciding(i)
    BY <1>0 DEF FlagsKept, CaptchaAcked, Deciding
<1>4. LateRepliesDropped'
    BY <1>0, <1>3 DEF LateRepliesDropped, HandlersCoherent
<1>5. AttemptBudget' /\ AttemptsLeft'
    BY <1>0, <1>3 DEF AttemptBudget, AttemptsLeft
<1>6. CaptchaDecisionEarned'
    BY <1>0 DEF CaptchaDecisionEarned, FlagsKept
<1> QED
    BY <1>1, <1>2, <1>4, <1>5, <1>6 DEF CaptchaSafe

(* Steps that only close sessions, and let replies wait or give up.        *)
ClosesOnly ==
    /\ DOMAIN sess' = DOMAIN sess
    /\ \A i \in DOMAIN sess : /\ sess'[i].attempts = sess[i].attempts
                              /\ sess'[i].passed = sess[i].passed
                              /\ sess[i].solved => sess'[i].solved

WaitsOrDrops(t) ==
    \/ answer'[t] = answer[t]
    \/ /\ t # SweepTask /\ answer[t].pc # "decide"
       /\ \/ answer'[t].pc = "none"
          \/ /\ answer'[t].pc = "wait" /\ answer'[t].id \in DOMAIN sess
             /\ ~CaptchaAcked(answer'[t].id)

LEMMA ClosingSafe ==
    ASSUME CaptchaTypeOK, CaptchaSafe, FlagsKept, ClosesOnly, UNCHANGED <<task, crashes, acks>>,
           sending' \subseteq DOMAIN sess, \A t \in Tasks : WaitsOrDrops(t)
    PROVE  CaptchaSafe'
<1>0. /\ DOMAIN sess \subseteq Ids /\ SweepTask \in Tasks
      /\ HandlersCoherent /\ DecisionsFollowAnswers /\ LateRepliesDropped
      /\ AttemptBudget /\ AttemptsLeft /\ CaptchaDecisionEarned
    BY CaptchaTypes DEF CaptchaSafe
<1>1. \A t \in Tasks : (answer[t].pc = "decide" \/ answer'[t].pc = "decide") => answer'[t] = answer[t]
    BY DEF WaitsOrDrops
<1>2. HandlersCoherent'
    BY <1>0, <1>1 DEF HandlersCoherent, WaitsOrDrops, ClosesOnly
<1>3. \A i \in DOMAIN sess : CaptchaAcked(i)' = CaptchaAcked(i) /\ Deciding(i)' = Deciding(i)
    BY <1>0, <1>1 DEF FlagsKept, CaptchaAcked, Deciding
<1>4. DecisionsFollowAnswers'
    BY <1>0 DEF DecisionsFollowAnswers, HandlersCoherent, ClosesOnly
<1>5. LateRepliesDropped'
    BY <1>0, <1>3 DEF LateRepliesDropped, HandlersCoherent, WaitsOrDrops, ClosesOnly
<1>6. AttemptBudget' /\ AttemptsLeft'
    BY <1>0, <1>3 DEF AttemptBudget, AttemptsLeft, ClosesOnly
<1>7. CaptchaDecisionEarned'
    BY <1>0 DEF CaptchaDecisionEarned, FlagsKept, ClosesOnly
<1> QED
    BY <1>2, <1>4, <1>5, <1>6, <1>7 DEF CaptchaSafe

(***************************************************************************)
(* The tasks of the admission service.                                     *)
(***************************************************************************)
LEMMA EndedKeepsRole ==
    ASSUME task \in [Tasks -> Task], NEW t \in Tasks, End(t)
    PROVE  \A u \in Tasks : KeepsRole(u)
<1>1. Idle.by = "policy" /\ task[t] \in Task
    BY DEF Idle
<1>2. task' = [task EXCEPT ![t] = Ended(task[t])]
    BY DEF End
<1>3. Ended(task[t]).by = "captcha" <=> task[t].by = "captcha"
    BY <1>1 DEF Ended, Task
<1>4. task[t].by = "captcha" => Ended(task[t]).id = task[t].id /\ Ended(task[t]).decision = task[t].decision
    BY <1>1 DEF Ended, Task
<1> QED
    BY <1>2, <1>3, <1>4 DEF KeepsRole

LEMMA CallKeepsRole ==
    ASSUME task \in [Tasks -> Task], NEW t \in Tasks, StartCall(t, task[t])
    PROVE  \A u \in Tasks : KeepsRole(u)
BY DEF StartCall, KeepsRole, Task

LEMMA SetStatusKeepsFlags ==
    ASSUME TypeOK, NEW i \in Ids, NEW s, SetStatus(i, s)
    PROVE  FlagsKept
<1>1. records \in Seq(Record) /\ records' = [records EXCEPT ![i].status = s]
    BY DEF TypeOK, SetStatus
<1>2. Ids' = Ids /\ \A j \in Ids : records[j] \in Record
    BY <1>1
<1> QED
    BY <1>1, <1>2 DEF FlagsKept, Record

LEMMA AdmissionStepSafe ==
    ASSUME CaptchaTypeOK, IndInv, CaptchaSafe, NEW t \in Tasks,
           \/ DecideManually(t) \/ DecideAfterCaptcha(t) \/ CallFails(t) \/ Route(t)
           \/ answer[t].pc = "none" /\ \E f \in Flags : HandleJoinRequest(t, f)
           \/ answer[t].pc = "none" /\ \E i \in Ids, d \in Decisions : StartManual(t, i, d),
           UNCHANGED <<sess, sending, answer>>
    PROVE  CaptchaSafe'
<1>0. /\ TypeOK /\ task \in [Tasks -> Task] /\ task[t] \in Task /\ UNCHANGED <<crashes, acks>>
      /\ task[t].pc \in {"lock", "call"} /\ task[t].by # "policy" => task[t].id \in Ids
      /\ task[t].pc = "call" => task[t].id \in Ids
      /\ HandlersCoherent
    BY CaptchaTypes DEF IndInv, TasksNameRows, CaptchaSafe, DecideManually, DecideAfterCaptcha, CallFails,
                        Route, HandleJoinRequest, StartManual
<1>1. CASE Route(t)
    <2>1. records \in Seq(Record) /\ task[t].by = "policy"
        BY <1>0, <1>1 DEF TypeOK, Route, Waits
    <2>2. UNCHANGED records \/ \E r : records' = Append(records, r)
        BY <1>1 DEF Route
    <2>3. FlagsKept
        BY <2>1, <2>2 DEF FlagsKept
    <2>4. End(t) \/ \E id, d : StartCall(t, [task[t] EXCEPT !.id = id, !.decision = d])
        BY <1>1 DEF Route
    <2>5. CASE End(t)
        BY <1>0, <2>3, <2>5, EndedKeepsRole, TaskStepSafe
    <2>6. ASSUME NEW id, NEW d, StartCall(t, [task[t] EXCEPT !.id = id, !.decision = d]) PROVE CaptchaSafe'
        <3>1. \A u \in Tasks : KeepsRole(u)
            BY <1>0, <2>1, <2>6 DEF StartCall, KeepsRole, Task
        <3> QED
            BY <1>0, <2>3, <3>1, TaskStepSafe
    <2> QED
        BY <2>4, <2>5, <2>6
<1>2. CASE DecideManually(t) \/ DecideAfterCaptcha(t)
    <2>1. FlagsKept
        <3>1. UNCHANGED records \/ SetStatus(task[t].id, "expired")
            BY <1>2 DEF DecideManually, DecideAfterCaptcha
        <3>2. task[t].id \in Ids
            BY <1>0, <1>2 DEF DecideManually, DecideAfterCaptcha, Waits
        <3> QED
            BY <1>0, <3>1, <3>2, SetStatusKeepsFlags DEF FlagsKept
    <2>2. End(t) \/ StartCall(t, task[t])
        BY <1>2 DEF DecideManually, DecideAfterCaptcha
    <2>3. \A u \in Tasks : KeepsRole(u)
        BY <1>0, <2>2, EndedKeepsRole, CallKeepsRole
    <2> QED
        BY <1>0, <2>1, <2>3, TaskStepSafe
<1>3. CASE CallFails(t)
    <2>1. End(t) /\ (UNCHANGED records \/ SetStatus(task[t].id, "pending")) /\ task[t].id \in Ids
        BY <1>0, <1>3 DEF CallFails, _markActionFailure
    <2>2. FlagsKept /\ \A u \in Tasks : KeepsRole(u)
        BY <1>0, <2>1, SetStatusKeepsFlags, EndedKeepsRole DEF FlagsKept
    <2> QED
        BY <1>0, <2>2, TaskStepSafe
<1>4. CASE answer[t].pc = "none" /\ \/ \E f \in Flags : HandleJoinRequest(t, f)
                                    \/ \E i \in Ids, d \in Decisions : StartManual(t, i, d)
    <2>1. PICK k : k.by # "captcha" /\ task' = [task EXCEPT ![t] = k] /\ UNCHANGED records
        BY <1>4 DEF HandleJoinRequest, StartRoute, StartManual, Idle
    <2>2. task[t].by # "captcha"
        BY <1>0, <1>4 DEF HandlersCoherent
    <2>3. FlagsKept /\ \A u \in Tasks : KeepsRole(u)
        BY <1>0, <2>1, <2>2 DEF FlagsKept, KeepsRole
    <2> QED
        BY <1>0, <2>3, TaskStepSafe
<1> QED
    BY <1>1, <1>2, <1>3, <1>4

LEMMA ElsewhereSafe ==
    ASSUME CaptchaTypeOK, CaptchaSafe, UNCHANGED <<sess, sending, answer>>,
           \/ Tick \/ ExpireOldPending
           \/ \E f \in Flags : RequestArrives(f) \/ \E d \in Decisions : QQApplies(f, d)
    PROVE  CaptchaSafe'
<1>1. /\ UNCHANGED <<task, crashes, acks>> /\ records \in Seq(Record)
      /\ \/ UNCHANGED records
         \/ records' = [i \in Ids |-> IF Expirable(records[i])
                                      THEN [records[i] EXCEPT !.status = "expired"] ELSE records[i]]
    BY CaptchaTypes DEF TypeOK, Tick, ExpireOldPending, RequestArrives, QQApplies, serviceVars
<1>2. FlagsKept
    BY <1>1, CaptchaTypes DEF FlagsKept, Record
<1>3. \A u \in Tasks : KeepsRole(u)
    BY <1>1 DEF KeepsRole
<1> QED
    BY <1>1, <1>2, <1>3, TaskStepSafe

(* An acknowledged decision of the CAPTCHA is its handler's.               *)
LEMMA AcknowledgeSafe ==
    ASSUME CaptchaTypeOK, IndInv, CaptchaSafe, NEW t \in Tasks, Acknowledge(t),
           UNCHANGED <<sess, sending, answer>>
    PROVE  CaptchaSafe'
<1> DEFINE k == task[t]
           f == task[t].flag
<1>0. /\ HandlersCoherent /\ DecisionsFollowAnswers /\ LateRepliesDropped
      /\ AttemptBudget /\ AttemptsLeft /\ CaptchaDecisionEarned
      /\ DOMAIN sess \subseteq Ids /\ acks \in [Flags -> Seq(Ack)] /\ SweepTask \in Tasks
      /\ task \in [Tasks -> Task]
    BY CaptchaTypes DEF CaptchaSafe
<1>1. /\ f \in Flags /\ k.id \in Ids /\ records[k.id].flag = f /\ acks[f] = <<>>
      /\ \A i, j \in Ids : records[i].flag = records[j].flag => i = j
    BY DEF Acknowledge, IndInv, TasksNameRows, RoutedOnce
<1>2. acks' = [acks EXCEPT ![f] = <<[decision |-> k.decision, by |-> k.by]>>]
    BY <1>0, <1>1 DEF Acknowledge
<1>3. FlagsKept
    BY <1>0, <1>1, CaptchaTypes, SetStatusKeepsFlags DEF Acknowledge
<1>4. \A u \in Tasks : KeepsRole(u)
    BY <1>0, EndedKeepsRole DEF Acknowledge
<1>5. UNCHANGED crashes
    BY DEF Acknowledge
<1>6. /\ \A i \in DOMAIN sess : records'[i].flag = records[i].flag
      /\ \A i \in DOMAIN sess : i # k.id => acks'[records[i].flag] = acks[records[i].flag]
    BY <1>0, <1>1, <1>2, <1>3 DEF FlagsKept
<1>7. k.by = "captcha" => /\ answer[t].pc = "decide" /\ answer[t].id = k.id
                          /\ k.decision = "approve" => sess[k.id].passed
                          /\ k.decision = "reject" /\ crashes = 0 => ~sess[k.id].passed
    BY <1>0 DEF HandlersCoherent, DecisionsFollowAnswers
<1> HIDE DEF k, f
<1>8. HandlersCoherent'
    BY <1>0, <1>4 DEF HandlersCoherent, KeepsRole
<1>9. DecisionsFollowAnswers'
    BY <1>0, <1>4, <1>5 DEF DecisionsFollowAnswers, KeepsRole
<1>10. \A i \in DOMAIN sess : Deciding(i)' = Deciding(i)
    BY DEF Deciding
<1>11. \A i \in DOMAIN sess : CaptchaAcked(i)' => CaptchaAcked(i) \/ Deciding(i)
    <2> SUFFICES ASSUME NEW i \in DOMAIN sess, CaptchaAcked(i)' PROVE CaptchaAcked(i) \/ Deciding(i)
        OBVIOUS
    <2>1. CASE i # k.id
        BY <1>6, <2>1 DEF CaptchaAcked
    <2>2. CASE i = k.id
        <3>1. acks'[records'[i].flag] = <<[decision |-> k.decision, by |-> k.by]>>
            BY <1>0, <1>1, <1>2, <1>6, <2>2
        <3>2. k.by = "captcha"
            BY <3>1 DEF CaptchaAcked
        <3> QED
            BY <1>7, <2>2, <3>2 DEF Deciding
    <2> QED
        BY <2>1, <2>2
<1>12. LateRepliesDropped'
    BY <1>0, <1>10, <1>11 DEF LateRepliesDropped, HandlersCoherent
<1>13. AttemptBudget' /\ AttemptsLeft'
    BY <1>0, <1>5, <1>10 DEF AttemptBudget, AttemptsLeft
<1>14. CaptchaDecisionEarned'
    <2> SUFFICES ASSUME NEW i \in DOMAIN sess, NEW n \in DOMAIN acks'[records'[i].flag],
                        acks'[records'[i].flag][n].by = "captcha"
                 PROVE  /\ acks'[records'[i].flag][n].decision = "approve" => sess[i].passed
                        /\ acks'[records'[i].flag][n].decision = "reject" /\ crashes = 0 => ~sess[i].passed
        BY <1>5 DEF CaptchaDecisionEarned
    <2>1. CASE i # k.id
        <3>1. acks'[records'[i].flag] = acks[records[i].flag]
            BY <1>6, <2>1
        <3> QED
            BY <1>0, <3>1 DEF CaptchaDecisionEarned
    <2>2. CASE i = k.id
        <3>1. acks'[records'[i].flag] = <<[decision |-> k.decision, by |-> k.by]>>
            BY <1>0, <1>1, <1>2, <1>6, <2>2
        <3> QED
            BY <1>7, <2>2, <3>1
    <2> QED
        BY <2>1, <2>2
<1> QED
    BY <1>8, <1>9, <1>12, <1>13, <1>14 DEF CaptchaSafe

(***************************************************************************)
(* Issuing, delivering and receiving.                                      *)
(***************************************************************************)
LEMMA ClosedClosesOnly ==
    ASSUME CaptchaTypeOK, NEW S, sess' = Closed(S)
    PROVE  ClosesOnly
<1>1. \A i \in DOMAIN sess : sess[i] \in Session
    BY CaptchaTypes
<1> QED
    BY <1>1 DEF Closed, ClosesOnly, Session

LEMMA UndecidedIsUnacked ==
    ASSUME CaptchaTypeOK, IndInv, NEW i \in Ids, records[i].status = "captcha"
    PROVE  ~CaptchaAcked(i)
<1>1. records[i].flag \in Flags
    BY CaptchaTypes
<1>2. acks[records[i].flag] = <<>>
    BY <1>1 DEF IndInv, AckedDecisionStands, Final
<1> QED
    BY <1>2 DEF CaptchaAcked

LEMMA HandleMessageSafe ==
    ASSUME CaptchaTypeOK, IndInv, CaptchaSafe, NEW t \in Tasks, NEW u \in Users, NEW target, NEW correct,
           HandlePrivateMessage(t, u, target, correct)
    PROVE  CaptchaSafe'
<1>0. TypeOK /\ DOMAIN sess \subseteq Ids /\ answer \in [Tasks -> [pc : {"none", "wait", "decide"}, id : Ids \cup {0}, correct : BOOLEAN]]
      /\ sending \subseteq DOMAIN sess
    BY CaptchaTypes DEF CaptchaTypeOK, CaptchaSafe, HandlersCoherent
<1>1. /\ t # SweepTask /\ answer[t].pc = "none"
      /\ UNCHANGED <<task, crashes, acks, sending>>
    BY DEF HandlePrivateMessage
<1>2. PICK K \in Kept(u) :
         /\ WriteRows(Retired(u, K), Overdue(u))
         /\ sess' = Reconciled(u, K)
         /\ \/ UNCHANGED answer
            \/ \E i \in Addressed(u, K, target) :
                  answer' = [answer EXCEPT ![t] = [pc |-> "wait", id |-> i, correct |-> correct]]
    BY DEF HandlePrivateMessage
<1>3. FlagsKept
    BY <1>0, <1>2, ReconciliationWrites, WriteRowsEffect DEF FlagsKept
<1>4. ClosesOnly
    BY <1>2, ClosedClosesOnly DEF Reconciled
<1>5. \A i \in Addressed(u, K, target) : i \in DOMAIN sess /\ records[i].status = "captcha"
    BY <1>2, ReconciliationWrites DEF Addressed
<1>6. \A i \in Addressed(u, K, target) : ~CaptchaAcked(i)
    BY <1>0, <1>5, UndecidedIsUnacked
<1>7. \A r \in Tasks : WaitsOrDrops(r)
    BY <1>0, <1>1, <1>2, <1>5, <1>6 DEF WaitsOrDrops
<1> QED
    BY <1>0, <1>1, <1>3, <1>4, <1>7, ClosingSafe

LEMMA DeliverySafe ==
    ASSUME CaptchaTypeOK, CaptchaSafe, NEW i \in Ids, ChallengeDelivered(i) \/ DeliveryFails(i)
    PROVE  CaptchaSafe'
<1>0. TypeOK /\ sending \subseteq DOMAIN sess
    BY CaptchaTypes DEF CaptchaSafe, HandlersCoherent
<1>1. UNCHANGED <<task, crashes, acks, answer>> /\ sending' \subseteq DOMAIN sess
    BY <1>0 DEF ChallengeDelivered, DeliveryFails, approvalVars
<1>2. FlagsKept
    <2>1. CASE ChallengeDelivered(i)
        BY <2>1 DEF ChallengeDelivered, approvalVars, FlagsKept
    <2>2. CASE DeliveryFails(i)
        BY <1>0, <2>2, WriteRowsEffect DEF DeliveryFails, FlagsKept
    <2> QED
        BY <2>1, <2>2
<1>3. ClosesOnly
    <2>1. CASE ChallengeDelivered(i)
        BY <2>1 DEF ChallengeDelivered, ClosesOnly
    <2>2. CASE DeliveryFails(i)
        BY <2>2, ClosedClosesOnly DEF DeliveryFails
    <2> QED
        BY <2>1, <2>2
<1>4. \A r \in Tasks : WaitsOrDrops(r)
    BY <1>1 DEF WaitsOrDrops
<1> QED
    BY <1>1, <1>2, <1>3, <1>4, ClosingSafe

LEMMA IssueSafe ==
    ASSUME CaptchaTypeOK, IndInv, CaptchaSafe, NEW i \in Ids, IssueChallenge(i)
    PROVE  CaptchaSafe'
<1> DEFINE u == SessionUser(i)
<1>0. /\ TypeOK /\ DOMAIN sess \subseteq Ids /\ SweepTask \in Tasks /\ u \in Users
      /\ crashes \in Nat /\ MaxAttempts \in Nat \ {0}
      /\ HandlersCoherent /\ DecisionsFollowAnswers /\ LateRepliesDropped
      /\ AttemptBudget /\ AttemptsLeft /\ CaptchaDecisionEarned
    BY CaptchaTypes, CaptchaAssumption DEF CaptchaSafe, SessionUser
<1>1. UNCHANGED <<task, crashes, acks, answer>> /\ ~CaptchaBusy(i)
    BY DEF IssueChallenge, approvalVars
<1>2. CASE UNCHANGED <<approvalVars, sess, sending>>
    <2>1. FlagsKept /\ ClosesOnly /\ sending' \subseteq DOMAIN sess
        BY <1>0, <1>2 DEF approvalVars, FlagsKept, ClosesOnly, HandlersCoherent
    <2>2. \A r \in Tasks : WaitsOrDrops(r)
        BY <1>1 DEF WaitsOrDrops
    <2> QED
        BY <1>1, <2>1, <2>2, ClosingSafe
<1>3. ASSUME NEW K \in Kept(u), records[i].status = "captcha", now <= records[i].expires,
             WriteRows(Retired(u, K) \cup {i}, Overdue(u)), sess' = Reconciled(u, K), UNCHANGED sending
      PROVE  CaptchaSafe'
    <2>1. Retired(u, K) \cup {i} \in SUBSET Ids /\ Overdue(u) \in SUBSET Ids
        BY <1>0, ReconciliationWrites
    <2>2. FlagsKept
        BY <1>0, <1>3, <2>1, WriteRowsEffect DEF FlagsKept
    <2>3. ClosesOnly /\ sending' \subseteq DOMAIN sess
        BY <1>0, <1>3, ClosedClosesOnly DEF Reconciled, HandlersCoherent
    <2>4. \A r \in Tasks : WaitsOrDrops(r)
        BY <1>1 DEF WaitsOrDrops
    <2> QED
        BY <1>1, <2>2, <2>3, <2>4, ClosingSafe
<1>4. ASSUME NEW K \in Kept(u), records[i].status = "captcha",
             WriteRows(Retired(u, K), Overdue(u)),
             sess' = [j \in DOMAIN sess \cup {i} |-> IF j = i THEN NewSession ELSE Reconciled(u, K)[j]],
             sending' = sending \cup {i}
      PROVE  CaptchaSafe'
    <2>1. FlagsKept
        BY <1>0, <1>4, ReconciliationWrites, WriteRowsEffect DEF FlagsKept
    <2>2. /\ DOMAIN sess' = DOMAIN sess \cup {i}
          /\ sess'[i].attempts = 0 /\ sess'[i].passed = FALSE /\ sess'[i].solved = FALSE
          /\ \A j \in DOMAIN sess : j # i =>
                /\ sess'[j].attempts = sess[j].attempts /\ sess'[j].passed = sess[j].passed
                /\ sess[j].solved => sess'[j].solved
        BY <1>4, CaptchaTypes DEF NewSession, Reconciled, Closed, Session
    <2>3. ~Deciding(i) /\ ~CaptchaAcked(i)
        BY <1>0, <1>1, <1>4, UndecidedIsUnacked DEF CaptchaBusy, Deciding
    <2>4. \A j \in Ids : CaptchaAcked(j)' = CaptchaAcked(j) /\ Deciding(j)' = Deciding(j)
        BY <1>1, <2>1 DEF FlagsKept, CaptchaAcked, Deciding
    <2>5. HandlersCoherent'
        BY <1>0, <1>1, <1>4, <2>2 DEF HandlersCoherent
    <2>6. \A t \in Tasks : task[t].by = "captcha" => task[t].id # i /\ task[t].id \in DOMAIN sess
        BY <1>0, <2>3 DEF HandlersCoherent, Deciding
    <2>7. DecisionsFollowAnswers'
        BY <1>0, <1>1, <2>2, <2>6 DEF DecisionsFollowAnswers
    <2>8. LateRepliesDropped'
        BY <1>0, <1>1, <2>2, <2>3, <2>4 DEF LateRepliesDropped, HandlersCoherent
    <2>9. AttemptBudget' /\ AttemptsLeft'
        BY <1>0, <1>1, <2>2, <2>4 DEF AttemptBudget, AttemptsLeft
    <2>10. CaptchaDecisionEarned'
        <3> SUFFICES ASSUME NEW j \in DOMAIN sess', NEW n \in DOMAIN acks[records[j].flag],
                            acks[records[j].flag][n].by = "captcha"
                     PROVE  /\ acks[records[j].flag][n].decision = "approve" => sess'[j].passed
                            /\ acks[records[j].flag][n].decision = "reject" /\ crashes = 0 => ~sess'[j].passed
            BY <1>0, <1>1, <2>1, <2>2 DEF CaptchaDecisionEarned, FlagsKept
        <3>1. j # i
            BY <2>3 DEF CaptchaAcked
        <3> QED
            BY <1>0, <2>2, <3>1 DEF CaptchaDecisionEarned
    <2> QED
        BY <2>5, <2>7, <2>8, <2>9, <2>10 DEF CaptchaSafe
<1> HIDE DEF u
<1> QED
    <2>1. CASE ~UNCHANGED <<approvalVars, sess, sending>>
        BY <1>3, <1>4, <2>1 DEF IssueChallenge, u
    <2> QED
        BY <1>2, <2>1

(***************************************************************************)
(* Taking a decision, with the session as the answer left it.              *)
(***************************************************************************)
LEMMA DecideSafe ==
    ASSUME CaptchaTypeOK, IndInv, CaptchaSafe, NEW t \in Tasks \ {SweepTask}, NEW i \in DOMAIN sess,
           NEW d \in Decisions, NEW s \in [DOMAIN sess -> Session],
           answer[t].pc # "decide", ~Deciding(i), ~sess[i].solved, ~s[i].solved,
           \A j \in DOMAIN sess : j # i => s[j] = sess[j],
           s[i].attempts <= MaxAttempts + crashes,
           s[i].passed = sess[i].passed \/ ~CaptchaAcked(i),
           d = "approve" => s[i].passed,
           d = "reject" /\ crashes = 0 => ~s[i].passed,
           Decide(t, i, d, s), UNCHANGED sending
    PROVE  CaptchaSafe'
<1>0. /\ DOMAIN sess \subseteq Ids /\ SweepTask \in Tasks
      /\ HandlersCoherent /\ DecisionsFollowAnswers /\ LateRepliesDropped
      /\ AttemptBudget /\ AttemptsLeft /\ CaptchaDecisionEarned
      /\ task \in [Tasks -> Task] /\ sending \subseteq DOMAIN sess
      /\ answer \in [Tasks -> [pc : {"none", "wait", "decide"}, id : Ids \cup {0}, correct : BOOLEAN]]
    BY CaptchaTypes DEF CaptchaSafe, HandlersCoherent, CaptchaTypeOK
<1>1. UNCHANGED <<records, crashes, acks>>
    BY DEF Decide, StartAfterCaptcha, approvalVars
<1>2. /\ DOMAIN sess' = DOMAIN sess /\ \A j \in DOMAIN sess : j # i => sess'[j] = sess[j]
      /\ sess'[i].attempts = s[i].attempts /\ sess'[i].passed = s[i].passed
    BY DEF Decide, Session
<1>3. \/ UNCHANGED task /\ sess'[i].solved /\ answer'[t].pc = "none"
      \/ /\ sess'[i] = s[i] /\ answer'[t].pc = "decide" /\ answer'[t].id = i
         /\ task'[t].by = "captcha" /\ task'[t].id = i /\ task'[t].decision = d
         /\ \A r \in Tasks : r # t => task'[r] = task[r]
    <2>1. CASE /\ sess' = [s EXCEPT ![i].solved = TRUE] /\ answer' = [answer EXCEPT ![t] = NoAnswer]
               /\ UNCHANGED approvalVars
        BY <1>0, <2>1 DEF NoAnswer, Session, approvalVars
    <2>2. CASE /\ StartAfterCaptcha(t, i, d) /\ sess' = s
               /\ answer' = [answer EXCEPT ![t] = [NoAnswer EXCEPT !.pc = "decide", !.id = i]]
        <3>1. answer'[t].pc = "decide" /\ answer'[t].id = i
            BY <1>0, <2>2 DEF NoAnswer
        <3>2. /\ task'[t].by = "captcha" /\ task'[t].id = i /\ task'[t].decision = d
              /\ \A r \in Tasks : r # t => task'[r] = task[r]
            BY <1>0, <2>2 DEF StartAfterCaptcha
        <3> QED
            BY <2>2, <3>1, <3>2
    <2> QED
        BY <2>1, <2>2 DEF Decide
<1>4. \A r \in Tasks : r # t => answer'[r] = answer[r]
    BY <1>0 DEF Decide
<1>5. \A r \in Tasks : r # t => task'[r] = task[r]
    BY <1>3
<1>6. \A r \in Tasks : answer[r].pc = "decide" => r # t /\ answer[r].id # i
    BY DEF Deciding
<1>7. task[t].by # "captcha"
    BY <1>0 DEF HandlersCoherent
<1>8. HandlersCoherent'
    <2>1. answer'[SweepTask].pc = "none" /\ sending' \subseteq DOMAIN sess'
        BY <1>0, <1>2, <1>4 DEF HandlersCoherent
    <2>2. ASSUME NEW r \in Tasks
          PROVE  /\ answer'[r].pc # "none" => answer'[r].id \in DOMAIN sess'
                 /\ answer'[r].pc = "decide" <=> task'[r].by = "captcha"
                 /\ answer'[r].pc = "decide" => task'[r].id = answer'[r].id
        BY <1>0, <1>2, <1>3, <1>4, <1>5, <1>7 DEF HandlersCoherent
    <2> QED
        BY <2>1, <2>2 DEF HandlersCoherent
<1>9. \A r \in Tasks : task'[r].by = "captcha" =>
         \/ r # t /\ task'[r] = task[r] /\ task[r].id # i /\ task[r].id \in DOMAIN sess
         \/ r = t /\ task'[r].id = i /\ task'[r].decision = d
    BY <1>0, <1>3, <1>5, <1>6, <1>7 DEF HandlersCoherent
<1>10. DecisionsFollowAnswers'
    BY <1>0, <1>1, <1>2, <1>9 DEF DecisionsFollowAnswers
<1>11. /\ \A j \in DOMAIN sess : CaptchaAcked(j)' = CaptchaAcked(j)
       /\ \A j \in DOMAIN sess : j # i => Deciding(j)' = Deciding(j)
       /\ sess'[i].solved \/ Deciding(i)'
    <2>1. \A j \in DOMAIN sess : CaptchaAcked(j)' = CaptchaAcked(j)
        BY <1>1 DEF CaptchaAcked
    <2>2. ASSUME NEW j \in DOMAIN sess, j # i PROVE Deciding(j)' = Deciding(j)
        BY <1>3, <1>4, <2>2 DEF Deciding
    <2>3. sess'[i].solved \/ Deciding(i)'
        BY <1>3 DEF Deciding
    <2> QED
        BY <2>1, <2>2, <2>3
<1>12. LateRepliesDropped'
    BY <1>0, <1>2, <1>3, <1>4, <1>11 DEF LateRepliesDropped, HandlersCoherent
<1>13. AttemptBudget'
    BY <1>0, <1>1, <1>2 DEF AttemptBudget
<1>14. AttemptsLeft'
    BY <1>0, <1>1, <1>2, <1>11 DEF AttemptsLeft
<1>15. CaptchaDecisionEarned'
    <2> SUFFICES ASSUME NEW j \in DOMAIN sess', NEW n \in DOMAIN acks'[records'[j].flag],
                        acks'[records'[j].flag][n].by = "captcha"
                 PROVE  /\ acks'[records'[j].flag][n].decision = "approve" => sess'[j].passed
                        /\ acks'[records'[j].flag][n].decision = "reject" /\ crashes' = 0 => ~sess'[j].passed
        BY DEF CaptchaDecisionEarned
    <2>1. sess'[j].passed = sess[j].passed
        BY <1>1, <1>2 DEF CaptchaAcked
    <2> QED
        BY <1>0, <1>1, <1>2, <2>1 DEF CaptchaDecisionEarned
<1> QED
    BY <1>8, <1>10, <1>12, <1>13, <1>14, <1>15 DEF CaptchaSafe

(* An answer that is counted and decides nothing.                          *)
LEMMA WrongAnswerSafe ==
    ASSUME CaptchaTypeOK, CaptchaSafe, NEW t \in Tasks \ {SweepTask}, NEW i \in DOMAIN sess,
           answer[t].pc = "wait", ~Deciding(i), ~sess[i].solved, ~CaptchaAcked(i),
           sess' = Attempt(i, FALSE), sess[i].attempts + 1 < MaxAttempts,
           answer' = [answer EXCEPT ![t] = NoAnswer], UNCHANGED <<approvalVars, sending>>
    PROVE  CaptchaSafe'
<1>0. /\ DOMAIN sess \subseteq Ids /\ SweepTask \in Tasks /\ crashes \in Nat /\ MaxAttempts \in Nat
      /\ HandlersCoherent /\ DecisionsFollowAnswers /\ LateRepliesDropped
      /\ AttemptBudget /\ AttemptsLeft /\ CaptchaDecisionEarned
      /\ answer \in [Tasks -> [pc : {"none", "wait", "decide"}, id : Ids \cup {0}, correct : BOOLEAN]]
    BY CaptchaTypes DEF CaptchaSafe, CaptchaTypeOK
<1>1. /\ DOMAIN sess' = DOMAIN sess /\ \A j \in DOMAIN sess : j # i => sess'[j] = sess[j]
      /\ sess'[i].attempts = sess[i].attempts + 1 /\ sess'[i].passed = FALSE
      /\ sess'[i].solved = sess[i].solved
    BY CaptchaTypes DEF Attempt, Session
<1>2. UNCHANGED <<records, task, crashes, acks>>
    BY DEF approvalVars
<1>3. answer'[t].pc = "none" /\ \A r \in Tasks : r # t => answer'[r] = answer[r]
    BY <1>0 DEF NoAnswer
<1>4. \A j \in DOMAIN sess : CaptchaAcked(j)' = CaptchaAcked(j) /\ Deciding(j)' = Deciding(j)
    BY <1>2, <1>3 DEF CaptchaAcked, Deciding
<1>5. HandlersCoherent'
    BY <1>0, <1>1, <1>2, <1>3 DEF HandlersCoherent
<1>6. \A r \in Tasks : task[r].by = "captcha" => task[r].id # i /\ task[r].id \in DOMAIN sess
    BY <1>0 DEF HandlersCoherent, Deciding
<1>7. DecisionsFollowAnswers'
    BY <1>0, <1>1, <1>2, <1>6 DEF DecisionsFollowAnswers
<1>8. LateRepliesDropped'
    <2>1. \A j \in DOMAIN sess : sess'[j].solved = sess[j].solved
        BY <1>1
    <2>2. \A r \in Tasks : answer'[r].pc = "wait" => answer'[r] = answer[r] /\ answer[r].id \in DOMAIN sess
        BY <1>0, <1>3 DEF HandlersCoherent
    <2> QED
        BY <1>0, <1>4, <2>1, <2>2 DEF LateRepliesDropped
<1>9. AttemptBudget'
    <2>1. sess[i].attempts + 1 <= MaxAttempts + crashes
        BY <1>0, CaptchaTypes
    <2> QED
        BY <1>0, <1>1, <1>2, <2>1 DEF AttemptBudget
<1>10. AttemptsLeft'
    <2>1. sess[i].attempts + 1 < MaxAttempts + crashes
        BY <1>0, CaptchaTypes
    <2> SUFFICES ASSUME NEW j \in DOMAIN sess, ~sess'[j].solved, ~Deciding(j)
                 PROVE  /\ sess'[j].attempts < MaxAttempts + crashes
                        /\ crashes = 0 => ~sess'[j].passed
        BY <1>1, <1>2, <1>4 DEF AttemptsLeft
    <2>2. CASE j = i
        BY <1>1, <2>1, <2>2
    <2>3. CASE j # i
        BY <1>0, <1>1, <2>3 DEF AttemptsLeft
    <2> QED
        BY <2>2, <2>3
<1>11. CaptchaDecisionEarned'
    <2> SUFFICES ASSUME NEW j \in DOMAIN sess', NEW n \in DOMAIN acks'[records'[j].flag],
                        acks'[records'[j].flag][n].by = "captcha"
                 PROVE  /\ acks'[records'[j].flag][n].decision = "approve" => sess'[j].passed
                        /\ acks'[records'[j].flag][n].decision = "reject" /\ crashes' = 0 => ~sess'[j].passed
        BY DEF CaptchaDecisionEarned
    <2>1. sess'[j].passed = sess[j].passed
        BY <1>1, <1>2 DEF CaptchaAcked
    <2> QED
        BY <1>0, <1>1, <1>2, <2>1 DEF CaptchaDecisionEarned
<1> QED
    BY <1>5, <1>7, <1>8, <1>9, <1>10, <1>11 DEF CaptchaSafe

LEMMA AttemptIsTyped ==
    ASSUME CaptchaTypeOK, NEW i \in DOMAIN sess, NEW correct \in BOOLEAN
    PROVE  /\ Attempt(i, correct) \in [DOMAIN sess -> Session]
           /\ \A j \in DOMAIN sess : j # i => Attempt(i, correct)[j] = sess[j]
           /\ Attempt(i, correct)[i].attempts = sess[i].attempts + 1
           /\ Attempt(i, correct)[i].passed = correct
           /\ Attempt(i, correct)[i].solved = sess[i].solved
           /\ sess \in [DOMAIN sess -> Session]
<1>1. sess \in [DOMAIN sess -> Session] /\ sess[i] \in Session /\ sess[i].attempts \in Nat
    BY CaptchaTypes DEF CaptchaTypeOK
<1> DEFINE tried == [sess EXCEPT ![i].attempts = @ + 1]
<1>2. sess[i].attempts + 1 \in Nat
    BY <1>1
<1>3. /\ tried \in [DOMAIN sess -> Session] /\ tried[i].attempts = sess[i].attempts + 1
      /\ tried[i].solved = sess[i].solved
      /\ \A j \in DOMAIN sess : j # i => tried[j] = sess[j]
    BY <1>1, <1>2 DEF Session
<1>4. Attempt(i, correct) = [tried EXCEPT ![i].passed = correct]
    BY DEF Attempt
<1> HIDE DEF tried
<1> QED
    BY <1>1, <1>3, <1>4 DEF Session

LEMMA ProcessSafe ==
    ASSUME CaptchaTypeOK, IndInv, CaptchaSafe, NEW t \in Tasks, ProcessAnswer(t)
    PROVE  CaptchaSafe'
<1> DEFINE i == answer[t].id
           c == answer[t].correct
<1>0. /\ HandlersCoherent /\ LateRepliesDropped /\ AttemptsLeft
      /\ t # SweepTask /\ answer[t].pc = "wait" /\ i \in DOMAIN sess /\ c \in BOOLEAN
      /\ ~Deciding(i) /\ UNCHANGED sending
      /\ crashes \in Nat /\ MaxAttempts \in Nat \ {0} /\ sess[i].attempts \in Nat
      /\ sending \subseteq DOMAIN sess /\ DOMAIN sess \subseteq Ids
    BY CaptchaTypes DEF CaptchaSafe, ProcessAnswer, HandlersCoherent, CaptchaTypeOK, CaptchaBusy, Deciding
<1>1. ~sess[i].solved => ~CaptchaAcked(i) /\ sess[i].attempts < MaxAttempts + crashes
                         /\ (crashes = 0 => ~sess[i].passed)
    BY <1>0 DEF LateRepliesDropped, AttemptsLeft
<1>2. /\ Attempt(i, c) \in [DOMAIN sess -> Session] /\ sess \in [DOMAIN sess -> Session]
      /\ \A j \in DOMAIN sess : j # i => Attempt(i, c)[j] = sess[j]
      /\ Attempt(i, c)[i].attempts = sess[i].attempts + 1
      /\ Attempt(i, c)[i].passed = c /\ Attempt(i, c)[i].solved = sess[i].solved
    BY <1>0, AttemptIsTyped
<1>3. "approve" \in Decisions /\ "reject" \in Decisions
    BY DEF Decisions
<1> HIDE DEF i, c
<1>4. \/ Drop(t)
      \/ ~sess[i].solved /\ Decide(t, i, "reject", sess)
      \/ ~sess[i].solved /\ c /\ Decide(t, i, "approve", Attempt(i, c))
      \/ ~sess[i].solved /\ ~c /\ Decide(t, i, "reject", Attempt(i, c))
      \/ /\ ~sess[i].solved /\ ~c /\ Attempt(i, c)[i].attempts < MaxAttempts
         /\ sess' = Attempt(i, c) /\ answer' = [answer EXCEPT ![t] = NoAnswer]
         /\ UNCHANGED approvalVars
    BY DEF ProcessAnswer, i, c
<1>5. CASE Drop(t)
    <2>1. FlagsKept /\ ClosesOnly /\ UNCHANGED <<task, crashes, acks>>
        BY <1>5 DEF Drop, FlagsKept, ClosesOnly, approvalVars
    <2>2. \A r \in Tasks : WaitsOrDrops(r)
        BY <1>0, <1>5 DEF Drop, WaitsOrDrops, NoAnswer, CaptchaTypeOK
    <2> QED
        BY <1>0, <2>1, <2>2, ClosingSafe
<1>6. CASE ~sess[i].solved /\ Decide(t, i, "reject", sess)
    BY <1>0, <1>1, <1>2, <1>3, <1>6, DecideSafe
<1>7. CASE ~sess[i].solved /\ c /\ Decide(t, i, "approve", Attempt(i, c))
    <2>1. Attempt(i, c)[i].attempts <= MaxAttempts + crashes
        BY <1>0, <1>1, <1>2, <1>7
    <2> QED
        BY <1>0, <1>1, <1>2, <1>3, <1>7, <2>1, DecideSafe
<1>8. CASE ~sess[i].solved /\ ~c /\ Decide(t, i, "reject", Attempt(i, c))
    <2>1. Attempt(i, c)[i].attempts <= MaxAttempts + crashes
        BY <1>0, <1>1, <1>2, <1>8
    <2> QED
        BY <1>0, <1>1, <1>2, <1>3, <1>8, <2>1, DecideSafe
<1>9. CASE /\ ~sess[i].solved /\ ~c /\ Attempt(i, c)[i].attempts < MaxAttempts
           /\ sess' = Attempt(i, c) /\ answer' = [answer EXCEPT ![t] = NoAnswer]
           /\ UNCHANGED approvalVars
    <2>1. c = FALSE /\ sess[i].attempts + 1 < MaxAttempts
        BY <1>0, <1>2, <1>9
    <2> QED
        BY <1>0, <1>1, <1>9, <2>1, WrongAnswerSafe
<1> QED
    BY <1>4, <1>5, <1>6, <1>7, <1>8, <1>9

LEMMA ExpireSafe ==
    ASSUME CaptchaTypeOK, IndInv, CaptchaSafe, NEW t \in Tasks, NEW i \in DOMAIN sess, ExpireSession(t, i)
    PROVE  CaptchaSafe'
<1>1. /\ t # SweepTask /\ answer[t].pc = "none" /\ ~Deciding(i) /\ ~sess[i].solved
      /\ Decide(t, i, "reject", sess) /\ UNCHANGED sending /\ "reject" \in Decisions
    BY DEF ExpireSession, Open, CaptchaBusy, Deciding, Decisions
<1>2. sess \in [DOMAIN sess -> Session]
    BY DEF CaptchaTypeOK
<1>3. sess[i].attempts <= MaxAttempts + crashes /\ (crashes = 0 => ~sess[i].passed)
    BY <1>1 DEF CaptchaSafe, AttemptsLeft, AttemptBudget
<1> QED
    BY <1>1, <1>2, <1>3, DecideSafe

(* The handler closes the session it has decided.                          *)
LEMMA AfterDecisionSafe ==
    ASSUME CaptchaTypeOK, CaptchaSafe, NEW t \in Tasks, AfterDecision(t)
    PROVE  CaptchaSafe'
<1> DEFINE i == answer[t].id
<1>0. /\ DOMAIN sess \subseteq Ids /\ SweepTask \in Tasks /\ task \in [Tasks -> Task]
      /\ HandlersCoherent /\ DecisionsFollowAnswers /\ LateRepliesDropped
      /\ AttemptBudget /\ AttemptsLeft /\ CaptchaDecisionEarned
      /\ answer \in [Tasks -> [pc : {"none", "wait", "decide"}, id : Ids \cup {0}, correct : BOOLEAN]]
    BY CaptchaTypes DEF CaptchaSafe, CaptchaTypeOK
<1>1. /\ answer[t].pc = "decide" /\ i \in DOMAIN sess /\ sess' = Closed({i})
      /\ UNCHANGED <<records, crashes, acks, sending>>
      /\ task' = [task EXCEPT ![t] = Idle] /\ answer' = [answer EXCEPT ![t] = NoAnswer]
    BY <1>0 DEF AfterDecision, ReturnAfterCaptcha, HandlersCoherent
<1>2. ClosesOnly /\ sess'[i].solved
    BY <1>1, ClosedClosesOnly, CaptchaTypes DEF Closed, Session
<1>3. /\ answer'[t].pc = "none" /\ task'[t].by # "captcha"
      /\ \A r \in Tasks : r # t => answer'[r] = answer[r] /\ task'[r] = task[r]
    BY <1>0, <1>1 DEF NoAnswer, Idle
<1> HIDE DEF i
<1>4. HandlersCoherent'
    <2>1. t # SweepTask
        BY <1>0, <1>1 DEF HandlersCoherent
    <2> QED
        BY <1>0, <1>1, <1>2, <1>3, <2>1 DEF HandlersCoherent, ClosesOnly
<1>5. \A r \in Tasks : task'[r].by = "captcha" => task'[r] = task[r] /\ task[r].id \in DOMAIN sess
    <2>1. \A r \in Tasks : task[r].by = "captcha" => task[r].id \in DOMAIN sess
        BY <1>0 DEF HandlersCoherent
    <2> QED
        BY <1>3, <2>1
<1>6. DecisionsFollowAnswers'
    <2> SUFFICES ASSUME NEW r \in Tasks, task'[r].by = "captcha"
                 PROVE  /\ task'[r].decision = "approve" => sess'[task'[r].id].passed
                        /\ task'[r].decision = "reject" /\ crashes' = 0 => ~sess'[task'[r].id].passed
        BY DEF DecisionsFollowAnswers
    <2>1. task'[r] = task[r] /\ sess'[task[r].id].passed = sess[task[r].id].passed
        BY <1>2, <1>5 DEF ClosesOnly
    <2> QED
        BY <1>0, <1>1, <2>1 DEF DecisionsFollowAnswers
<1>7. /\ \A j \in DOMAIN sess : CaptchaAcked(j)' = CaptchaAcked(j)
      /\ \A j \in DOMAIN sess : j # i => Deciding(j)' = Deciding(j)
    <2>1. \A j \in DOMAIN sess : CaptchaAcked(j)' = CaptchaAcked(j)
        BY <1>1 DEF CaptchaAcked
    <2>2. ASSUME NEW j \in DOMAIN sess, j # i PROVE Deciding(j)' = Deciding(j)
        BY <1>3, <2>2 DEF Deciding, i
    <2> QED
        BY <2>1, <2>2
<1>8. LateRepliesDropped'
    BY <1>0, <1>2, <1>3, <1>7 DEF LateRepliesDropped, HandlersCoherent, ClosesOnly
<1>9. AttemptBudget' /\ AttemptsLeft'
    <2>1. AttemptBudget'
        BY <1>0, <1>1, <1>2 DEF AttemptBudget, ClosesOnly
    <2>2. \A j \in DOMAIN sess : ~sess'[j].solved => j # i /\ ~sess[j].solved
        BY <1>2 DEF ClosesOnly
    <2>3. AttemptsLeft'
        <3> SUFFICES ASSUME NEW j \in DOMAIN sess', ~sess'[j].solved, ~Deciding(j)'
                     PROVE  /\ sess'[j].attempts < MaxAttempts + crashes'
                            /\ crashes' = 0 => ~sess'[j].passed
            BY DEF AttemptsLeft
        <3>1. /\ j \in DOMAIN sess /\ ~sess[j].solved /\ ~Deciding(j)
              /\ sess'[j].attempts = sess[j].attempts /\ sess'[j].passed = sess[j].passed
            BY <1>2, <1>7, <2>2 DEF ClosesOnly
        <3> QED
            BY <1>0, <1>1, <3>1 DEF AttemptsLeft
    <2> QED
        BY <2>1, <2>3
<1>10. CaptchaDecisionEarned'
    <2>1. DOMAIN sess' = DOMAIN sess /\ \A j \in DOMAIN sess : sess'[j].passed = sess[j].passed
        BY <1>2 DEF ClosesOnly
    <2> SUFFICES ASSUME NEW j \in DOMAIN sess', NEW n \in DOMAIN acks'[records'[j].flag],
                        acks'[records'[j].flag][n].by = "captcha"
                 PROVE  /\ acks'[records'[j].flag][n].decision = "approve" => sess'[j].passed
                        /\ acks'[records'[j].flag][n].decision = "reject" /\ crashes' = 0 => ~sess'[j].passed
        BY DEF CaptchaDecisionEarned
    <2>2. sess'[j].passed = sess[j].passed
        BY <2>1
    <2> QED
        BY <1>0, <1>1, <2>1, <2>2 DEF CaptchaDecisionEarned
<1> QED
    BY <1>4, <1>6, <1>8, <1>9, <1>10 DEF CaptchaSafe

(* A crash forgets every handler, and allows every open session one answer *)
(* more.                                                                   *)
LEMMA CrashSafe ==
    ASSUME CaptchaTypeOK, CaptchaSafe, CaptchaCrash
    PROVE  CaptchaSafe'
<1>0. /\ SweepTask \in Tasks /\ crashes \in Nat /\ MaxAttempts \in Nat
      /\ \A i \in DOMAIN sess : sess[i].attempts \in Nat
      /\ AttemptBudget /\ CaptchaDecisionEarned
    BY CaptchaTypes DEF CaptchaSafe
<1>1. /\ crashes' = crashes + 1 /\ task' = [t \in Tasks |-> Idle] /\ answer' = [t \in Tasks |-> NoAnswer]
      /\ sending' = {} /\ UNCHANGED <<records, acks>>
    BY DEF CaptchaCrash, Crash
<1>2. \A t \in Tasks : task'[t].by # "captcha" /\ answer'[t].pc = "none"
    BY <1>1 DEF Idle, NoAnswer
<1>3. /\ DOMAIN sess' = DOMAIN sess
      /\ \A i \in DOMAIN sess :
           \/ sess'[i] = sess[i]
           \/ sess'[i] = [sess[i] EXCEPT !.solved = TRUE]
           \/ /\ ~sess[i].solved /\ ~Deciding(i) /\ ~CaptchaAcked(i)
              /\ \E c \in BOOLEAN : sess'[i] = [sess[i] EXCEPT !.attempts = @ + 1, !.passed = c]
  <2>1. CASE UNCHANGED sess
    BY <2>1
  <2>2. ASSUME NEW i \in sending, sess' = Closed({i})
        PROVE  /\ DOMAIN sess' = DOMAIN sess
               /\ \A j \in DOMAIN sess : \/ sess'[j] = sess[j]
                                         \/ sess'[j] = [sess[j] EXCEPT !.solved = TRUE]
    BY <2>2 DEF Closed
  <2>3. ASSUME NEW t \in Tasks, answer[t].pc = "wait", ~CaptchaBusy(answer[t].id),
               ~sess[answer[t].id].solved, sess' = Attempt(answer[t].id, answer[t].correct)
        PROVE  /\ DOMAIN sess' = DOMAIN sess
               /\ \A i \in DOMAIN sess :
                    \/ sess'[i] = sess[i]
                    \/ /\ ~sess[i].solved /\ ~Deciding(i) /\ ~CaptchaAcked(i)
                       /\ \E c \in BOOLEAN : sess'[i] = [sess[i] EXCEPT !.attempts = @ + 1, !.passed = c]
    <3>1. ~Deciding(answer[t].id) /\ answer[t].correct \in BOOLEAN
        BY <2>3 DEF CaptchaTypeOK, CaptchaBusy, Deciding
    <3>2. ~CaptchaAcked(answer[t].id)
        BY <2>3, <3>1 DEF CaptchaSafe, LateRepliesDropped
    <3>3. sess' = [sess EXCEPT ![answer[t].id] =
                     [sess[answer[t].id] EXCEPT !.attempts = @ + 1, !.passed = answer[t].correct]]
        BY <2>3 DEF Attempt
    <3> QED
        BY <2>3, <3>1, <3>2, <3>3
  <2> QED
    BY <2>1, <2>2, <2>3 DEF CaptchaCrash
<1>4. /\ DOMAIN sess' = DOMAIN sess
      /\ \A i \in DOMAIN sess :
           /\ sess[i].solved => sess'[i].solved
           /\ \/ sess'[i].attempts = sess[i].attempts /\ sess'[i].passed = sess[i].passed
              \/ ~sess[i].solved /\ ~Deciding(i) /\ ~CaptchaAcked(i) /\ sess'[i].attempts = sess[i].attempts + 1
  <2> SUFFICES ASSUME NEW i \in DOMAIN sess
               PROVE  /\ sess[i].solved => sess'[i].solved
                      /\ \/ sess'[i].attempts = sess[i].attempts /\ sess'[i].passed = sess[i].passed
                         \/ /\ ~sess[i].solved /\ ~Deciding(i) /\ ~CaptchaAcked(i)
                            /\ sess'[i].attempts = sess[i].attempts + 1
    BY <1>3
  <2>1. sess[i] \in Session
    BY CaptchaTypes
  <2>2. CASE sess'[i] = sess[i]
    BY <2>2
  <2>3. CASE sess'[i] = [sess[i] EXCEPT !.solved = TRUE]
    BY <2>1, <2>3 DEF Session
  <2>4. CASE /\ ~sess[i].solved /\ ~Deciding(i) /\ ~CaptchaAcked(i)
             /\ \E c \in BOOLEAN : sess'[i] = [sess[i] EXCEPT !.attempts = @ + 1, !.passed = c]
    BY <2>1, <2>4 DEF Session
  <2> QED
    BY <1>3, <2>2, <2>3, <2>4
<1>5. HandlersCoherent' /\ DecisionsFollowAnswers' /\ LateRepliesDropped'
    BY <1>0, <1>1, <1>2 DEF HandlersCoherent, DecisionsFollowAnswers, LateRepliesDropped
<1>6. \A i \in DOMAIN sess : ~sess[i].solved /\ ~Deciding(i) => sess[i].attempts < MaxAttempts + crashes
    BY DEF CaptchaSafe, AttemptsLeft
<1>7. AttemptBudget'
    BY <1>0, <1>1, <1>4, <1>6 DEF AttemptBudget
<1>8. AttemptsLeft'
  <2> SUFFICES ASSUME NEW i \in DOMAIN sess
               PROVE  sess'[i].attempts < MaxAttempts + crashes'
    BY <1>0, <1>1, <1>4 DEF AttemptsLeft
  <2> QED
    BY <1>0, <1>1, <1>4, <1>6 DEF AttemptBudget
<1>9. CaptchaDecisionEarned'
  <2> SUFFICES ASSUME NEW i \in DOMAIN sess, NEW n \in DOMAIN acks[records[i].flag],
                      acks[records[i].flag][n].by = "captcha",
                      acks[records[i].flag][n].decision = "approve"
               PROVE  sess'[i].passed
    BY <1>0, <1>1, <1>4 DEF CaptchaDecisionEarned
  <2>1. CaptchaAcked(i)
    BY DEF CaptchaAcked
  <2> QED
    BY <1>0, <1>4, <2>1 DEF CaptchaDecisionEarned
<1> QED
    BY <1>5, <1>7, <1>8, <1>9 DEF CaptchaSafe

(***************************************************************************)
(* The types of the captcha service's own state.                           *)
(***************************************************************************)
CaptchaTables ==
    /\ sess' \in [DOMAIN sess' -> Session] /\ DOMAIN sess' \subseteq Ids
    /\ toIssue' \subseteq Ids' /\ sending' \subseteq Ids
    /\ answer' \in [Tasks -> [pc : {"none", "wait", "decide"}, id : Ids \cup {0}, correct : BOOLEAN]]

LEMMA ClosedIsTyped ==
    ASSUME CaptchaTypeOK, NEW S
    PROVE  Closed(S) \in [DOMAIN sess -> Session]
<1>1. sess \in [DOMAIN sess -> Session]
    BY CaptchaTypes
<1>2. ASSUME NEW i \in DOMAIN sess PROVE [sess[i] EXCEPT !.solved = TRUE] \in Session
    BY <1>1 DEF Session
<1> QED
    BY <1>1, <1>2 DEF Closed

LEMMA DecideTyped ==
    ASSUME CaptchaTypeOK, NEW t \in Tasks, NEW i \in DOMAIN sess, NEW d, NEW s \in [DOMAIN sess -> Session],
           Decide(t, i, d, s), UNCHANGED <<toIssue, sending>>
    PROVE  CaptchaTables /\ UNCHANGED records
<1>0. i \in Ids /\ CaptchaTypeOK
    BY DEF CaptchaTypeOK
<1>1. UNCHANGED records
    BY DEF Decide, StartAfterCaptcha, approvalVars
<1>2. sess' \in [DOMAIN sess -> Session]
    <2>1. [s[i] EXCEPT !.solved = TRUE] \in Session
        BY DEF Session
    <2>2. [s EXCEPT ![i].solved = TRUE] = [s EXCEPT ![i] = [s[i] EXCEPT !.solved = TRUE]]
        OBVIOUS
    <2> QED
        BY <2>1, <2>2 DEF Decide
<1>3. answer' \in [Tasks -> [pc : {"none", "wait", "decide"}, id : Ids \cup {0}, correct : BOOLEAN]]
    <2>1. \E a \in [pc : {"none", "wait", "decide"}, id : Ids \cup {0}, correct : BOOLEAN] :
             answer' = [answer EXCEPT ![t] = a]
        BY <1>0 DEF Decide, NoAnswer
    <2> QED
        BY <1>0, <2>1 DEF CaptchaTypeOK
<1> QED
    BY <1>0, <1>1, <1>2, <1>3 DEF CaptchaTables, CaptchaTypeOK

LEMMA IssueTyped ==
    ASSUME CaptchaTypeOK, NEW i \in Ids, IssueChallenge(i)
    PROVE  CaptchaTables
<1>0. /\ sess \in [DOMAIN sess -> Session] /\ DOMAIN sess \subseteq Ids /\ now \in Nat
      /\ toIssue \subseteq Ids /\ sending \subseteq Ids
      /\ answer \in [Tasks -> [pc : {"none", "wait", "decide"}, id : Ids \cup {0}, correct : BOOLEAN]]
    BY DEF CaptchaTypeOK, TypeOK
<1>1. Ids' = Ids /\ answer' = answer /\ toIssue' \subseteq Ids /\ sending' \subseteq Ids
    BY <1>0 DEF IssueChallenge, approvalVars, WriteRows
<1>2. NewSession \in Session
    BY <1>0, CaptchaAssumption DEF NewSession, Session
<1>3. sess' \in [DOMAIN sess' -> Session] /\ DOMAIN sess' \subseteq Ids
    <2>1. CASE sess' = sess
        BY <1>0, <2>1
    <2>2. ASSUME NEW K, sess' = Reconciled(SessionUser(i), K)
          PROVE  sess' \in [DOMAIN sess' -> Session] /\ DOMAIN sess' \subseteq Ids
        BY <1>0, <2>2, ClosedIsTyped DEF Reconciled
    <2>3. ASSUME NEW K, sess' = [j \in DOMAIN sess \cup {i} |->
                                   IF j = i THEN NewSession ELSE Reconciled(SessionUser(i), K)[j]]
          PROVE  sess' \in [DOMAIN sess' -> Session] /\ DOMAIN sess' \subseteq Ids
        <3>1. Reconciled(SessionUser(i), K) \in [DOMAIN sess -> Session]
            BY ClosedIsTyped DEF Reconciled
        <3> QED
            BY <1>0, <1>2, <2>3, <3>1
    <2> QED
        BY <2>1, <2>2, <2>3 DEF IssueChallenge
<1> QED
    BY <1>0, <1>1, <1>3 DEF CaptchaTables

LEMMA HandleMessageTyped ==
    ASSUME CaptchaTypeOK, NEW t \in Tasks, NEW u \in Users, NEW target, NEW correct \in BOOLEAN,
           HandlePrivateMessage(t, u, target, correct)
    PROVE  CaptchaTables
<1>0. /\ DOMAIN sess \subseteq Ids /\ toIssue \subseteq Ids /\ sending \subseteq Ids
      /\ answer \in [Tasks -> [pc : {"none", "wait", "decide"}, id : Ids \cup {0}, correct : BOOLEAN]]
    BY DEF CaptchaTypeOK
<1>1. PICK K \in Kept(u) :
         /\ sess' = Reconciled(u, K) /\ WriteRows(Retired(u, K), Overdue(u))
         /\ \/ UNCHANGED answer
            \/ \E i \in Addressed(u, K, target) :
                  answer' = [answer EXCEPT ![t] = [pc |-> "wait", id |-> i, correct |-> correct]]
    BY DEF HandlePrivateMessage
<1>2. sess' \in [DOMAIN sess -> Session] /\ Ids' = Ids
    BY <1>1, ClosedIsTyped DEF Reconciled, WriteRows
<1>3. Addressed(u, K, target) \subseteq DOMAIN sess
    BY <1>1, ReconciliationWrites DEF Addressed
<1>4. answer' \in [Tasks -> [pc : {"none", "wait", "decide"}, id : Ids \cup {0}, correct : BOOLEAN]]
    BY <1>0, <1>1, <1>3
<1>5. UNCHANGED <<toIssue, sending>>
    BY DEF HandlePrivateMessage
<1> QED
    BY <1>0, <1>2, <1>4, <1>5 DEF CaptchaTables

LEMMA RowsRemain ==
    ASSUME IndInv, [Next]_approvalVars
    PROVE  Ids \subseteq Ids'
<1>1. records \in Seq(Record)
    BY DEF IndInv, TypeOK
<1>2. CASE \/ UNCHANGED records \/ \E i, s : SetStatus(i, s) \/ \E P, E : WriteRows(P, E)
          \/ ExpireOldPending
    BY <1>1, <1>2 DEF SetStatus, WriteRows, ExpireOldPending
<1>3. ASSUME NEW t \in Tasks, TaskNext(t) PROVE Ids \subseteq Ids'
    <2>1. \/ UNCHANGED records \/ \E i, s : SetStatus(i, s) \/ \E r : records' = Append(records, r)
        BY <1>3 DEF TaskNext, Route, DecideManually, DecideAfterCaptcha, Acknowledge, CallFails, _markActionFailure
    <2>2. CASE \E r : records' = Append(records, r)
        BY <1>1, <2>2
    <2> QED
        BY <1>2, <2>1, <2>2
<1>4. CASE Tick \/ QQNext \/ SweepStep \/ Crash \/ UNCHANGED approvalVars
    <2>1. UNCHANGED records
        BY <1>4 DEF Tick, QQNext, RequestArrives, HumanDecides, QQApplies, SweepStep, StartSweep, SweepFetches,
                    SweepFetchFails, SweepEnds, SweepNext, Crash, approvalVars, serviceVars
    <2> QED
        BY <2>1
<1>5. ASSUME NEW t \in Tasks,
             \/ ReturnAfterCaptcha(t)
             \/ \E f \in Flags : HandleJoinRequest(t, f)
             \/ \E i \in Ids, d \in Decisions : StartManual(t, i, d) \/ StartAfterCaptcha(t, i, d)
      PROVE  Ids \subseteq Ids'
    BY <1>5 DEF ReturnAfterCaptcha, HandleJoinRequest, StartManual, StartAfterCaptcha
<1>6. ASSUME NEW P \in SUBSET Ids, NEW E \in SUBSET Ids, CaptchaWrites(P, E) PROVE Ids \subseteq Ids'
    BY <1>2, <1>6 DEF CaptchaWrites
<1>7. CASE ExpireOldPending
    BY <1>2, <1>7
<1> HIDE DEF Ids
<1>8. CASE CoreNext
    BY <1>3, <1>4, <1>5, <1>7, <1>8 DEF CoreNext
<1>9. CASE CaptchaNext
    BY <1>5, <1>6, <1>9 DEF CaptchaNext
<1> QED
    BY <1>4, <1>8, <1>9 DEF Next

LEMMA StepTyped ==
    ASSUME CaptchaTypeOK, HandlersCoherent, Ids \subseteq Ids', [CaptchaAdmissionNext]_vars
    PROVE  CaptchaTables
<1>0. /\ CaptchaTypeOK /\ sess \in [DOMAIN sess -> Session] /\ DOMAIN sess \subseteq Ids
      /\ toIssue \subseteq Ids /\ sending \subseteq Ids /\ Ids \subseteq Ids'
      /\ answer \in [Tasks -> [pc : {"none", "wait", "decide"}, id : Ids \cup {0}, correct : BOOLEAN]]
      /\ NoAnswer \in [pc : {"none", "wait", "decide"}, id : Ids \cup {0}, correct : BOOLEAN]
    BY DEF CaptchaTypeOK, NoAnswer
<1>1. CASE (ApprovalStep /\ UNCHANGED captchaVars) \/ UNCHANGED vars
    BY <1>0, <1>1 DEF CaptchaTables, captchaVars, vars
<1>2. ASSUME NEW t \in Tasks, RouteAndEmit(t) PROVE CaptchaTables
    BY <1>0, <1>2 DEF RouteAndEmit, CaptchaTables
<1>3. ASSUME NEW i \in Ids, IssueChallenge(i) PROVE CaptchaTables
    BY <1>3, IssueTyped
<1>4. ASSUME NEW i \in Ids, ChallengeDelivered(i) \/ DeliveryFails(i) PROVE CaptchaTables
    <2>1. sess' \in [DOMAIN sess -> Session]
        BY <1>0, <1>4, ClosedIsTyped DEF ChallengeDelivered, DeliveryFails
    <2> QED
        BY <1>0, <1>4, <2>1 DEF ChallengeDelivered, DeliveryFails, CaptchaTables
<1>5. ASSUME NEW t \in Tasks, NEW u \in Users, NEW target, NEW correct \in BOOLEAN,
             HandlePrivateMessage(t, u, target, correct)
      PROVE  CaptchaTables
    BY <1>5, HandleMessageTyped
<1>6. ASSUME NEW t \in Tasks, ProcessAnswer(t) PROVE CaptchaTables
    <2> DEFINE i == answer[t].id
               c == answer[t].correct
    <2>1. i \in DOMAIN sess /\ c \in BOOLEAN
        BY <1>0, <1>6 DEF ProcessAnswer, HandlersCoherent
    <2>2. Attempt(i, c) \in [DOMAIN sess -> Session]
        BY <2>1, AttemptIsTyped
    <2>3. UNCHANGED <<toIssue, sending>>
        BY <1>6 DEF ProcessAnswer
    <2>4. CASE \E d, s \in {"approve", "reject", sess, Attempt(i, c)} :
                 s \in {sess, Attempt(i, c)} /\ Decide(t, i, d, s)
        BY <1>0, <2>1, <2>2, <2>3, <2>4, DecideTyped
    <2>5. CASE sess' \in {sess, Attempt(i, c)} /\ answer' = [answer EXCEPT ![t] = NoAnswer]
        BY <1>0, <2>2, <2>3, <2>5 DEF CaptchaTables
    <2> QED
        BY <1>6, <2>4, <2>5 DEF ProcessAnswer, Drop
<1>7. ASSUME NEW t \in Tasks, NEW i \in DOMAIN sess, ExpireSession(t, i) PROVE CaptchaTables
    BY <1>0, <1>7, DecideTyped DEF ExpireSession
<1>8. ASSUME NEW t \in Tasks, AfterDecision(t) PROVE CaptchaTables
    <2>1. sess' \in [DOMAIN sess -> Session]
        BY <1>0, <1>8, ClosedIsTyped DEF AfterDecision
    <2> QED
        BY <1>0, <1>8, <2>1 DEF AfterDecision, CaptchaTables
<1>9. CASE CaptchaCrash
    <2>1. ASSUME NEW t \in Tasks, answer[t].pc = "wait" PROVE Attempt(answer[t].id, answer[t].correct) \in [DOMAIN sess -> Session]
        BY <1>0, <2>1, AttemptIsTyped DEF HandlersCoherent
    <2>2. sess' \in [DOMAIN sess -> Session]
        BY <1>0, <1>9, <2>1, ClosedIsTyped DEF CaptchaCrash
    <2> QED
        BY <1>0, <1>9, <2>2 DEF CaptchaCrash, CaptchaTables
<1> QED
    BY <1>1, <1>2, <1>3, <1>4, <1>5, <1>6, <1>7, <1>8, <1>9 DEF CaptchaAdmissionNext, CaptchaAction

(***************************************************************************)
(* Open sessions from before the upgrade are fresh ones.                   *)
(***************************************************************************)
LEMMA LegacyRowsAreSound ==
    ASSUME CaptchaInit
    PROVE  IndInv /\ DOMAIN sess = Ids /\ \A i \in Ids : sess[i] \in Session /\ sess[i].attempts = 0
                                                        /\ ~sess[i].solved /\ ~sess[i].passed
<1>1. PICK n \in 0..Len(LegacyRows) :
         /\ records = [i \in 1..n |-> [flag |-> LegacyRows[i], status |-> "captcha",
                                        expires |-> Ttl, penalised |-> FALSE]]
         /\ sess \in [1..n -> {[attempts |-> 0, expires |-> e, solved |-> FALSE, passed |-> FALSE] :
                                 e \in 1..CaptchaTtl}]
         /\ counted = [f \in Flags |-> IF f \in {LegacyRows[i] : i \in 1..n} THEN 1 ELSE 0]
         /\ qq = [f \in Flags |-> IF f \in {LegacyRows[i] : i \in 1..n} THEN "open" ELSE "absent"]
    BY DEF CaptchaInit
<1>2. n \in Nat /\ 1..n \subseteq DOMAIN LegacyRows /\ \A i \in 1..n : LegacyRows[i] \in Flags
    BY CaptchaAssumption
<1>3. /\ records \in Seq(Record) /\ Ids = 1..n
      /\ \A i \in Ids : records[i].status = "captcha" /\ ~records[i].penalised
      /\ \A i \in Ids : records[i].flag = LegacyRows[i]
    <2>1. \A i \in 1..n : [flag |-> LegacyRows[i], status |-> "captcha", expires |-> Ttl, penalised |-> FALSE] \in Record
        BY <1>2, ApprovalAssumption DEF Record, Statuses
    <2>2. records \in [1..n -> Record]
        BY <1>1, <2>1
    <2>3. Ids = 1..n /\ records \in Seq(Record)
        BY <1>2, <2>2
    <2>4. \A i \in 1..n : records[i] = [flag |-> LegacyRows[i], status |-> "captcha",
                                        expires |-> Ttl, penalised |-> FALSE]
        BY <1>1
    <2> QED
        BY <2>3, <2>4
<1>4. Idle \in Task /\ Idle.pc = "idle"
    BY DEF Idle, Task, TaskStates, Actors, Decisions
<1>5. TypeOK
    BY <1>1, <1>3, <1>4 DEF CaptchaInit, TypeOK, NotSweeping
<1>6. RoutedOnce
    <2>1. \A i, j \in Ids : records[i].flag = records[j].flag => i = j
        BY <1>2, <1>3, CaptchaAssumption
    <2>2. \A f \in Flags : HasRecord(f) <=> f \in {LegacyRows[i] : i \in 1..n}
        BY <1>3 DEF HasRecord
    <2>3. \A f \in Flags : counted[f] = IF HasRecord(f) THEN 1 ELSE 0
        BY <1>1, <2>2
    <2>4. crashes = 0
        BY DEF CaptchaInit
    <2> QED
        BY <2>1, <2>3, <2>4 DEF RoutedOnce
<1>7. \A f \in Flags : acks[f] = <<>>
    BY DEF CaptchaInit
<1>8. \A t \in Tasks : task[t].pc = "idle"
    BY <1>4 DEF CaptchaInit
<1>9. IndInv
    BY <1>3, <1>5, <1>6, <1>7, <1>8
    DEF IndInv, AckedDecisionStands, FinalOnlyIfAcked, PenalisedNeverAutoAdmitted, CallsAreExclusive,
        TasksNameRows, CaptchaRowsAreClean, AcksHaveRows
<1>10. \A i \in 1..n : \E e \in Nat :
          sess[i] = [attempts |-> 0, expires |-> e, solved |-> FALSE, passed |-> FALSE]
    <2>1. \A i \in 1..n : sess[i] \in {[attempts |-> 0, expires |-> e, solved |-> FALSE, passed |-> FALSE] :
                                          e \in 1..CaptchaTtl}
        BY <1>1
    <2>2. \A e \in 1..CaptchaTtl : e \in Nat
        BY CaptchaAssumption
    <2> QED
        BY <2>1, <2>2
<1>11. \A i \in 1..n : sess[i] \in Session /\ sess[i].attempts = 0 /\ ~sess[i].solved /\ ~sess[i].passed
    <2> SUFFICES ASSUME NEW i \in 1..n
                 PROVE  sess[i] \in Session /\ sess[i].attempts = 0 /\ ~sess[i].solved /\ ~sess[i].passed
        OBVIOUS
    <2>1. PICK e \in Nat : sess[i] = [attempts |-> 0, expires |-> e, solved |-> FALSE, passed |-> FALSE]
        BY <1>10
    <2> QED
        BY <2>1 DEF Session
<1> QED
    BY <1>1, <1>3, <1>9, <1>11

LEMMA CaptchaInitially == CaptchaInit => CaptchaIndInv
<1> SUFFICES ASSUME CaptchaInit PROVE CaptchaIndInv
    OBVIOUS
<1>1. /\ IndInv /\ TypeOK /\ DOMAIN sess = Ids /\ crashes = 0 /\ MaxAttempts \in Nat \ {0} /\ SweepTask \in Tasks
      /\ \A i \in Ids : sess[i] \in Session /\ sess[i].attempts = 0 /\ ~sess[i].solved /\ ~sess[i].passed
      /\ \A i \in Ids : acks[records[i].flag] = <<>>
    <2>1. IndInv => \A i \in Ids : records[i].flag \in Flags
        <3>1. ASSUME records \in Seq(Record), NEW i \in Ids PROVE records[i] \in Record
            BY <3>1
        <3> QED
            BY <3>1 DEF IndInv, TypeOK, Record
    <2> QED
        BY <2>1, LegacyRowsAreSound, CaptchaAssumption, ApprovalAssumption DEF CaptchaInit, IndInv
<1>2. \A t \in Tasks : answer[t] = NoAnswer /\ task[t].by = "policy"
    BY DEF CaptchaInit, Idle
<1>3. sess = [i \in DOMAIN sess |-> sess[i]]
    BY DEF CaptchaInit
<1>4. CaptchaTypeOK
    BY <1>1, <1>3 DEF CaptchaInit, CaptchaTypeOK, NoAnswer
<1>5. HandlersCoherent /\ DecisionsFollowAnswers /\ LateRepliesDropped
    BY <1>1, <1>2 DEF CaptchaInit, HandlersCoherent, DecisionsFollowAnswers, LateRepliesDropped, NoAnswer
<1>6. AttemptBudget /\ AttemptsLeft /\ CaptchaDecisionEarned
    BY <1>1 DEF AttemptBudget, AttemptsLeft, CaptchaDecisionEarned
<1> QED
    BY <1>1, <1>4, <1>5, <1>6 DEF CaptchaIndInv

LEMMA CaptchaInductive == CaptchaIndInv /\ [CaptchaAdmissionNext]_vars => CaptchaIndInv'
<1> SUFFICES ASSUME CaptchaIndInv, [CaptchaAdmissionNext]_vars PROVE CaptchaIndInv'
    OBVIOUS
<1>0. CaptchaTypeOK /\ IndInv /\ CaptchaSafe /\ HandlersCoherent
    BY DEF CaptchaIndInv, CaptchaSafe
<1>1. [Next]_approvalVars
    BY <1>0, StepRefines
<1>2. IndInv' /\ Ids \subseteq Ids'
    BY <1>0, <1>1, NextInd, RowsRemain
<1>3. CaptchaTypeOK'
    <2>1. CaptchaTables /\ TypeOK'
        BY <1>0, <1>2, StepTyped DEF IndInv
    <2> QED
        BY <1>2, <2>1 DEF CaptchaTables, CaptchaTypeOK
<1>4. ASSUME ApprovalStep /\ UNCHANGED captchaVars PROVE CaptchaSafe'
    <2>1. UNCHANGED <<sess, sending, answer>>
        BY <1>4 DEF captchaVars
    <2>2. CASE Tick \/ ExpireOldPending \/ \E f \in Flags : RequestArrives(f) \/ \E d \in Decisions : QQApplies(f, d)
        BY <1>0, <2>1, <2>2, ElsewhereSafe
    <2>3. ASSUME NEW t \in Tasks, Acknowledge(t) PROVE CaptchaSafe'
        BY <1>0, <2>1, <2>3, AcknowledgeSafe
    <2>4. ASSUME NEW t \in Tasks,
                 \/ DecideManually(t) \/ DecideAfterCaptcha(t) \/ CallFails(t)
                 \/ answer[t].pc = "none" /\ \E f \in Flags : HandleJoinRequest(t, f)
                 \/ answer[t].pc = "none" /\ \E i \in Ids, d \in Decisions : StartManual(t, i, d)
          PROVE  CaptchaSafe'
        BY <1>0, <2>1, <2>4, AdmissionStepSafe
    <2> QED
        BY <1>4, <2>2, <2>3, <2>4 DEF ApprovalStep
<1>5. ASSUME NEW t \in Tasks, RouteAndEmit(t) PROVE CaptchaSafe'
    BY <1>0, <1>5, AdmissionStepSafe DEF RouteAndEmit
<1>6. ASSUME CaptchaAction PROVE CaptchaSafe'
    <2>1. ASSUME NEW i \in Ids, IssueChallenge(i) \/ ChallengeDelivered(i) \/ DeliveryFails(i) PROVE CaptchaSafe'
        BY <1>0, <2>1, IssueSafe, DeliverySafe
    <2>2. ASSUME NEW t \in Tasks,
                 \/ \E u \in Users, target \in Ids \cup {Plain}, correct \in BOOLEAN :
                      HandlePrivateMessage(t, u, target, correct)
                 \/ ProcessAnswer(t) \/ \E i \in DOMAIN sess : ExpireSession(t, i)
                 \/ AfterDecision(t)
          PROVE  CaptchaSafe'
        BY <1>0, <2>2, HandleMessageSafe, ProcessSafe, ExpireSafe, AfterDecisionSafe
    <2> QED
        BY <1>6, <2>1, <2>2 DEF CaptchaAction
<1>7. ASSUME CaptchaCrash PROVE CaptchaSafe'
    BY <1>0, <1>7, CrashSafe
<1>8. ASSUME UNCHANGED vars PROVE CaptchaSafe'
    <2>1. FlagsKept /\ UNCHANGED <<sess, sending, answer, crashes, acks>> /\ \A t \in Tasks : KeepsRole(t)
        BY <1>8 DEF vars, approvalVars, captchaVars, FlagsKept, KeepsRole
    <2> QED
        BY <1>0, <2>1, TaskStepSafe
<1>9. CaptchaSafe'
    BY <1>4, <1>5, <1>6, <1>7, <1>8 DEF CaptchaAdmissionNext
<1> QED
    BY <1>2, <1>3, <1>9 DEF CaptchaIndInv, CaptchaSafe

(***************************************************************************)
(* The inductive invariant of the composed system, the type invariants of  *)
(* both services and the admission service's own invariant included.       *)
(***************************************************************************)
THEOREM CaptchaIndInvHolds == CaptchaSpec => []CaptchaIndInv
BY CaptchaInitially, CaptchaInductive, PTL DEF CaptchaSpec

(***************************************************************************)
(* The CAPTCHA gate implements the unconstrained captcha of Approval:      *)
(* whatever its handlers, sweeps and crashes do, every step is one the     *)
(* admission service allows or leaves it alone.                            *)
(***************************************************************************)
THEOREM CaptchaRefinesApproval == CaptchaSpec => RefinesApproval
<1>1. CaptchaIndInv /\ [CaptchaAdmissionNext]_vars => [Next]_approvalVars
    BY StepRefines DEF CaptchaIndInv
<1> QED
    BY <1>1, CaptchaIndInvHolds, PTL DEF CaptchaSpec, RefinesApproval

(***************************************************************************)
(* An admission the CAPTCHA gets acknowledged was earned by a correct      *)
(* answer, and a rejection is not of one who gave it, but for a crash.     *)
(***************************************************************************)
THEOREM CaptchaDecisionEarnedHolds == CaptchaSpec => []CaptchaDecisionEarned
<1>1. CaptchaIndInv => CaptchaDecisionEarned
    BY DEF CaptchaIndInv
<1> QED
    BY <1>1, CaptchaIndInvHolds, PTL

(***************************************************************************)
(* No interleaving of replies buys an attempt; each crash buys one.        *)
(***************************************************************************)
THEOREM AttemptBudgetHolds == CaptchaSpec => []AttemptBudget
<1>1. CaptchaIndInv => AttemptBudget
    BY DEF CaptchaIndInv
<1> QED
    BY <1>1, CaptchaIndInvHolds, PTL
=============================================================================
