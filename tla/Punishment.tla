------------------------------ MODULE Punishment ------------------------------
(***************************************************************************)
(* Penalties of one member in one group: src/modules/punishment/index.ts,  *)
(* the moderation commands and API endpoints that call it, and the join    *)
(* pipeline that re-applies penalties to a member who left and came back.  *)
(*                                                                         *)
(* The punishment lock is held across the OneBot calls of one operation.   *)
(* The pardon commands write the tables without it.                        *)
(***************************************************************************)
EXTENDS Naturals, Sequences, FiniteSets

CONSTANTS
    PunishTasks,    \* operations in flight at once
    MuteTtl,        \* duration of a mute
    KickAfter,      \* punishment.escalateToKickAfter
    BlackAfter,     \* punishment.escalateToBlacklistAfter
    MaxPunishTime,  \* bound on the clock
    MaxRecords,     \* bound on the table when an operation starts
    MaxDeaths       \* bound on process deaths

ASSUME PunishmentAssumption ==
    /\ IsFiniteSet(PunishTasks)
    /\ {MuteTtl, KickAfter, BlackAfter} \subseteq Nat \ {0}
    /\ {MaxPunishTime, MaxRecords, MaxDeaths} \subseteq Nat

VARIABLES
    time,
    punishments,  \* table punishment_records
    black,        \* the member has a blacklist row for the group
    work,
    qqMute,       \* external: until when QQ mutes the member
    forgiven,     \* history: pardons since the last new penalty was asked for
    excused,      \* history: a threshold that is reached may go unnoticed until the next penalty
    deaths        \* history: how often the process died

lapses == <<excused, deaths>>
penaltyVars == <<time, punishments, black, work, qqMute, forgiven, lapses>>

Ops == {"mute", "kick", "ban", "unmute", "revoke", "joinBlacklisted", "joinReapply"}
Calls == {"none", "mute", "kick", "autoKick", "unmute", "remute"}

PunishmentRow == [type : {"mute", "kick"}, expires : Nat, revoked : BOOLEAN]
PunishTask == [pc : {"idle", "lock", "call"}, op : Ops, call : Calls, id : Nat]

AtRest == [pc |-> "idle", op |-> "mute", call |-> "none", id |-> 0]
NoPardon == [mute |-> FALSE, kick |-> FALSE]

PenaltyTypeOK ==
    /\ time \in Nat /\ qqMute \in Nat /\ black \in BOOLEAN
    /\ punishments \in Seq(PunishmentRow)
    /\ work \in [PunishTasks -> PunishTask]
    /\ forgiven \in [mute : BOOLEAN, kick : BOOLEAN]
    /\ excused \in BOOLEAN /\ deaths \in Nat

PunishInit ==
    /\ time = 0
    /\ punishments = <<>>
    /\ black = FALSE
    /\ work = [t \in PunishTasks |-> AtRest]
    /\ qqMute = 0
    /\ forgiven = NoPardon
    /\ excused = FALSE /\ deaths = 0

-----------------------------------------------------------------------------
(* Reading the table; a kick has no expiry. *)
ActiveKicks(rs) == {i \in DOMAIN rs : rs[i].type = "kick" /\ ~rs[i].revoked}

ActiveMutes(rs) == {i \in DOMAIN rs : rs[i].type = "mute" /\ ~rs[i].revoked /\ rs[i].expires > time}

ActivePenalties(rs) == ActiveKicks(rs) \cup ActiveMutes(rs)

Revoked(S) == [i \in DOMAIN punishments |-> IF i \in S THEN [punishments[i] EXCEPT !.revoked = TRUE] ELSE punishments[i]]

Free == \A t \in PunishTasks : work[t].pc # "call"

Idles(t) == work[t].pc = "idle"

Queue(t, op, i) == work' = [work EXCEPT ![t] = [AtRest EXCEPT !.pc = "lock", !.op = op, !.id = i]]

Awaits(t, c) == work' = [work EXCEPT ![t].pc = "call", ![t].call = c]

EndWork(t) == work' = [work EXCEPT ![t] = AtRest]

-----------------------------------------------------------------------------
(* mute, kick and ban, asked for by a command, the API or the risk score. *)
Punish(t, op) ==
    /\ Idles(t) /\ Len(punishments) < MaxRecords
    /\ Queue(t, op, 0)
    /\ forgiven' = NoPardon
    /\ UNCHANGED <<time, punishments, black, qqMute, lapses>>

(* POST /punishments/:id/revoke *)
Revoke(t, i) ==
    /\ Idles(t)
    /\ Queue(t, "revoke", i)
    /\ UNCHANGED <<time, punishments, black, qqMute, forgiven, lapses>>

(* `unmute': the records are revoked at once, the unmute call queues. *)
UnmuteCommand(t) ==
    /\ Idles(t)
    /\ punishments' = Revoked(ActiveMutes(punishments))
    /\ Queue(t, "unmute", 0)
    /\ forgiven' = [forgiven EXCEPT !.mute = TRUE]
    /\ UNCHANGED <<time, black, qqMute, lapses>>

(* `unban' touches the tables only, and not under the lock. *)
UnbanCommand ==
    /\ black' = FALSE
    /\ punishments' = Revoked(ActiveKicks(punishments))
    /\ forgiven' = [forgiven EXCEPT !.kick = TRUE]
    /\ UNCHANGED <<time, work, qqMute, lapses>>

(* POST and DELETE /blacklist; the latter leaves the kick records. *)
EditBlacklist ==
    /\ black' = ~black
    /\ forgiven' = IF black' THEN NoPardon ELSE forgiven
    /\ excused' = ~black'
    /\ UNCHANGED <<time, punishments, work, qqMute, deaths>>

(***************************************************************************)
(* The member comes back, which has wiped QQ's own mute.  The blacklist    *)
(* stage reads the blacklist before its kick queues for the lock; a member *)
(* who is not listed goes on to the punishment stage.                      *)
(***************************************************************************)
MemberJoins(t) ==
    /\ Idles(t) /\ Len(punishments) < MaxRecords
    /\ \A u \in PunishTasks : work[u].op \notin {"joinBlacklisted", "joinReapply"}
    /\ qqMute' = 0
    /\ Queue(t, IF black THEN "joinBlacklisted" ELSE "joinReapply", 0)
    /\ UNCHANGED <<time, punishments, black, forgiven, lapses>>

-----------------------------------------------------------------------------

Begin(t) ==
    /\ work[t].pc = "lock" /\ Free
    /\ \/ work[t].op = "mute" /\ Awaits(t, "mute")
       \/ work[t].op \in {"kick", "ban", "joinBlacklisted"} /\ Awaits(t, "kick")
       \/ work[t].op = "unmute" /\ Awaits(t, "unmute")
    /\ UNCHANGED <<time, punishments, black, qqMute, forgiven, lapses>>

(***************************************************************************)
(* checkAndReapplyOnJoin, re-reading the table inside the lock: a kick     *)
(* record re-kicks, otherwise the newest mute is applied for its rest.     *)
(***************************************************************************)
BeginReapply(t) ==
    /\ work[t].pc = "lock" /\ work[t].op = "joinReapply" /\ Free
    /\ \/ ActiveKicks(punishments) # {} /\ Awaits(t, "kick")
       \/ /\ ActiveKicks(punishments) = {} /\ ActiveMutes(punishments) # {}
          /\ \E i \in ActiveMutes(punishments) :
               /\ \A j \in ActiveMutes(punishments) : j <= i
               /\ work' = [work EXCEPT ![t].pc = "call", ![t].call = "remute", ![t].id = i]
       \/ ActivePenalties(punishments) = {} /\ EndWork(t)
    /\ UNCHANGED <<time, punishments, black, qqMute, forgiven, lapses>>

LastMute(i) == ActiveMutes(punishments) = {i}

(* revoke: the unmute call comes first when no other mute is active. *)
BeginRevoke(t) ==
    /\ work[t].pc = "lock" /\ work[t].op = "revoke" /\ Free
    /\ LET i == work[t].id IN
       \/ punishments[i].revoked /\ EndWork(t) /\ UNCHANGED punishments
       \/ ~punishments[i].revoked /\ LastMute(i) /\ Awaits(t, "unmute") /\ UNCHANGED punishments
       \/ ~punishments[i].revoked /\ ~LastMute(i) /\ EndWork(t) /\ punishments' = Revoked({i})
    /\ UNCHANGED <<time, black, qqMute, forgiven, lapses>>

-----------------------------------------------------------------------------
(* QQ acknowledges the call. *)
Answered(t, c) == work[t].pc = "call" /\ work[t].call = c

With(type) ==
    Append(punishments, [type |-> type, revoked |-> FALSE,
                     expires |-> IF type = "mute" THEN time + MuteTtl ELSE 0])

TooManyKicks(rs) == Cardinality(ActiveKicks(rs)) >= BlackAfter

(***************************************************************************)
(* _maybeBlacklistLocked once rs is the table.  It is best effort: an      *)
(* error in it is logged, and the penalty stands.                          *)
(***************************************************************************)
BlacklistChecked(rs) ==
    \/ black' = (black \/ TooManyKicks(rs)) /\ excused' = FALSE
    \/ black' = black /\ excused' = TRUE

NotChecked == UNCHANGED <<black, excused>>

(***************************************************************************)
(* mute: _checkEscalationLocked blacklists, or kicks a member who has no   *)
(* active kick, still holding the lock; either of its checks may fail.     *)
(***************************************************************************)
KickIsDue(rs) == Cardinality(ActivePenalties(rs)) >= KickAfter /\ ActiveKicks(rs) = {}

Muted(t) ==
    /\ Answered(t, "mute")
    /\ qqMute' = time + MuteTtl
    /\ punishments' = With("mute")
    /\ BlacklistChecked(punishments')
    /\ \/ KickIsDue(punishments') /\ Awaits(t, "autoKick")
       \/ EndWork(t)
    /\ UNCHANGED <<time, forgiven, deaths>>

(***************************************************************************)
(* _kickLocked records the kick; each of its callers checks the blacklist  *)
(* threshold itself: kick, ban (which adds the row in any case), the       *)
(* re-kick of checkAndReapplyOnJoin, and the automatic kick.  The kick     *)
(* threshold is past with an active kick.                                  *)
(***************************************************************************)
KickRecorded(t) ==
    /\ punishments' = With("kick")
    /\ EndWork(t)
    /\ UNCHANGED <<time, qqMute, forgiven, deaths>>

Kicked(t) ==
    /\ Answered(t, "kick") /\ work[t].op \in {"kick", "joinBlacklisted"}
    /\ KickRecorded(t)
    /\ BlacklistChecked(punishments')

Banned(t) ==
    /\ Answered(t, "kick") /\ work[t].op = "ban"
    /\ KickRecorded(t)
    /\ black' = TRUE /\ excused' = FALSE

KickedAgainUnchecked(t) ==
    /\ Answered(t, "kick") /\ work[t].op = "joinReapply"
    /\ KickRecorded(t)
    /\ NotChecked

KickedAgain(t) ==
    /\ Answered(t, "kick") /\ work[t].op = "joinReapply"
    /\ KickRecorded(t)
    /\ BlacklistChecked(punishments')

AutoKicked(t) ==
    /\ Answered(t, "autoKick")
    /\ KickRecorded(t)
    /\ BlacklistChecked(punishments')

Unmuted(t) ==
    /\ Answered(t, "unmute")
    /\ qqMute' = 0
    /\ punishments' = IF work[t].op = "revoke" THEN Revoked({work[t].id}) ELSE punishments
    /\ EndWork(t)
    /\ UNCHANGED <<time, black, forgiven, lapses>>

Remuted(t) ==
    /\ Answered(t, "remute")
    /\ qqMute' = punishments[work[t].id].expires
    /\ EndWork(t)
    /\ UNCHANGED <<time, punishments, black, forgiven, lapses>>

(* What the call in flight does to the member, if QQ gets it. *)
QQActs(t) ==
    /\ work[t].pc = "call"
    /\ \/ work[t].call = "mute" /\ qqMute' = time + MuteTtl
       \/ work[t].call = "unmute" /\ qqMute' = 0
       \/ work[t].call = "remute" /\ qqMute' = punishments[work[t].id].expires

(* An error or a timeout; QQ may have acted all the same. *)
PunishCallFails(t) ==
    /\ work[t].pc = "call"
    /\ UNCHANGED qqMute \/ QQActs(t)
    /\ EndWork(t)
    /\ UNCHANGED <<time, punishments, black, forgiven, lapses>>

(***************************************************************************)
(* The process dies: between two actions, with a call in flight or not, or *)
(* within one, after the first of its writes.  A penalty is recorded       *)
(* before the thresholds are checked; a pardon revokes the records one by  *)
(* one, the newest first, and unban has cleared the blacklist row by then. *)
(***************************************************************************)
RecordedOnly(t) ==
    \/ /\ Answered(t, "mute")
       /\ qqMute' = time + MuteTtl
       /\ punishments' = With("mute")
    \/ /\ Answered(t, "kick") \/ Answered(t, "autoKick")
       /\ punishments' = With("kick")
       /\ UNCHANGED qqMute

Newest(S, n) == {i \in S : i > n}

Dies ==
    /\ deaths < MaxDeaths
    /\ deaths' = deaths + 1
    /\ work' = [t \in PunishTasks |-> AtRest]
    /\ \/ /\ UNCHANGED qqMute \/ \E t \in PunishTasks : QQActs(t)
          /\ UNCHANGED <<punishments, black, excused>>
       \/ /\ \E t \in PunishTasks : RecordedOnly(t)
          /\ excused' = TRUE /\ UNCHANGED black
       \/ /\ \E n \in DOMAIN punishments : punishments' = Revoked(Newest(ActiveMutes(punishments), n))
          /\ UNCHANGED <<black, excused, qqMute>>
       \/ /\ \E n \in DOMAIN punishments : punishments' = Revoked(Newest(ActiveKicks(punishments), n))
          /\ black' = FALSE /\ excused' = TRUE
          /\ UNCHANGED qqMute
    /\ UNCHANGED <<time, forgiven>>

TimePasses == time < MaxPunishTime /\ time' = time + 1 /\ UNCHANGED <<punishments, black, work, qqMute, forgiven, lapses>>

PunishNext ==
    \/ TimePasses \/ UnbanCommand \/ EditBlacklist \/ Dies
    \/ \E t \in PunishTasks :
         \/ \E op \in {"mute", "kick", "ban"} : Punish(t, op)
         \/ \E i \in DOMAIN punishments : Revoke(t, i)
         \/ UnmuteCommand(t) \/ MemberJoins(t)
         \/ Begin(t) \/ BeginReapply(t) \/ BeginRevoke(t)
         \/ Muted(t) \/ Kicked(t) \/ Banned(t) \/ KickedAgain(t) \/ AutoKicked(t)
         \/ Unmuted(t) \/ Remuted(t) \/ PunishCallFails(t)

PunishSpec == PunishInit /\ [][PunishNext]_penaltyVars

-----------------------------------------------------------------------------
(***************************************************************************)
(* Escalation to the blacklist misses no path: a member whose active kicks *)
(* reach the threshold is blacklisted, whichever operations recorded them  *)
(* (a command, the risk score, re-kicks, automatic kicks) and however they *)
(* overlapped with pardons, unless an operator has taken the member off    *)
(* the list, or the process died or failed between the record and its      *)
(* check, and no penalty has been recorded and checked since.              *)
(***************************************************************************)
ThresholdBlacklists == TooManyKicks(punishments) => black \/ excused

(***************************************************************************)
(* "A pardon must also revoke unrevoked kick records - otherwise the       *)
(* anti-evasion check re-kicks the pardoned user on their next join", and  *)
(* likewise for mutes: a join does not re-apply what a pardon lifted       *)
(* unless a new penalty was asked for after the pardon.                    *)
(***************************************************************************)
PardonSticks ==
    [][\A t \in PunishTasks : work[t].op = "joinReapply" /\ work[t].pc = "lock" /\ work'[t].pc = "call" =>
         /\ work'[t].call = "kick" => ~forgiven.kick
         /\ work'[t].call = "remute" => ~forgiven.mute]_penaltyVars

-----------------------------------------------------------------------------
(* Strengthening: what a re-applied mute remembers is a row of the table. *)
PenaltyInd ==
    /\ PenaltyTypeOK
    /\ ThresholdBlacklists
    /\ \A t \in PunishTasks : work[t].call = "remute" => work[t].id \in DOMAIN punishments
=============================================================================
