----------------------------- MODULE MCModeration -----------------------------
(***************************************************************************)
(* Small instances of what Guardian does to people without asking them:    *)
(* deciding join requests (Approval), penalties and their escalation       *)
(* (Punishment) and enforcing intelligence feeds (Intel).  A behaviour is  *)
(* of one of them, chosen at its start; the others stand still.            *)
(***************************************************************************)
EXTENDS Approval, Punishment, Intel

CONSTANTS f1, sync, t1, t2, u1, u2, d1, d2, h1, h2

VARIABLE scene

moderationVars == <<approvalVars, penaltyVars, intelVars, scene>>

PolicyOf(on, mode, urls, pins) ==
    [enabled |-> on, mode |-> mode, urls |-> urls,
     pins |-> [u \in Urls |-> IF u \in DOMAIN pins THEN pins[u] ELSE None]]

Off == PolicyOf(FALSE, "observe", {}, <<>>)

(* No feed; one without a pin; one pinned; the same with another pin,      *)
(* beside a second one.                                                    *)
MCPolicies ==
    {Off,
     PolicyOf(TRUE, "observe", {u1}, <<>>),
     PolicyOf(TRUE, "enforce", {u1}, [u \in {u1} |-> d1]),
     PolicyOf(TRUE, "enforce", {u1, u2}, [u \in {u1, u2} |-> d2])}

(* Any operation on a member, beside one that records or revokes a kick.   *)
PenaltiesScene ==
    work'[h2] = AtRest \/ work'[h2].op \in {"kick", "joinBlacklisted", "joinReapply", "revoke"}

ModerationInit ==
    /\ scene \in {"approval", "penalties", "intel"}
    /\ Init /\ PunishInit /\ IntelInit
    /\ scene # "intel" => policy = Off

ModerationNext ==
    \/ scene = "approval" /\ Next /\ UNCHANGED <<penaltyVars, intelVars, scene>>
    \/ scene = "penalties" /\ PunishNext /\ PenaltiesScene
       /\ UNCHANGED <<approvalVars, intelVars, scene>>
    \/ scene = "intel" /\ IntelNext /\ UNCHANGED <<approvalVars, penaltyVars, scene>>

ModerationSpec ==
    /\ ModerationInit /\ [][ModerationNext]_moderationVars
    /\ WF_intelVars(scene = "intel" /\ IntelProgress)
=============================================================================
