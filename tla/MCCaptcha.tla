------------------------------ MODULE MCCaptcha ------------------------------
(***************************************************************************)
(* A small instance of Captcha with two scenes.  "lone": one request, two  *)
(* concurrent handlers and a crash.  "shared": one applicant with two      *)
(* requests and up to two sessions of an older version, one handler, one   *)
(* reply to each session.                                                  *)
(***************************************************************************)
EXTENDS Captcha

CONSTANTS f1, f2, sync, t1, t2, u1

VARIABLE scene

TwoRequests == [f \in {f1, f2} |-> u1]
Legacy == <<f2, f1>>

MCInit ==
    /\ CaptchaInit
    /\ scene \in {"lone", "shared"}
    /\ scene = "lone" => records = <<>>

InScene ==
    /\ scene = "lone" => qq'[f2] = "absent"
    /\ scene = "shared" =>
         /\ task'[t2] = Idle /\ answer'[t2] = NoAnswer
         /\ answer'[t1].pc = "wait" => sess'[answer'[t1].id].attempts = 0
         /\ crashes' = 0

MCNext == CaptchaAdmissionNext /\ InScene /\ UNCHANGED scene

MCSpec == MCInit /\ [][MCNext]_<<vars, scene>> /\ CaptchaFairness
=============================================================================
