------------------------------- MODULE MCGates -------------------------------
(***************************************************************************)
(* The components that keep short-lived state in Redis, side by side.      *)
(* Their keys and rows are disjoint, so a step of one neither enables nor  *)
(* changes a step of another: a property of one component holds in the     *)
(* product exactly when it holds of that component running while the       *)
(* others rest, and every behaviour here runs one of them.                 *)
(***************************************************************************)
EXTENDS Otp, RateLimit, Guards, FxRates

VARIABLE active    \* the component this behaviour runs

gateVars == <<otpVars, limitVars, guardVars, fxVars, active>>

GateInit ==
    /\ active \in {"otp", "limit", "guards", "fx"}
    /\ OtpInit /\ LimitInit /\ FxInit
    /\ GuardsInit /\ (active # "guards" => paid /\ enabled /\ granted)

GuardsTurn(step) == active = "guards" /\ step /\ UNCHANGED <<otpVars, limitVars, fxVars, active>>

GateNext ==
    \/ active = "otp" /\ OtpNext /\ UNCHANGED <<limitVars, guardVars, fxVars, active>>
    \/ active = "limit" /\ LimitNext /\ UNCHANGED <<otpVars, guardVars, fxVars, active>>
    \/ GuardsTurn(GuardsNext)
    \/ active = "fx" /\ FxNext /\ UNCHANGED <<otpVars, limitVars, guardVars, active>>

\* GuardsFairness, while they run; none of the other properties needs a step to be taken.
GateFairness ==
    /\ \A s \in Sessions : WF_gateVars(GuardsTurn(CacheSet(s)))
    /\ WF_gateVars(GuardsTurn(CacheExpires))

GateSpec == GateInit /\ [][GateNext]_gateVars /\ GateFairness
=============================================================================
