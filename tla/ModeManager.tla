----------------------------- MODULE ModeManager -----------------------------
(***************************************************************************)
(* The autonomy mode of every agent (shared/agent/autonomy_mode.py) and    *)
(* the calendar: what the wallet, the execution gate and the negotiation   *)
(* engine share.                                                           *)
(***************************************************************************)
EXTENDS Integers

CONSTANTS
    Agents,
    MaxDay,         \* bound on the days that pass
    MonthLength     \* days of a month

ASSUME CalendarAssumption == MaxDay \in Nat /\ MonthLength \in Nat \ {0}

VARIABLES
    mode,           \* AutonomyModeManager._agent_modes
    today           \* date.today()

ModeVars == <<mode, today>>

ModeInit ==
    /\ mode = [a \in Agents |-> "governed"]
    /\ today = 0

MonthOf(day) == day \div MonthLength

\* Only a caller on an allowlist, or with a role on one, unbounds an agent.
SwitchMode(a, m, allowed) ==
    /\ m = "unbounded" => mode[a] = m \/ allowed
    /\ mode' = [mode EXCEPT ![a] = m]
    /\ UNCHANGED today

NextDay ==
    /\ today < MaxDay
    /\ today' = today + 1
    /\ UNCHANGED mode

ModeNext ==
    \/ \E a \in Agents, m \in {"governed", "unbounded"}, allowed \in BOOLEAN : SwitchMode(a, m, allowed)
    \/ NextDay
=============================================================================
