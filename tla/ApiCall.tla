------------------------------ MODULE ApiCall -------------------------------
(* What a caller of the OpsRamp API is promised: its request is executed at *)
(* most once, success means that it was, a refused credential that it was   *)
(* not, and any other error leaves both possible.                           *)
CONSTANT Callers
VARIABLES
    stage,      \* "idle", "open", or the outcome: "ok", "rejected", "error"
    executed    \* whether OpsRamp executed the caller's request

callVars == <<stage, executed>>
Stages == {"idle", "open", "ok", "rejected", "error"}

Init ==
    /\ stage = [c \in Callers |-> "idle"]
    /\ executed = [c \in Callers |-> FALSE]

Begin(c) ==
    /\ stage[c] # "open"
    /\ stage' = [stage EXCEPT ![c] = "open"]
    /\ executed' = [executed EXCEPT ![c] = FALSE]

(* Executing it a second time is not a step of this specification.          *)
Execute(c, outcome) ==
    /\ stage[c] = "open"
    /\ ~executed[c]
    /\ outcome \in {"open", "ok", "error"}
    /\ executed' = [executed EXCEPT ![c] = TRUE]
    /\ stage' = [stage EXCEPT ![c] = outcome]

End(c, outcome) ==
    /\ stage[c] = "open"
    /\ outcome \in {"ok", "rejected", "error"}
    /\ outcome = "ok" => executed[c]
    /\ outcome = "rejected" => ~executed[c]
    /\ stage' = [stage EXCEPT ![c] = outcome]
    /\ UNCHANGED executed

(* The caller has taken the outcome.                                        *)
Leave(c) ==
    /\ stage[c] # "open"
    /\ stage' = [stage EXCEPT ![c] = "idle"]
    /\ executed' = [executed EXCEPT ![c] = FALSE]

Next == \E c \in Callers :
    \/ Begin(c) \/ Leave(c)
    \/ \E o \in Stages : Execute(c, o) \/ End(c, o)

Spec == Init /\ [][Next]_callVars
=============================================================================
