--------------------------- MODULE SessionContract ---------------------------
(***************************************************************************)
(* What refresh tokens promise of a login: it begins once, is renewed any  *)
(* number of times while it lasts, ends with time or together with all     *)
(* logins of its user, and once ended stays so.                            *)
(***************************************************************************)
EXTENDS Naturals

CONSTANTS Sessions, Users

VARIABLE session

Unused == [state |-> "unused", user |-> 0, renewals |-> 0]
Ended  == [state |-> "ended", user |-> 0, renewals |-> 0]

LiveOf(u) == {t \in Sessions : session[t].state = "live" /\ session[t].user = u}

Init == session = [t \in Sessions |-> Unused]

Open(t, u) ==
    /\ session[t] = Unused
    /\ session' = [session EXCEPT ![t] = [state |-> "live", user |-> u, renewals |-> 0]]

Renew(t) ==
    /\ session[t].state = "live"
    /\ session' = [session EXCEPT ![t].renewals = @ + 1]

Lapse(t) ==
    /\ session[t].state = "live"
    /\ session' = [session EXCEPT ![t] = Ended]

SignOut(u) == session' = [t \in Sessions |-> IF t \in LiveOf(u) THEN Ended ELSE session[t]]

Next ==
    \/ \E t \in Sessions : Renew(t) \/ Lapse(t) \/ \E u \in Users : Open(t, u)
    \/ \E u \in Users : SignOut(u)

Spec == Init /\ [][Next]_session
=============================================================================
