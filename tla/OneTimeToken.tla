---------------------------- MODULE OneTimeToken ----------------------------
(***************************************************************************)
(* What the refresh journal promises about refresh tokens that the issuer  *)
(* consumes: a token is spent by one attempt at a time, becomes usable     *)
(* again only if the issuer did not consume it, and otherwise ends retired *)
(* or doubtful for good. Whatever cannot be settled stays "spending".      *)
(***************************************************************************)
CONSTANTS Tokens, Attempts, NoAttempt

VARIABLES status, spender, consumed
vars == <<status, spender, consumed>>

Become(t, s, a) == /\ status' = [status EXCEPT ![t] = s]
                   /\ spender' = [spender EXCEPT ![t] = a]
                   /\ UNCHANGED consumed

Init == /\ status = [t \in Tokens |-> "usable"]
        /\ spender = [t \in Tokens |-> NoAttempt]
        /\ consumed = {}

Spend(t, a) == status[t] = "usable" /\ Become(t, "spending", a)

\* The issuer consumes a token that is being spent, and no other.
Consume(t) == /\ status[t] = "spending" /\ t \notin consumed
              /\ consumed' = consumed \cup {t}
              /\ UNCHANGED <<status, spender>>

GiveBack(t) == status[t] = "spending" /\ t \notin consumed /\ Become(t, "usable", NoAttempt)
Retire(t) == status[t] = "spending" /\ t \in consumed /\ Become(t, "retired", NoAttempt)
Doubt(t) == status[t] = "spending" /\ Become(t, "doubtful", spender[t])

Next == \E t \in Tokens : \/ \E a \in Attempts : Spend(t, a)
                          \/ Consume(t) \/ GiveBack(t) \/ Retire(t) \/ Doubt(t)

Spec == Init /\ [][Next]_vars
=============================================================================
