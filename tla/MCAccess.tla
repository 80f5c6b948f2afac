------------------------------ MODULE MCAccess ------------------------------
(* The two gates that a request passes, for TLC.  They share no state, so a *)
(* behaviour is about one of them and the other stands still.               *)
EXTENDS Access, SignedIn

VARIABLES tokenCache, gate

Door == INSTANCE Session

doorVars == <<session, live, held, calls, unheard, tokenCache>>
allVars == <<vars, doorVars, gate>>

MCInit == Init /\ Door!Init /\ gate \in {"token", "access"}

MCNext ==
    \/ gate = "token" /\ Door!Next /\ UNCHANGED <<vars, gate>>
    \/ gate = "access" /\ Next /\ UNCHANGED <<doorVars, gate>>

\* In the gate that stands still nothing has begun and nothing is cached, so that
\* its fairness asks for nothing.
MCSpec == MCInit /\ [][MCNext]_allVars /\ Fairness /\ Door!Fairness

\* Each of the three caches in front of a request comes to agree with what it
\* caches: a removed member, a narrowed role and a dead or replaced token are
\* refused in the end.
CachesSettle == AccessSettles /\ PermissionsSettle /\ Door!TokenSettles
=============================================================================
