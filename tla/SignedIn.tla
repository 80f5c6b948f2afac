------------------------------ MODULE SignedIn ------------------------------
(***************************************************************************)
(* One user's login as the SSO, the browser and the requests of the        *)
(* browser see it.  Session says how the token middleware checks it.       *)
(*                                                                         *)
(* For single-device accounts the SSO may revoke the token it is shown and *)
(* mint the next one; tokens are numbered in that order.                   *)
(***************************************************************************)
EXTENDS Naturals

CONSTANTS
    Calls,          \* requests of the browser that may be in flight together
    MaxReissues     \* bound on tokens minted after the first

ASSUME ReissuesAssumption == MaxReissues \in Nat

VARIABLES
    session,    \* what the SSO says of the login, whichever its token is
    live,       \* the token that the SSO takes
    held,       \* the token that the browser sends
    calls,      \* requests in flight, or answered
    unheard     \* history: an answer that handed over a new token was lost

Tokens == 0..MaxReissues

Answered(reply) == [at |-> "done", reply |-> reply]

-----------------------------------------------------------------------------
\* The comments of ValidateTokenForAccount: only the SSO's verdict that the token
\* is dead is a 401, since the frontend logs the user out on it, and a reissued
\* token is handed over so that the next request is none.  So while the login
\* lives, whatever the SSO answers or fails to, a 401 goes to a request whose token
\* was replaced, and the browser has got or is about to get the new one, unless
\* the answer with it was lost.
OutageNeverLogsOut ==
    [][\A c \in Calls :
          (calls[c] # Answered("401") /\ calls'[c] = Answered("401")) =>
            \/ session = "dead"
            \/ /\ calls[c].token # live
               /\ \/ held = live
                  \/ unheard
                  \/ \E d \in Calls : calls[d].at = "valid" /\ calls[d].carries = live
      ]_<<session, live, held, calls, unheard>>
=============================================================================
