---------------------------- MODULE CheckSession ----------------------------
(***************************************************************************)
(* What a checking session promises to the thread that opened it           *)
(* (src/src/checkqueue.h): checks are added, each is executed at most      *)
(* once, and Wait returns true only when every check passed, false only    *)
(* when one failed, and an empty result only when the session was          *)
(* cancelled.  Nothing of a session is executed after Wait has returned.   *)
(***************************************************************************)
EXTENDS Integers, FiniteSets

CONSTANTS MaxSession, MaxCheck

VARIABLES
  session,   \* the number of sessions opened so far
  open,      \* a session is open: Wait has not returned
  canceled,  \* a source of the session's token is cancelled
  added,     \* how many checks were added in the session
  passed,    \* how many were executed and evaluated to true
  bad,       \* how many were executed and evaluated to false
  result     \* what the last Wait returned: "true", "false" or "none"

svars == <<session, open, canceled, added, passed, bad, result>>

SessionInit ==
  /\ session = 0
  /\ open = FALSE /\ canceled = FALSE
  /\ added = 0 /\ passed = 0 /\ bad = 0
  /\ result = "none"

OpenSession ==
  /\ ~open /\ session < MaxSession
  /\ session' = session + 1
  /\ open' = TRUE /\ canceled' = FALSE
  /\ added' = 0 /\ passed' = 0 /\ bad' = 0
  /\ result' = "none"

AddChecks ==
  /\ open
  /\ added' \in added .. MaxCheck
  /\ UNCHANGED <<session, open, canceled, passed, bad, result>>

Execute ==
  /\ open /\ passed + bad < added
  /\ \/ passed' = passed + 1 /\ UNCHANGED bad
     \/ bad' = bad + 1 /\ UNCHANGED passed
  /\ UNCHANGED <<session, open, canceled, added, result>>

CancelSession ==
  /\ open
  /\ canceled' = TRUE
  /\ UNCHANGED <<session, open, added, passed, bad, result>>

CloseSession ==
  /\ open
  /\ open' = FALSE
  /\ \/ result' = "true" /\ passed = added
     \/ result' = "false" /\ bad > 0
     \/ result' = "none" /\ canceled
  /\ UNCHANGED <<session, canceled, added, passed, bad>>

SessionNext == OpenSession \/ AddChecks \/ Execute \/ CancelSession \/ CloseSession

SessionSpec == SessionInit /\ [][SessionNext]_svars
=============================================================================
