------------------------------ MODULE Exchange ------------------------------
(***************************************************************************)
(* What a transport promises its callers (transport.hpp, send): a call is  *)
(* executed on the device at most once, and returns once, with its own     *)
(* answer or with an error.  An error says nothing about the device: the   *)
(* call may have been executed, or may still be.                           *)
(***************************************************************************)
EXTENDS Naturals

CONSTANTS Callers, Errors, None

VARIABLES
  asked,     \* the callers that have called send
  executed,  \* [Callers -> how often the device carried the request out]
  answer     \* [Callers -> what send returned: the caller whose request this
             \*  answers, an error, or None]

vars == <<asked, executed, answer>>

Init ==
  /\ asked = {}
  /\ executed = [c \in Callers |-> 0]
  /\ answer = [c \in Callers |-> None]

\* A transport that is not running refuses at once.
Ask(c) ==
  /\ c \notin asked
  /\ asked' = asked \cup {c}
  /\ \E a \in Errors \cup {None} : answer' = [answer EXCEPT ![c] = a]
  /\ UNCHANGED executed

Execute(c) ==
  /\ c \in asked /\ executed[c] = 0
  /\ executed' = [executed EXCEPT ![c] = 1]
  /\ UNCHANGED <<asked, answer>>

Return(c) ==
  /\ c \in asked /\ answer[c] = None
  /\ \E a \in Errors \cup (IF executed[c] = 1 THEN {c} ELSE {}) :
       answer' = [answer EXCEPT ![c] = a]
  /\ UNCHANGED <<asked, executed>>

Next == \E c \in Callers : Ask(c) \/ Execute(c) \/ Return(c)

Spec == Init /\ [][Next]_vars
=============================================================================
