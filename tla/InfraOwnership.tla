--------------------------- MODULE InfraOwnership ---------------------------
(***************************************************************************)
(* What the job system promises about cloud infrastructure, with no        *)
(* workers, threads or claims in sight: an app's stack is touched only     *)
(* under an open attempt on that app or under the teardown of its          *)
(* environment, the two exclude each other, and nobody forgets an app      *)
(* whose stack still exists.                                               *)
(***************************************************************************)
CONSTANTS Apps, Envs, EnvOf

VARIABLES
  busy,     \* apps with an open attempt
  closing,  \* environments queued for teardown or being torn down
  stack,    \* stack[a]: the app's stack exists
  gone      \* apps that were forgotten (their row is deleted)

ownVars == <<busy, closing, stack, gone>>

Init == busy = {} /\ closing = {} /\ stack = [a \in Apps |-> FALSE] /\ gone = {}

\* An attempt opens unless the environment is closing or another one is open.
Open(a) ==
  /\ a \notin busy \cup gone
  /\ EnvOf[a] \notin closing
  /\ busy' = busy \cup {a}
  /\ UNCHANGED <<closing, stack, gone>>

\* Attempts conclude.
Close ==
  /\ busy' \in SUBSET busy
  /\ UNCHANGED <<closing, stack, gone>>

\* A teardown begins when no app of the environment is busy.
BeginTeardown(e) ==
  /\ \A a \in busy : EnvOf[a] # e
  /\ closing' = closing \cup {e}
  /\ UNCHANGED <<busy, stack, gone>>

EndTeardown ==
  /\ closing' \in SUBSET closing
  /\ UNCHANGED <<busy, stack, gone>>

\* The owner creates or deletes the stack.
Work(a) ==
  /\ a \in busy \/ EnvOf[a] \in closing
  /\ stack' \in [Apps -> BOOLEAN]
  /\ \A b \in Apps \ {a} : stack'[b] = stack[b]
  /\ UNCHANGED <<busy, closing, gone>>

\* The owner forgets apps, none of which has a stack; its ownership ends.
Forget ==
  /\ gone \subseteq gone' /\ gone' \subseteq Apps
  /\ \A a \in gone' \ gone : ~stack[a] /\ (a \in busy \/ EnvOf[a] \in closing)
  /\ busy' = busy \ gone'
  /\ closing' \in SUBSET closing
  /\ UNCHANGED stack

Next ==
  \/ \E a \in Apps : Open(a) \/ Work(a)
  \/ \E e \in Envs : BeginTeardown(e)
  \/ Close \/ EndTeardown \/ Forget

Spec == Init /\ [][Next]_ownVars
=============================================================================
