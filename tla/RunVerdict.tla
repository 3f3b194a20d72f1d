------------------------------ MODULE RunVerdict ------------------------------
(***************************************************************************)
(* What verification promises about a run, whoever computes it and however *)
(* often they die: it is opened once, decided once, announced with the     *)
(* verdict it was given and no other, and put to rest only after that.     *)
(***************************************************************************)
CONSTANT Runs

VARIABLES
  verdict,    \* per run: ABSENT, PENDING or one of the three final results
  announced,  \* the announcements made, as <<run, verdict>>
  closed      \* runs nobody will look at again

vars == <<verdict, announced, closed>>

Final == {"VERIFIED", "FAILED", "UNVERIFIED"}

Init ==
  /\ verdict = [r \in Runs |-> "ABSENT"]
  /\ announced = {}
  /\ closed = {}

Open(r) ==
  /\ verdict[r] = "ABSENT"
  /\ verdict' = [verdict EXCEPT ![r] = "PENDING"]
  /\ UNCHANGED <<announced, closed>>

Decide(r) ==
  /\ verdict[r] = "PENDING"
  /\ \E v \in Final : verdict' = [verdict EXCEPT ![r] = v]
  /\ UNCHANGED <<announced, closed>>

Announce(r) ==
  /\ verdict[r] \in Final
  /\ announced' = announced \cup {<<r, verdict[r]>>}
  /\ UNCHANGED <<verdict, closed>>

Close(r) ==
  /\ r \notin closed
  /\ verdict[r] \in Final /\ <<r, verdict[r]>> \in announced
  /\ closed' = closed \cup {r}
  /\ UNCHANGED <<verdict, announced>>

Next == \E r \in Runs : Open(r) \/ Decide(r) \/ Announce(r) \/ Close(r)

Spec == Init /\ [][Next]_vars
=============================================================================
