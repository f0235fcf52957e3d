----------------------------- MODULE CheckRound -----------------------------
(***************************************************************************)
(* What ConnectBlock relies on when it hands script checks to a            *)
(* CCheckQueueControl (checkqueue.h): a round is opened, checks are added  *)
(* to it, and control.Wait() returns the conjunction of their verdicts.    *)
(* Threads, batches, locks and condition variables are not visible here.   *)
(***************************************************************************)
CONSTANT Checks

VARIABLES
    phase,      \* "idle", "adding" or "waiting"
    added,      \* the checks handed to the round
    verdict,    \* what each check returns when it is executed
    result      \* "none" while the round is open, then "ok" or "bad";
                \* "dropped" when the caller did not look at the answer

roundVars == <<phase, added, verdict, result>>

AllTrue(S) == \A c \in S : verdict[c]

Init ==
    /\ phase = "idle"
    /\ added = {}
    /\ verdict \in [Checks -> BOOLEAN]
    /\ result = "none"

\* A block starts to be connected: nothing is left over from an earlier one.
Open ==
    /\ phase = "idle"
    /\ phase' = "adding"
    /\ added' = {}
    /\ verdict' \in [Checks -> BOOLEAN]
    /\ result' = "none"

Add(S) ==
    /\ phase = "adding"
    /\ S \subseteq Checks \ added
    /\ added' = added \union S
    /\ UNCHANGED <<phase, verdict, result>>

\* control.Wait(), or the destructor of a control that was never waited for.
StartWait ==
    /\ phase = "adding"
    /\ phase' = "waiting"
    /\ UNCHANGED <<added, verdict, result>>

Answer ==
    /\ phase = "waiting"
    /\ phase' = "idle"
    /\ result' \in {IF AllTrue(added) THEN "ok" ELSE "bad", "dropped"}
    /\ UNCHANGED <<added, verdict>>

Next == Open \/ (\E S \in SUBSET Checks : Add(S)) \/ StartWait \/ Answer

Spec == Init /\ [][Next]_roundVars /\ WF_roundVars(Answer)
=============================================================================
