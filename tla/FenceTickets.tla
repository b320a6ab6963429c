---------------------------- MODULE FenceTickets ----------------------------
(***************************************************************************)
(* What the run calls of a command promise about completion fences: every  *)
(* accepted run is a ticket; a ticket put aside by an asynchronous run is  *)
(* claimed by at most one wait; a claimed ticket is retired (its fence     *)
(* closed) unless the process dies; a ticket handed to the caller is the   *)
(* caller's to retire.                                                     *)
(***************************************************************************)
CONSTANT Ticket

VARIABLES waiting,      \* accepted asynchronous runs nobody waits for yet
          claimed,      \* runs some call is waiting for
          given,        \* runs whose fence the caller holds
          retired,      \* runs whose fence is closed
          up            \* the process and the command still exist

vars == <<waiting, claimed, given, retired, up>>

Fresh(j) == j \notin waiting \cup claimed \cup given \cup retired

AcceptAsync(j) == up /\ Fresh(j) /\ waiting' = waiting \cup {j}
                     /\ UNCHANGED <<claimed, given, retired, up>>

AcceptSync(j) == up /\ Fresh(j) /\ claimed' = claimed \cup {j}
                    /\ UNCHANGED <<waiting, given, retired, up>>

AcceptFence(j) == up /\ Fresh(j) /\ given' = given \cup {j}
                     /\ UNCHANGED <<waiting, claimed, retired, up>>

Claim(j) == /\ up /\ j \in waiting
            /\ waiting' = waiting \ {j}
            /\ claimed' = claimed \cup {j}
            /\ UNCHANGED <<given, retired, up>>

Retire(j) == /\ j \in claimed \cup given
             /\ j \in claimed => up
             /\ claimed' = claimed \ {j}
             /\ given' = given \ {j}
             /\ retired' = retired \cup {j}
             /\ UNCHANGED <<waiting, up>>

Stop == up /\ up' = FALSE /\ UNCHANGED <<waiting, claimed, given, retired>>

Init == /\ waiting = {} /\ claimed = {} /\ given = {} /\ retired = {}
        /\ up = TRUE

Next == \/ Stop
        \/ \E j \in Ticket : \/ AcceptAsync(j) \/ AcceptSync(j) \/ AcceptFence(j)
                             \/ Claim(j) \/ Retire(j)

Fairness == \A j \in Ticket : WF_vars(j \in claimed /\ Retire(j))

Spec == Init /\ [][Next]_vars /\ Fairness
=============================================================================
