----------------------------- MODULE SlaveTransaction --------------------------
(***************************************************************************)
(* What the slave promises its master, without the port, the queue, the    *)
(* flash and the threads.  The slave takes one request at a time and owes  *)
(* at most three things: to execute the request, to reply, and to save.    *)
(* It takes the next request only when it owes nothing.                    *)
(***************************************************************************)
EXTENDS RegisterTable

CONSTANT Reg_Send_Command

VARIABLES
    up,     \* the registers are loaded and the slave may take requests
    owes,   \* the subset of Duties that is still to be done
    bank    \* the register values

Duties == {"request", "reply", "save"}

TransactionTypeOK ==
    /\ up \in BOOLEAN
    /\ owes \subseteq Duties
    /\ bank \in [Reg -> Value]

Init == up = FALSE /\ owes = {} /\ bank = [r \in Reg |-> 0]

Changed == {r \in Reg : bank'[r] # bank[r]}

\* At boot registers are loaded, each with an allowed value; the slave comes up
\* when all of them hold one.
Load ==
    /\ ~up
    /\ Changed \subseteq EESaved
    /\ \A r \in Changed : Limit_Check(r, bank'[r])
    /\ up' => \A r \in EESaved : Limit_Check(r, bank'[r])
    /\ owes' = owes

Accept == up /\ owes = {} /\ owes' = {"request"} /\ UNCHANGED <<up, bank>>

Discard == owes = {"request"} /\ owes' = {} /\ UNCHANGED <<up, bank>>

\* A request takes effect at once.  It changes only registers it may, to values
\* inside their limits, and a change of a saved register has to be saved.
Execute ==
    /\ owes = {"request"}
    /\ owes' \subseteq {"reply", "save"}
    /\ \A r \in Changed : Limit_Check_in_Request(r, bank'[r]) = MBE_NONE
    /\ Changed \cap EESaved # {} => "save" \in owes'
    /\ up' = up

Replied == "reply" \in owes /\ owes' = owes \ {"reply"} /\ UNCHANGED <<up, bank>>
Saved == "save" \in owes /\ owes' = owes \ {"save"} /\ UNCHANGED <<up, bank>>

\* A command from inside the device: defaults come back, the command goes.
Command ==
    /\ up
    /\ \A r \in Changed :
          \/ r \in EESaved /\ bank'[r] = Default[r]
          \/ r = Reg_Send_Command /\ bank'[r] = 0
    /\ UNCHANGED <<up, owes>>

Restart == up' = FALSE /\ owes' = {} /\ bank' = [r \in Reg |-> 0]

Next ==
    Load \/ Accept \/ Discard \/ Execute \/ Replied \/ Saved \/ Command \/ Restart

Spec == Init /\ [][Next]_<<up, owes, bank>>

\* A loaded saved register is inside its limits.
BankLawful == up => \A r \in EESaved : Limit_Check(r, bank[r])
================================================================================
