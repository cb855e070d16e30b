-------------------------------- MODULE NvsStore -------------------------------
(***************************************************************************)
(* The flash image of the saved registers and the calls of nvs_write that  *)
(* change it (user_mem_update_reg16, one 16-bit item per register).        *)
(*                                                                         *)
(* nvs_write compares the caller's datum with the newest committed entry   *)
(* BEFORE it takes nvs_lock and returns at once when they are equal.       *)
(* Otherwise it takes the lock, copies the datum, and waits twice for a    *)
(* radio time slot: for the data and for the allocation table entry that   *)
(* makes them visible.  The threads are cooperative, so those waits, and   *)
(* the wait for the lock, are the only places where another thread runs;   *)
(* nothing observes the state between the two flash writes, which are one  *)
(* wait here.                                                              *)
(*                                                                         *)
(* All three callers write in a loop over ascending register numbers, so   *)
(* the module offers the loop: from a set of registers still to visit, the *)
(* thread runs to the first one whose datum differs from the image.        *)
(***************************************************************************)
EXTENDS RegisterTable

CONSTANTS
    NotFound,       \* no entry with this id in the image
    Unread,         \* the datum of a call that still waits for nvs_lock
    FlashMayFail    \* TRUE: a time slot may be refused and the write given up

\* mh_task_Modbus, com_task and main
Thread == {"MB", "COM", "MAIN"}

ASSUME SentinelAssumption ==
    NotFound \notin Value /\ Unread \notin Value /\ NotFound # Unread
ASSUME FlashMayFailAssumption == FlashMayFail \in BOOLEAN

VARIABLES
    ram,        \* MBbuf_main
    stored,     \* the newest committed entry of each register
    nvs_lock,   \* the thread that owns fs.nvs_lock, or "none"
    job,        \* per thread, the nvs_write it is inside, or NoJob
    missed      \* history: registers whose last write was skipped by a comparison
                \* with an entry that a write under way was about to replace

nvsVars == <<stored, nvs_lock, job, missed>>

NoJob == [reg |-> RegLast, val |-> NotFound]
Jobs == [reg : EESaved, val : Value \cup {Unread}]

NvsTypeOK ==
    /\ ram \in [Reg -> Value]
    /\ stored \in [EESaved -> Value \cup {NotFound}]
    /\ nvs_lock \in Thread \cup {"none"}
    /\ job \in [Thread -> Jobs \cup {NoJob}]
    /\ missed \subseteq EESaved

NvsInit ==
    /\ stored \in [EESaved -> Value \cup {NotFound}]
    /\ nvs_lock = "none"
    /\ job = [t \in Thread |-> NoJob]
    /\ missed = {}

--------------------------------------------------------------------------------
\* The loop of nvs_write calls

First(S) == CHOOSE r \in S : \A q \in S : r =< q

\* The registers of S for which nvs_write does not return early, given the data
\* in mem and the committed image img.
Dirty(S, mem, img) == {r \in S : img[r] # mem[r]}

\* The registers of S that the loop has passed, or entered, when it waits.
Reached(S, mem, img) ==
    IF Dirty(S, mem, img) = {}
    THEN S
    ELSE {r \in S : r =< First(Dirty(S, mem, img))}

\* RAM once the loop waits or ends, when it assigns mem[r] before saving r.
Assigned(S, mem, img) ==
    [r \in Reg |-> IF r \in Reached(S, mem, img) THEN mem[r] ELSE ram[r]]

\* A write of another thread that holds a datum for r and is not yet committed.
UnderWay(t, r, d) ==
    \E u \in Thread \ {t} : job[u].reg = r /\ job[u].val \notin {Unread, NotFound, d}

\* Thread t runs its loop over S, with nvs_lock as the previous call left it.
Loop(t, S, mem, img, lock) ==
    LET D == Dirty(S, mem, img)
    IN  /\ job' = [job EXCEPT ![t] =
                     IF D = {} THEN NoJob
                     ELSE [reg |-> First(D),
                           val |-> IF lock = "none" THEN mem[First(D)] ELSE Unread]]
        /\ nvs_lock' = IF D # {} /\ lock = "none" THEN t ELSE lock
        /\ missed' = (missed \ Reached(S, mem, img)) \cup
              {r \in Reached(S, mem, img) \ D : UnderWay(t, r, mem[r])}

--------------------------------------------------------------------------------
\* Waiting for the lock and for the flash

\* Mutant: the mutex becomes free but its waiters are not woken.
Bug_NoHandOver(t) == "none"

\* k_mutex_unlock hands the mutex to a waiting thread, if there is one.
Released(t) ==
    LET waiting == {u \in Thread \ {t} : job[u] # NoJob}
    IN  IF waiting = {} THEN "none" ELSE CHOOSE u \in waiting : TRUE

\* k_mutex_lock returns: the datum is read through the caller's pointer now.
Nvs_Locked(t) ==
    /\ nvs_lock = t
    /\ job[t].val = Unread
    /\ job' = [job EXCEPT ![t].val = ram[job[t].reg]]
    /\ UNCHANGED <<ram, stored, nvs_lock, missed>>

Writing(t) == nvs_lock = t /\ job[t].val \in Value

Commit(t) == [stored EXCEPT ![job[t].reg] = job[t].val]

\* The images in which the write of t can end; no caller looks at the result.
Outcome(t) == {Commit(t)} \cup (IF FlashMayFail THEN {stored} ELSE {})

\* A reset cuts the write under way before or after its entry is complete;
\* main is entered with every thread and the lock as new.
Nvs_Reset ==
    /\ stored' \in {stored} \cup {Commit(t) : t \in {u \in Thread : Writing(u)}}
    /\ nvs_lock' = "none"
    /\ job' = [t \in Thread |-> NoJob]
    /\ missed' = {}
================================================================================
