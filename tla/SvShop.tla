------------------------------- MODULE SvShop -------------------------------
(***************************************************************************)
(* The shop over one System V semaphore set (cw07/zad/sv_sem.c).  Entering *)
(* is ONE semop on the mutex, the credits a worker takes and the credits   *)
(* it gives; leaving is one more.  Every operation carries SEM_UNDO: the   *)
(* kernel keeps, per process, the sum of what it did with its sign changed *)
(* (semadj) and adds it back when the process ends, whatever the reason.   *)
(***************************************************************************)
EXTENDS ShopMemory

CONSTANTS
    SEMAEM,     \* the kernel's limit of a semadj value (32767 in Linux)
    MaxKills    \* bound: how many workers may be killed in a behaviour

ASSUME SvAssumption == SEMAEM \in Nat /\ SEMAEM >= MAX_ORDERS /\ MaxKills \in Nat

VARIABLES
    semval,   \* the four values: 0 free slots, 1 mutex, 2 x, 3 m
    semadj,   \* per worker and semaphore, what its end will add
    dead,     \* workers that ended
    kills     \* how many of them were killed

svVars == <<semval, semadj, dead, kills>>
vars == <<first, m, x, table, got, pc, semval, semadj, dead, kills>>

Labels == {"get_sem", "m", "n", "x", "return_sem"}
Sems == 0 .. 3

\* Mutant: one credit more than the table has slots.
create_sem_extra_slot ==
    /\ semval = [s \in Sems |-> IF s = 0 THEN MAX_ORDERS + 1 ELSE IF s = 1 THEN 1 ELSE 0]
    /\ semadj = [w \in Workers |-> [s \in Sems |-> 0]]

create_sem ==
    /\ semval = [s \in Sems |-> IF s = 0 THEN MAX_ORDERS ELSE IF s = 1 THEN 1 ELSE 0]
    /\ semadj = [w \in Workers |-> [s \in Sems |-> 0]]

Init ==
    /\ create_shm
    /\ create_sem
    /\ got = [w \in Workers |-> Empty]
    /\ pc = [w \in Workers |-> "get_sem"]
    /\ dead = {}
    /\ kills = 0

-----------------------------------------------------------------------------
(* The kernel: semop on a sequence of operations, and the end of a process *)

Blocks(op) == semval[op.sem] + op.by < 0
OutOfRange(w, op) ==
    LET adj == semadj[w][op.sem] - op.by IN adj < -SEMAEM - 1 \/ adj > SEMAEM

Passes(w, op) == ~Blocks(op) /\ ~OutOfRange(w, op)

\* What a whole sequence does to semaphore s; the code names each one once.
Total(ops, s) ==
    IF \E i \in DOMAIN ops : ops[i].sem = s
    THEN (CHOOSE op \in {ops[i] : i \in DOMAIN ops} : op.sem = s).by
    ELSE 0

semop(w, ops) ==
    /\ \A i \in DOMAIN ops : Passes(w, ops[i])
    /\ semval' = [s \in Sems |-> semval[s] + Total(ops, s)]
    /\ semadj' = [semadj EXCEPT ![w] = [s \in Sems |-> @[s] - Total(ops, s)]]

\* ERANGE: reported when the operations before it would all have passed.
semop_fails(w, ops) ==
    \E i \in DOMAIN ops :
        /\ ~Blocks(ops[i]) /\ OutOfRange(w, ops[i])
        /\ \A j \in 1 .. i - 1 : Passes(w, ops[j])

\* Mutant: the undo may leave a negative value.
exit_sem_unclamped(w) ==
    /\ semval' = [s \in Sems |-> semval[s] + semadj[w][s]]
    /\ semadj' = [semadj EXCEPT ![w] = [s \in Sems |-> 0]]
    /\ dead' = dead \cup {w}
    /\ UNCHANGED <<memory, got, pc>>

\* The undo of a process that ends; a value that would be negative becomes 0.
exit_sem(w) ==
    /\ semval' = [s \in Sems |->
                    IF semval[s] + semadj[w][s] < 0 THEN 0 ELSE semval[s] + semadj[w][s]]
    /\ semadj' = [semadj EXCEPT ![w] = [s \in Sems |-> 0]]
    /\ dead' = dead \cup {w}
    /\ UNCHANGED <<memory, got, pc>>

-----------------------------------------------------------------------------
(* The worker *)

Op(s, by) == [sem |-> s, by |-> by]

\* 5 - action: INC (4) adds one, DEC (6) takes one away.
Credit(action) == IF action = "INC" THEN 1 ELSE -1

get_ops(w) ==
    <<Op(1, -1)>>
    \o (IF action_n(w) = "SET" THEN <<Op(0, -1)>> ELSE <<>>)
    \o (IF action_x(w) \in {"INC", "DEC"} THEN <<Op(2, Credit(action_x(w)))>> ELSE <<>>)
    \o (IF action_m(w) \in {"INC", "DEC"} THEN <<Op(3, Credit(action_m(w)))>> ELSE <<>>)

\* Mutant: the sender does not give the slot back.
return_ops_slot_kept(w) == <<Op(1, 1)>>

\* Mutant: the sender takes a slot instead of giving it back.
return_ops_sign(w) ==
    <<Op(1, 1)>> \o (IF action_x(w) = "DEC" THEN <<Op(0, -1)>> ELSE <<>>)

return_ops(w) ==
    <<Op(1, 1)>> \o (IF action_x(w) = "DEC" THEN <<Op(0, 1)>> ELSE <<>>)

\* The top of the loop and mxn_get_sem: a receiver draws an order.
GetSem(w) ==
    /\ pc[w] = "get_sem"
    /\ semop(w, get_ops(w))
    /\ IF w \in Receivers
       THEN \E o \in Orders : got' = [got EXCEPT ![w] = o]
       ELSE UNCHANGED got
    /\ Goto(w, "m")
    /\ UNCHANGED <<memory, dead, kills>>

Interactions(w) ==
    /\ InteractM(w) \/ InteractN(w) \/ InteractX(w, "return_sem")
    /\ UNCHANGED svVars

\* Mutant: mxn_return_sem without SEM_UNDO.
ReturnSemNoUndo(w) ==
    /\ pc[w] = "return_sem"
    /\ semval' = [s \in Sems |-> semval[s] + Total(return_ops(w), s)]
    /\ Goto(w, "get_sem")
    /\ UNCHANGED <<memory, got, dead, kills, semadj>>

\* mxn_return_sem, the log line and sleep(1).
ReturnSem(w) ==
    /\ pc[w] = "return_sem"
    /\ semop(w, return_ops(w))
    /\ Goto(w, "get_sem")
    /\ UNCHANGED <<memory, got, dead, kills>>

\* error("get semop") and error("return semop"): perror and exit.
ErrorExit(w) ==
    /\ \/ pc[w] = "get_sem" /\ semop_fails(w, get_ops(w))
       \/ pc[w] = "return_sem" /\ semop_fails(w, return_ops(w))
    /\ exit_sem(w)
    /\ UNCHANGED kills

Step(w) ==
    /\ w \notin dead
    /\ GetSem(w) \/ Interactions(w) \/ ReturnSem(w) \/ ErrorExit(w)

Kill(w) ==
    /\ w \notin dead
    /\ kills < MaxKills
    /\ kills' = kills + 1
    /\ exit_sem(w)

Next == \E w \in Workers : Step(w) \/ Kill(w)

Spec == Init /\ [][Next]_vars
FairSpec == Spec /\ \A w \in Workers : WF_vars(Step(w))

-----------------------------------------------------------------------------
Inside == {"m", "n", "x", "return_sem"}
Early == {"m", "n"}       \* the semaphores moved, the table did not yet
Leaving == {"x", "return_sem"}

TypeOK ==
    /\ first \in [0 .. 2 -> Slots]
    /\ m \in Int
    /\ x \in Int
    /\ table \in [Slots -> Orders \cup {Empty}]
    /\ got \in [Workers -> Orders \cup {Empty}]
    /\ pc \in [Workers -> Labels]
    /\ semval \in [Sems -> Nat]
    /\ semadj \in [Workers -> [Sems -> -SEMAEM - 1 .. SEMAEM]]
    /\ dead \subseteq Workers
    /\ kills \in 0 .. MaxKills

\* However workers die, and even inside the critical section, two that are
\* alive are never both between the two semops: the undo gives the mutex of
\* a dead worker back once, and nobody else's.
MutualExclusion ==
    /\ \A v, w \in Workers \ dead : pc[v] \in Inside /\ pc[w] \in Inside => v = w
    /\ semval[1] = 1 - Cardinality(In(Workers \ dead, Inside))

\* As long as no worker has ended, the semaphores agree with the table.
CreditsAgree ==
    dead = {} =>
        /\ semval[0] = MAX_ORDERS - Unsent - Cardinality(In(Receivers, Early))
                       - Cardinality(In(Senders, Leaving))
        /\ semval[2] = Packed + Cardinality(In(Packers, Early))
                       - Cardinality(In(Senders, Early))
        /\ semval[3] = Unpacked + Cardinality(In(Receivers, Early))
                       - Cardinality(In(Packers, Early))

\* As long as no worker has ended, no unsent order is overwritten and every
\* order is packed and sent once, in the order it came in.
PipelineWhileAllLive ==
    [][dead' = {} => Pipeline!Next \/ UNCHANGED Pipeline!vars]_vars

\* A worker that is alive and inside always gets out, so the mutex is never
\* lost, whoever dies: the difference SEM_UNDO makes to the POSIX shop.
CriticalSectionEnds ==
    \A w \in Workers : pc[w] \in Inside ~> (pc[w] = "get_sem" \/ w \in dead)

\* "It must be guaranteed that the number of waiting orders does not exceed
\* the size of the table" (cw07/zad/README.md:26).  It is refuted, with no
\* kill: a receiver ends when its semadj is full, and the undo hands the
\* slots of all its orders back although they still wait.
WaitingWithinTable == Unsent <= MAX_ORDERS
=============================================================================
