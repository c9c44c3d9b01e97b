------------------------------ MODULE Pipelines ------------------------------
(***************************************************************************)
(* A line of the shell of cw05 (zad1/mysh.c): its commands forked one      *)
(* after the other, each with its standard input and output in pipes, then *)
(* waited for in that order.  A command is a program that reads and writes *)
(* some items, in an order of its own; blocked in a read or a write, it    *)
(* does nothing else.  What the lines before left open are read ends of    *)
(* pipes that nobody writes to.                                            *)
(***************************************************************************)
EXTENDS Integers, FiniteSets, Sequences

CONSTANTS
    MaxCommands,   \* bound: commands of a line
    Wants,         \* how many items a command reads; All: until the input ends
    Makes,         \* how many it writes
    All,
    Capacity       \* of a pipe

PipelinesAssumption ==
    /\ MaxCommands \in Nat \ {0} /\ Capacity \in Nat \ {0}
    /\ Makes \subseteq Nat /\ Wants \subseteq Nat \cup {All} /\ All \notin Nat

VARIABLES
    forked,      \* the commands forked so far
    reaped,      \* those waited for
    commands,    \* the line: want and make of each, what is left of it
    doing,       \* "choosing", "reading", "writing" or "gone", of those forked
    ends,        \* the ends of pipes each process holds; 0 is the shell
    pipe         \* the items in each pipe; k is the one command k writes to

pipeVars == <<forked, reaped, commands, doing, ends, pipe>>

Init ==
    /\ forked = 0 /\ reaped = 0
    /\ commands = <<>> /\ doing = <<>> /\ pipe = <<>>
    /\ ends = <<>>

Read(k) == <<k, "read">>
Write(k) == <<k, "write">>
last == Len(commands)
Forked == 1 .. forked

\* execute_line gets a line.
Start ==
    /\ commands = <<>>
    /\ \E n \in 1 .. MaxCommands : commands' \in [1 .. n -> [want : Wants, make : Makes]]
    /\ ends' = [p \in 0 .. last' |-> {}]
    /\ pipe' = [k \in 1 .. last' |-> 0]
    /\ UNCHANGED <<forked, reaped, doing>>

\* Mutant: the shell keeps both ends.
execute_one_open ==
    LET k == forked + 1 IN
    /\ forked < last
    /\ forked' = k
    /\ doing' = Append(doing, "choosing")
    /\ ends' = [ends EXCEPT ![k] = ends[0] \cup {Write(k)}, ![0] = @ \cup {Read(k), Write(k)}]
    /\ UNCHANGED <<reaped, commands, pipe>>

\* The command has what the shell holds and the write end of its own pipe; of
\* that, the shell keeps the read end, for the next command, for good.
execute_one ==
    LET k == forked + 1 IN
    /\ forked < last
    /\ forked' = k
    /\ doing' = Append(doing, "choosing")
    /\ ends' = [ends EXCEPT ![k] = ends[0] \cup {Write(k)}, ![0] = @ \cup {Read(k)}]
    /\ UNCHANGED <<reaped, commands, pipe>>

Waitable == forked = last /\ reaped < last /\ doing[reaped + 1] = "gone"
wait ==
    /\ Waitable
    /\ reaped' = reaped + 1
    /\ UNCHANGED <<forked, commands, doing, ends, pipe>>

-----------------------------------------------------------------------------
(* A command *)

Holders(e) == {p \in DOMAIN ends : e \in ends[p]}

\* The shell's own input is at its end.
Items(k) == IF k = 1 THEN 0 ELSE pipe[k - 1]
Ended(k) == Items(k) = 0 /\ (k = 1 \/ Holders(Write(k - 1)) = {})
CanRead(k) == doing[k] = "reading" /\ (Items(k) > 0 \/ Ended(k))

\* The last command writes to the shell's output.
Broken(k) == k # last /\ Holders(Read(k)) = {}
CanWrite(k) == doing[k] = "writing" /\ (k = last \/ pipe[k] < Capacity \/ Broken(k))

Goes(k, what) == doing' = [doing EXCEPT ![k] = what]
Exit(k) ==
    /\ Goes(k, "gone")
    /\ ends' = [ends EXCEPT ![k] = {}]

\* What the program does next.
choose(k) ==
    /\ doing[k] = "choosing"
    /\ \/ commands[k].want # 0 /\ Goes(k, "reading") /\ UNCHANGED ends
       \/ commands[k].make # 0 /\ Goes(k, "writing") /\ UNCHANGED ends
       \/ commands[k].want = 0 /\ commands[k].make = 0 /\ Exit(k)
    /\ UNCHANGED <<commands, pipe>>

read(k) ==
    /\ CanRead(k)
    /\ IF Ended(k)
       THEN commands' = [commands EXCEPT ![k].want = 0] /\ UNCHANGED pipe
       ELSE /\ commands' = [commands EXCEPT ![k].want = IF @ = All THEN All ELSE @ - 1]
            /\ pipe' = [pipe EXCEPT ![k - 1] = @ - 1]
    /\ Goes(k, "choosing")
    /\ UNCHANGED ends

\* A write that nobody can read ends the command.
write(k) ==
    /\ CanWrite(k)
    /\ IF Broken(k)
       THEN Exit(k) /\ UNCHANGED <<commands, pipe>>
       ELSE /\ commands' = [commands EXCEPT ![k].make = @ - 1]
            /\ pipe' = IF k = last THEN pipe ELSE [pipe EXCEPT ![k] = @ + 1]
            /\ Goes(k, "choosing")
            /\ UNCHANGED ends

Command(k) == (choose(k) \/ read(k) \/ write(k)) /\ UNCHANGED <<forked, reaped>>

Next == Start \/ execute_one \/ wait \/ \E k \in Forked : Command(k)

Spec == Init /\ [][Next]_pipeVars

-----------------------------------------------------------------------------
\* A command that has gone with items left in its input: as the shell holds
\* the read end, whoever writes there is not told.
LeftUnread(k) == doing[k] = "gone" /\ Items(k) > 0

\* Until all commands of a line are waited for, somebody can go on: every
\* reader gets the end of its input once the writer has gone, and every writer
\* is read from.  Only where a command has left its input unread may the line
\* wait for ever.
LineGoesOn ==
    commands # <<>> /\ reaped < last =>
        \/ forked < last \/ Waitable
        \/ \E k \in Forked : doing[k] = "choosing" \/ CanRead(k) \/ CanWrite(k) \/ LeftUnread(k)
=============================================================================
