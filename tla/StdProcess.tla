----------------------------- MODULE StdProcess -----------------------------
(***************************************************************************)
(* Command.spawn, status and output, and Child, of lib/std/src/process.zn, *)
(* where it forks: pipes, fork, exec, the pipe that reports a failed exec, *)
(* the threads that drain the output, wait and kill. Several threads of    *)
(* one process run a command each; a child inherits whatever ends of pipes *)
(* the process has open when it is forked, those of other commands too.    *)
(* Only the write ends a child holds matter to the others: end of file.    *)
(***************************************************************************)
EXTENDS Naturals, Sequences, FiniteSets

CONSTANTS Spawners,   \* threads, each with one command; its child has its name
          Parent,     \* the process they are threads of
          Pids,       \* bound: process ids
          Capacity,   \* of a pipe
          Volume,     \* what a program writes to each of its outputs
          Calls       \* what the threads may call, at the same time

\* What a thread does with its command, and the pipes that takes, that of the exec
\* report last: status leaves all three streams inherited, output pipes two and
\* leaves a piped stdin as it is, and "talk" is a program that writes to the child,
\* closes its end and waits.
PipesOf == [status |-> <<"exec">>, output |-> <<"out", "err", "exec">>,
            outputPiped |-> <<"in", "out", "err", "exec">>, talk |-> <<"in", "exec">>]
Jobs == DOMAIN PipesOf

ASSUME ProcessAssumption ==
  /\ Parent \notin Spawners /\ 0 \notin Pids
  /\ Capacity \in Nat \ {0} /\ Volume \in Nat
  /\ Calls \subseteq [Spawners -> Jobs]

Names == {"in", "out", "err", "exec"}
Ends == [of : Spawners, pipe : Names, side : {"r", "w"}]
R(s, p) == [of |-> s, pipe |-> p, side |-> "r"]
W(s, p) == [of |-> s, pipe |-> p, side |-> "w"]
Pipe(s, p) == {R(s, p), W(s, p)}

VARIABLES job,       \* what each thread calls
          pc,        \* where it is in that
          spawned,   \* what spawn returned
          has,       \* the ends of pipes a process has open
          flagged,   \* those that an exec closes
          content,   \* what is in a pipe
          drained,   \* the draining threads of output that have ended
          waits,     \* how often wait returned
          stage,     \* how far the child is
          pid,       \* the process id spawn got
          left,      \* what the program has yet to write
          ran,       \* history: the program was started
          struck,    \* history: the child was killed
          lost,      \* history: the first wait did not report the own child
          reused     \* history: the Child was used after its wait returned

callVars == <<job, pc, spawned, drained, waits, lost, reused>>
pipeVars == <<has, flagged, content>>
childVars == <<stage, pid, left, ran, struck>>
vars == <<callVars, pipeVars, childVars>>

TypeOK ==
  /\ job \in [Spawners -> Jobs]
  /\ pc \in [Spawners -> {"idle", "pipes", "flag", "fork", "close", "read", "reap", "drain", "feed",
                          "shut", "wait", "after", "done"}]
  /\ spawned \in [Spawners -> {"none", "ok", "err"}]
  /\ has \in [Spawners \cup {Parent} -> SUBSET Ends]
  /\ flagged \in [Spawners \cup {Parent} -> SUBSET Ends]
  /\ content \in [Spawners -> [Names -> 0 .. Capacity]]
  /\ drained \in [Spawners -> SUBSET {"out", "err"}]
  /\ waits \in [Spawners -> 0 .. 2]
  /\ stage \in [Spawners -> {"none", "forked", "failed", "reading", "writing", "ended", "reaped"}]
  /\ pid \in [Spawners -> Pids \cup {0}]
  /\ left \in [Spawners -> [{"out", "err"} -> 0 .. Volume]]
  /\ \A h \in {ran, struck, lost, reused} : h \in [Spawners -> BOOLEAN]

Init ==
  /\ job \in Calls
  /\ pc = [s \in Spawners |-> "idle"] /\ spawned = [s \in Spawners |-> "none"]
  /\ has = [p \in Spawners \cup {Parent} |-> {}] /\ flagged = has
  /\ content = [s \in Spawners |-> [p \in Names |-> 0]]
  /\ drained = [s \in Spawners |-> {}] /\ waits = [s \in Spawners |-> 0]
  /\ stage = [s \in Spawners |-> "none"] /\ pid = [s \in Spawners |-> 0]
  /\ left = [s \in Spawners |-> [p \in {"out", "err"} |-> 0]]
  /\ ran = [s \in Spawners |-> FALSE] /\ struck = ran /\ lost = ran /\ reused = ran

-----------------------------------------------------------------------------
(* The operating system. *)

Holders(end) == {p \in DOMAIN has : end \in has[p]}
AtEof(s, p) == content[s][p] = 0 /\ Holders(W(s, p)) = {}
Alive(c) == stage[c] \in {"forked", "failed", "reading", "writing"}

\* The child a process id names, its zombie included; another than the one it
\* was given to, once that one is reaped and the id in use again.
NamedBy(s) == {c \in Spawners : pid[c] = pid[s] /\ stage[c] \notin {"none", "reaped"}}
FreePids == Pids \ {pid[c] : c \in {d \in Spawners : stage[d] \notin {"none", "reaped"}}}

Opens(ends) == has' = [has EXCEPT ![Parent] = @ \cup ends] /\ UNCHANGED <<flagged, content>>
Closes(ends) ==
  /\ has' = [has EXCEPT ![Parent] = @ \ ends]
  /\ flagged' = [flagged EXCEPT ![Parent] = @ \ ends]
  /\ UNCHANGED content

\* A process ends: the zombie keeps its id and nothing else.
Die(c) ==
  /\ stage' = [stage EXCEPT ![c] = "ended"]
  /\ has' = [has EXCEPT ![c] = {}] /\ flagged' = [flagged EXCEPT ![c] = {}]
  /\ UNCHANGED content

\* waitpid: the child named by the id, once it has ended, is reaped.
Reaps(s) ==
  /\ \A c \in NamedBy(s) : stage[c] = "ended"
  /\ stage' = [c \in Spawners |-> IF c \in NamedBy(s) THEN "reaped" ELSE stage[c]]
  /\ UNCHANGED <<pid, left, ran, struck>>

-----------------------------------------------------------------------------
(* spawn_posix. *)

Goes(s, to) == pc' = [pc EXCEPT ![s] = to] /\ UNCHANGED <<job, drained, waits, lost, reused>>
OwnEnds(s) == {e \in Ends : e.of = s}

\* An error path: what was opened is closed, and spawn returns Err.
SpawnFails(s, ends) ==
  /\ Closes(ends)
  /\ spawned' = [spawned EXCEPT ![s] = "err"]
  /\ Goes(s, "done")

Call(s) == pc[s] = "idle" /\ Goes(s, "pipes") /\ UNCHANGED <<spawned, pipeVars, childVars>>

\* Of some positions in a list, the one spawn comes to first.
First(positions) == {i \in positions : \A j \in positions : i <= j}

PipeAt(s, i) == PipesOf[job[s]][i]
Unmade(s) == {i \in DOMAIN PipesOf[job[s]] : W(s, PipeAt(s, i)) \notin has[Parent]}

\* make_pipe for each stream that is piped, then for the report of exec.
MakePipe(s) ==
  /\ pc[s] = "pipes"
  /\ \/ /\ \E i \in First(Unmade(s)) : Opens(Pipe(s, PipeAt(s, i)))
        /\ Goes(s, "pipes") /\ UNCHANGED spawned
     \/ Unmade(s) # {} /\ SpawnFails(s, OwnEnds(s))
     \/ Unmade(s) = {} /\ Goes(s, "flag") /\ UNCHANGED <<spawned, pipeVars>>
  /\ UNCHANGED childVars

\* fcntl(err_write, F_SETFD, FD_CLOEXEC)
Flag(s) ==
  /\ pc[s] = "flag"
  /\ flagged' = [flagged EXCEPT ![Parent] = @ \cup {W(s, "exec")}]
  /\ Goes(s, "fork")
  /\ UNCHANGED <<spawned, has, content, childVars>>

\* The child starts with a copy of all that is open, flags included.
Fork(s) ==
  /\ pc[s] = "fork"
  /\ \/ /\ \E id \in FreePids : pid' = [pid EXCEPT ![s] = id]
        /\ stage' = [stage EXCEPT ![s] = "forked"]
        /\ has' = [has EXCEPT ![s] = {e \in has[Parent] : e.side = "w"}]
        /\ flagged' = [flagged EXCEPT ![s] = {e \in flagged[Parent] : e.side = "w"}]
        /\ Goes(s, "close")
        /\ UNCHANGED <<content, spawned, left, ran, struck>>
     \/ SpawnFails(s, OwnEnds(s)) /\ UNCHANGED childVars

\* close, one after the other, and then fcntl(stdin_write, F_SETFD, FD_CLOEXEC).
ChildsEnds(s) == <<W(s, "exec"), R(s, "in"), W(s, "out"), W(s, "err")>>
CloseChildsEnds(s) ==
  /\ pc[s] = "close"
  /\ LET open == {i \in DOMAIN ChildsEnds(s) : ChildsEnds(s)[i] \in has[Parent]} IN
       \/ (\E i \in First(open) : Closes({ChildsEnds(s)[i]})) /\ Goes(s, "close")
       \/ /\ open = {}
          /\ flagged' = [flagged EXCEPT ![Parent] = @ \cup (has[Parent] \cap {W(s, "in")})]
          /\ Goes(s, "read")
          /\ UNCHANGED <<has, content>>
  /\ UNCHANGED <<spawned, childVars>>

\* read(err_read): an error code, or end of file once no process can write one.
ReadReport(s) ==
  /\ pc[s] = "read"
  /\ \/ content[s]["exec"] > 0 /\ Goes(s, "reap") /\ UNCHANGED spawned
     \/ /\ AtEof(s, "exec")
        /\ spawned' = [spawned EXCEPT ![s] = "ok"]
        /\ Goes(s, CASE job[s] = "status" -> "wait" [] job[s] = "talk" -> "feed" [] OTHER -> "drain")
  /\ Closes({R(s, "exec")})
  /\ UNCHANGED childVars

\* Mutant: the ends of the caller stay open.
ReapAndKeep(s) ==
  /\ pc[s] = "reap" /\ Reaps(s)
  /\ SpawnFails(s, {R(s, "out"), R(s, "err")})

\* waitpid for the child that could not run the program.
Reap(s) ==
  /\ pc[s] = "reap" /\ Reaps(s)
  /\ SpawnFails(s, {W(s, "in"), R(s, "out"), R(s, "err")})

-----------------------------------------------------------------------------
(* The child. *)

\* What exec leaves open: the ends dup2'd to 0, 1 and 2, and what else it inherited
\* without the flag. The child itself closes the other end of its stdin.
KeptOnExec(c) == has[c] \ (flagged[c] \cup {W(c, "in")})

\* A program reads its stdin to the end before it writes, or does not read it.
Exec(c) ==
  /\ stage[c] = "forked"
  /\ \E first \in {"reading", "writing"} : stage' = [stage EXCEPT ![c] = first]
  /\ has' = [has EXCEPT ![c] = KeptOnExec(c)] /\ flagged' = [flagged EXCEPT ![c] = {}]
  /\ left' = [left EXCEPT ![c] = [p \in {"out", "err"} |-> IF W(c, p) \in has[c] THEN Volume ELSE 0]]
  /\ ran' = [ran EXCEPT ![c] = TRUE]
  /\ UNCHANGED <<callVars, content, pid, struck>>

\* chdir, execvp or execve fails: errno goes to the report pipe, then _exit(127).
ExecFails(c) ==
  /\ stage[c] = "forked"
  /\ stage' = [stage EXCEPT ![c] = "failed"]
  /\ content' = [content EXCEPT ![c]["exec"] = 1]
  /\ UNCHANGED <<callVars, has, flagged, pid, left, ran, struck>>

ReadStdin(c) ==
  /\ stage[c] = "reading"
  /\ \/ content[c]["in"] > 0 /\ content' = [content EXCEPT ![c]["in"] = @ - 1] /\ UNCHANGED stage
     \/ AtEof(c, "in") /\ stage' = [stage EXCEPT ![c] = "writing"] /\ UNCHANGED content
  /\ UNCHANGED <<callVars, has, flagged, pid, left, ran, struck>>

WriteOutput(c, p) ==
  /\ stage[c] = "writing" /\ left[c][p] > 0 /\ content[c][p] < Capacity
  /\ left' = [left EXCEPT ![c][p] = @ - 1]
  /\ content' = [content EXCEPT ![c][p] = @ + 1]
  /\ UNCHANGED <<callVars, has, flagged, stage, pid, ran, struck>>

Exit(c) ==
  /\ \/ stage[c] = "failed"
     \/ stage[c] = "writing" /\ left[c]["out"] = 0 /\ left[c]["err"] = 0
  /\ Die(c)
  /\ UNCHANGED <<callVars, pid, left, ran, struck>>

-----------------------------------------------------------------------------
(* After spawn: output, and the calls on a Child. *)

\* Mutant: stderr is drained when stdout has come to its end.
DrainInTurn(s, p) ==
  /\ pc[s] = "drain" /\ p \notin drained[s]
  /\ p = "err" => "out" \in drained[s]
  /\ \/ content[s][p] > 0 /\ content' = [content EXCEPT ![s][p] = @ - 1] /\ UNCHANGED drained
     \/ AtEof(s, p) /\ drained' = [drained EXCEPT ![s] = @ \cup {p}] /\ UNCHANGED content
  /\ UNCHANGED <<job, pc, spawned, waits, lost, reused, has, flagged, childVars>>

\* drain_fd_to_string in a thread of its own: read until end of file.
Drain(s, p) ==
  /\ pc[s] = "drain" /\ p \notin drained[s]
  /\ \/ content[s][p] > 0 /\ content' = [content EXCEPT ![s][p] = @ - 1] /\ UNCHANGED drained
     \/ AtEof(s, p) /\ drained' = [drained EXCEPT ![s] = @ \cup {p}] /\ UNCHANGED content
  /\ UNCHANGED <<job, pc, spawned, waits, lost, reused, has, flagged, childVars>>

JoinDrains(s) ==
  /\ pc[s] = "drain" /\ drained[s] = {"out", "err"}
  /\ Goes(s, "wait")
  /\ UNCHANGED <<spawned, pipeVars, childVars>>

\* take_stdin and write_all ...
Feed(s) ==
  /\ pc[s] = "feed"
  /\ content' = [content EXCEPT ![s]["in"] = 1]
  /\ Goes(s, "shut")
  /\ UNCHANGED <<spawned, has, flagged, childVars>>

\* ... and the drop of the PipeWriter.
DropWriter(s) ==
  /\ pc[s] = "shut" /\ Closes({W(s, "in")}) /\ Goes(s, "wait")
  /\ UNCHANGED <<spawned, childVars>>

\* wait, or a try_wait that finds the child ended. No child of that id: an error.
Wait(s) ==
  /\ pc[s] = "wait" \/ (pc[s] = "after" /\ job[s] = "talk" /\ waits[s] = 1)
  /\ Reaps(s)
  /\ pc' = [pc EXCEPT ![s] = "after"]
  /\ waits' = [waits EXCEPT ![s] = @ + 1]
  /\ lost' = [lost EXCEPT ![s] = @ \/ (waits[s] = 0 /\ NamedBy(s) # {s})]
  /\ reused' = [reused EXCEPT ![s] = @ \/ waits[s] > 0]
  /\ UNCHANGED <<job, spawned, drained, pipeVars>>

\* kill, by a program that has the Child; also after a wait.
Kill(s) ==
  /\ job[s] = "talk" /\ pc[s] \in {"shut", "wait", "after"}
  /\ \E c \in NamedBy(s) : Alive(c) /\ Die(c) /\ struck' = [struck EXCEPT ![c] = TRUE]
  /\ reused' = [reused EXCEPT ![s] = @ \/ waits[s] > 0]
  /\ UNCHANGED <<job, pc, spawned, drained, waits, lost, pid, left, ran>>

\* Mutant: the drop reaps, lest a zombie stays.
DropChildReaps(s) ==
  /\ pc[s] = "after" /\ Reaps(s)
  /\ Closes({W(s, "in"), R(s, "out"), R(s, "err")}) /\ Goes(s, "done")
  /\ UNCHANGED spawned

\* Drop for Child: the ends it still has are closed.
DropChild(s) ==
  /\ pc[s] = "after" /\ Closes({W(s, "in"), R(s, "out"), R(s, "err")}) /\ Goes(s, "done")
  /\ UNCHANGED <<spawned, childVars>>

-----------------------------------------------------------------------------
ChildStep(c) ==
  Exec(c) \/ ExecFails(c) \/ ReadStdin(c) \/ (\E p \in {"out", "err"} : WriteOutput(c, p)) \/ Exit(c)
SpawnStep(s) ==
  Call(s) \/ MakePipe(s) \/ Flag(s) \/ Fork(s) \/ CloseChildsEnds(s) \/ ReadReport(s) \/ Reap(s)
CallStep(s) == JoinDrains(s) \/ Feed(s) \/ DropWriter(s) \/ Wait(s) \/ DropChild(s)

Next ==
  \E s \in Spawners : ChildStep(s) \/ SpawnStep(s) \/ CallStep(s) \/ Kill(s)
                      \/ \E p \in {"out", "err"} : Drain(s, p)

\* Every process and thread is scheduled, and programs do not compute for ever;
\* whether and when anybody kills is up to the program.
Fairness ==
  \A s \in Spawners :
    /\ WF_vars(ChildStep(s)) /\ WF_vars(SpawnStep(s)) /\ WF_vars(CallStep(s))
    /\ \A p \in {"out", "err"} : WF_vars(Drain(s, p))

Spec == Init /\ [][Next]_vars /\ Fairness

-----------------------------------------------------------------------------
\* spawn answers truly, though it learns of the exec by the end of a pipe: Ok
\* means that the program was started (or its process killed before it could be),
\* Err that it was not, that no zombie stays and every end of a pipe is closed,
\* at whichever of its steps it failed.
SpawnAnswers ==
  \A s \in Spawners :
    /\ spawned[s] = "ok" => ran[s] \/ struck[s]
    /\ spawned[s] = "err" => /\ ~ran[s] /\ stage[s] \in {"none", "reaped"}
                             /\ OwnEnds(s) \cap has[Parent] = {}

\* The first wait on a Child reports that child, unless another Child was waited
\* for or killed once more after its wait: by then its id may be this one's.
WaitReportsOwn == \A s \in Spawners : lost[s] => \E r \in Spawners \ {s} : reused[r]

\* Another child was forked while an end of this command's pipes was open without
\* the flag, and holds it.
HeldElsewhere(s) == \E c \in Spawners \ {s} : OwnEnds(s) \cap has[c] # {}

\* output leaves the write end of a piped stdin open while it drains.
StdinLeftOpen(s) == job[s] = "outputPiped" /\ W(s, "in") \in has[Parent]

\* Calls return: the exec report, the draining of both outputs and the wait come
\* to an end whatever the child does and in whatever order, with two exceptions.
CallsReturn ==
  \A s \in Spawners : <>[](pc[s] \in {"idle", "done"} \/ HeldElsewhere(s) \/ StdinLeftOpen(s))
=============================================================================
