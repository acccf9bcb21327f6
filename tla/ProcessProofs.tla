---------------------------- MODULE ProcessProofs ----------------------------
(***************************************************************************)
(* StdProcess for any number of threads, process ids and pipe sizes: spawn *)
(* answers truly, and wait reports the own child.                          *)
(***************************************************************************)
EXTENDS StdProcess, TLAPS

Shape ==
  /\ job \in [Spawners -> Jobs] /\ DOMAIN pc = Spawners /\ pid \in [Spawners -> Pids \cup {0}]
  /\ spawned \in [Spawners -> {"none", "ok", "err"}]
  /\ has \in [Spawners \cup {Parent} -> SUBSET Ends]
  /\ content \in [Spawners -> [Names -> Nat]] /\ waits \in [Spawners -> Nat]
  /\ stage \in [Spawners -> {"none", "forked", "failed", "reading", "writing", "ended", "reaped"}]
  /\ ran \in [Spawners -> BOOLEAN] /\ struck \in [Spawners -> BOOLEAN]
  /\ lost \in [Spawners -> BOOLEAN] /\ reused \in [Spawners -> BOOLEAN]

\* A child that has neither run its program nor failed to can still report.
ChildOK(c) ==
  /\ content[c]["exec"] \in {0, 1}
  /\ content[c]["exec"] = 1 => ~ran[c] /\ stage[c] \in {"failed", "ended", "reaped"}
  /\ stage[c] = "none" => ~ran[c]
  /\ stage[c] = "forked" => ~ran[c] /\ W(c, "exec") \in has[c]
  /\ stage[c] = "failed" => content[c]["exec"] = 1
  /\ stage[c] \in {"reading", "writing"} => ran[c]
  /\ stage[c] \in {"ended", "reaped"} => ran[c] \/ struck[c] \/ content[c]["exec"] = 1

Open(s) == OwnEnds(s) \cap has[Parent]
Streams(s) == {W(s, "in"), R(s, "out"), R(s, "err")}

\* How far spawn came: which ends are still open, and what the child can be.
CallOK(s) ==
  /\ pc[s] \in {"idle", "pipes", "flag", "fork"} => stage[s] = "none" /\ spawned[s] = "none"
  /\ pc[s] \in {"flag", "fork"} => W(s, "exec") \in has[Parent]
  /\ pc[s] \in {"close", "read", "reap"} => stage[s] # "none" /\ spawned[s] = "none"
  /\ pc[s] = "read" => Open(s) \subseteq Streams(s) \cup {R(s, "exec")}
  /\ pc[s] = "reap" => Open(s) \subseteq Streams(s) /\ content[s]["exec"] = 1
  /\ pc[s] \in {"drain", "feed", "shut", "wait", "after"} => stage[s] # "none" /\ spawned[s] = "ok"
  /\ pc[s] \notin {"after", "done"} => waits[s] = 0
  /\ spawned[s] = "ok" => ran[s] \/ struck[s]
  /\ spawned[s] = "err" => /\ pc[s] = "done" /\ ~ran[s] /\ stage[s] \in {"none", "reaped"}
                           /\ Open(s) = {}

\* Two children that are not reaped have two ids; one that was reaped by another
\* than its own first wait was so after somebody used a Child again.
IdsOK ==
  /\ \A a, b \in Spawners :
       a # b /\ stage[a] \notin {"none", "reaped"} /\ stage[b] \notin {"none", "reaped"} => pid[a] # pid[b]
  /\ \A s \in Spawners : reused[s] => waits[s] > 0
  /\ \A s \in Spawners : stage[s] = "reaped" /\ waits[s] = 0 /\ spawned[s] # "err" =>
       \E r \in Spawners : reused[r]
  /\ WaitReportsOwn

ProcInv == Shape /\ (\A s \in Spawners : ChildOK(s) /\ CallOK(s)) /\ IdsOK
-----------------------------------------------------------------------------
Pairs == \A s \in Spawners : ChildOK(s) /\ CallOK(s)

LEMMA ProcStart == ASSUME Init PROVE ProcInv
  <1>1. Parent \notin Spawners BY ProcessAssumption
  <1>2. Shape BY ProcessAssumption DEF Init, Shape, Names
  <1>3. ASSUME NEW s \in Spawners PROVE ChildOK(s) /\ CallOK(s)
    BY DEF Init, ChildOK, CallOK, Names
  <1>4. IdsOK BY DEF Init, IdsOK, WaitReportsOwn
  <1> QED BY <1>2, <1>3, <1>4 DEF ProcInv

\* A thread and a child of whom a step changes nothing that matters, or only reaps it.
LEMMA Untouched ==
  ASSUME NEW s \in Spawners, ChildOK(s), CallOK(s),
         stage'[s] = stage[s] \/ (stage[s] = "ended" /\ stage'[s] = "reaped"),
         pc'[s] = pc[s], spawned'[s] = spawned[s], waits'[s] = waits[s],
         ran'[s] = ran[s], struck'[s] = struck[s], content'[s]["exec"] = content[s]["exec"],
         has'[s] = has[s], OwnEnds(s) \cap has'[Parent] = OwnEnds(s) \cap has[Parent]
  PROVE  ChildOK(s)' /\ CallOK(s)'
  <1>1. W(s, "exec") \in OwnEnds(s) BY DEF W, OwnEnds, Ends, Names
  <1>2. ChildOK(s)' BY DEF ChildOK
  <1>3. CallOK(s)' BY <1>1 DEF CallOK, Open
  <1> QED BY <1>2, <1>3

LEMMA SameIds ==
  ASSUME IdsOK, UNCHANGED <<pid, waits, reused, lost>>,
         \A s \in Spawners : /\ stage'[s] \in {"none", "reaped"} <=> stage[s] \in {"none", "reaped"}
                             /\ stage'[s] = "reaped" => stage[s] = "reaped"
                             /\ spawned[s] = "err" => spawned'[s] = "err"
  PROVE  IdsOK'
  <1>1. WaitReportsOwn' BY DEF IdsOK, WaitReportsOwn
  <1>2. (\A s \in Spawners : stage[s] = "reaped" /\ waits[s] = 0 /\ spawned[s] # "err" =>
          \E r \in Spawners : reused[r])'
    BY DEF IdsOK
  <1> QED BY <1>1, <1>2 DEF IdsOK

\* The ends of one command are none of another's.
LEMMA EndsApart ==
  ASSUME NEW s \in Spawners, NEW r \in Spawners, r # s
  PROVE  /\ OwnEnds(s) \cap OwnEnds(r) = {}
         /\ \A p \in Names : W(s, p) \in OwnEnds(s) /\ R(s, p) \in OwnEnds(s)
  BY DEF OwnEnds, R, W, Ends

-----------------------------------------------------------------------------
(* The steps of a child. *)

\* A step of child c changes no other child, and takes back nothing c reported.
Alone(c) ==
  /\ UNCHANGED <<callVars, pid>> /\ has'[Parent] = has[Parent]
  /\ \A s \in Spawners \ {c} : /\ stage'[s] = stage[s] /\ has'[s] = has[s] /\ content'[s] = content[s]
                               /\ ran'[s] = ran[s] /\ struck'[s] = struck[s]

Onwards(c) ==
  /\ stage[c] \notin {"none", "reaped"} /\ stage'[c] \notin {"none", "reaped"}
  /\ ran[c] \/ struck[c] => ran'[c] \/ struck'[c]
  /\ content[c]["exec"] = 1 => content'[c]["exec"] = 1

LEMMA ChildMoves ==
  ASSUME ProcInv, NEW c \in Spawners, Alone(c), Onwards(c), ChildOK(c)', Shape'
  PROVE  ProcInv'
  <1> USE DEF Alone, Onwards
  <1>1. ASSUME NEW s \in Spawners PROVE ChildOK(s)' /\ CallOK(s)'
    <2>1. CASE s # c BY <2>1, Untouched DEF ProcInv, callVars
    <2>2. CASE s = c
      <3>1. CallOK(c) /\ ChildOK(c) BY DEF ProcInv
      <3>2. UNCHANGED <<pc, spawned, waits>> BY DEF callVars
      <3>3. CallOK(c)' BY <3>1, <3>2 DEF CallOK, ChildOK, Open
      <3> QED BY <2>2, <3>3
    <2> QED BY <2>1, <2>2
  <1>2. IdsOK' BY SameIds DEF ProcInv, callVars
  <1> QED BY <1>1, <1>2 DEF ProcInv

LEMMA ChildSteps == ASSUME ProcInv, NEW c \in Spawners, ChildStep(c) PROVE ProcInv'
  <1> USE DEF ProcInv
  <1>1. Parent \notin Spawners BY ProcessAssumption
  <1>2. CASE Exec(c)
    <2>1. PICK first \in {"reading", "writing"} : stage' = [stage EXCEPT ![c] = first] BY <1>2 DEF Exec
    <2>2. has' = [has EXCEPT ![c] = KeptOnExec(c)] /\ KeptOnExec(c) \in SUBSET Ends
      BY <1>2 DEF Exec, KeptOnExec, Shape
    <2>3. Shape' BY <1>1, <1>2, <2>1, <2>2 DEF Exec, Shape, callVars
    <2>4. ChildOK(c)' BY <1>2, <2>1 DEF Exec, ChildOK, Shape
    <2>5. Alone(c) BY <1>1, <1>2, <2>1, <2>2 DEF Exec, Shape, Alone
    <2>6. Onwards(c) BY <1>2, <2>1, <2>2 DEF Exec, ChildOK, Shape, Onwards
    <2> QED BY <2>3, <2>4, <2>5, <2>6, ChildMoves
  <1>3. CASE ExecFails(c)
    <2>1. content' = [content EXCEPT ![c] = [content[c] EXCEPT !["exec"] = 1]] /\ "exec" \in Names
      BY <1>3 DEF ExecFails, Names
    <2>2. Shape' BY <1>3, <2>1 DEF ExecFails, Shape, callVars
    <2>3. content'[c]["exec"] = 1 /\ content[c]["exec"] = 0
      BY <1>3, <2>1 DEF ExecFails, ChildOK, Shape
    <2>4. ChildOK(c)' BY <1>3, <2>3 DEF ExecFails, ChildOK, Shape
    <2>5. Alone(c) BY <1>1, <1>3, <2>1, <2>3 DEF ExecFails, Shape, Alone
    <2>6. Onwards(c) BY <1>3, <2>1, <2>3 DEF ExecFails, ChildOK, Shape, Onwards
    <2> QED BY <2>2, <2>4, <2>5, <2>6, ChildMoves
  <1>4. CASE ReadStdin(c)
    <2>1. \/ content' = [content EXCEPT ![c]["in"] = @ - 1] /\ content[c]["in"] > 0 /\ UNCHANGED stage
          \/ content' = content /\ stage' = [stage EXCEPT ![c] = "writing"]
      BY <1>4 DEF ReadStdin
    <2>2. Shape' BY <1>4, <2>1 DEF ReadStdin, Shape, callVars, Names
    <2>3. content'[c]["exec"] = content[c]["exec"] BY <2>1 DEF Shape, Names
    <2>4. ChildOK(c)' BY <1>4, <2>1, <2>3 DEF ReadStdin, ChildOK, Shape
    <2>5. Alone(c) BY <1>1, <1>4, <2>1, <2>3 DEF ReadStdin, Shape, Alone
    <2>6. Onwards(c) BY <1>4, <2>1, <2>3 DEF ReadStdin, ChildOK, Shape, Onwards
    <2> QED BY <2>2, <2>4, <2>5, <2>6, ChildMoves
  <1>5. ASSUME NEW p \in {"out", "err"}, WriteOutput(c, p) PROVE ProcInv'
    <2>1. content' = [content EXCEPT ![c][p] = @ + 1] BY <1>5 DEF WriteOutput
    <2>2. Shape' BY <1>5, <2>1 DEF WriteOutput, Shape, callVars, Names
    <2>3. content'[c]["exec"] = content[c]["exec"] BY <2>1 DEF Shape, Names
    <2>4. ChildOK(c)' BY <1>5, <2>1, <2>3 DEF WriteOutput, ChildOK, Shape
    <2>5. Alone(c) BY <1>1, <1>5, <2>1, <2>3 DEF WriteOutput, Shape, Alone
    <2>6. Onwards(c) BY <1>5, <2>1, <2>3 DEF WriteOutput, ChildOK, Shape, Onwards
    <2> QED BY <2>2, <2>4, <2>5, <2>6, ChildMoves
  <1>6. CASE Exit(c)
    <2>1. stage[c] \in {"failed", "writing"} BY <1>6 DEF Exit
    <2>2. Shape' BY <1>1, <1>6 DEF Exit, Die, Shape, callVars
    <2>3. ChildOK(c)' BY <1>6, <2>1 DEF Exit, Die, ChildOK, Shape
    <2>5. Alone(c) BY <1>1, <1>6, <2>1 DEF Exit, Die, Shape, Alone
    <2>6. Onwards(c) BY <1>6, <2>1 DEF Exit, Die, ChildOK, Shape, Onwards
    <2> QED BY <2>2, <2>3, <2>5, <2>6, ChildMoves
  <1> QED BY <1>2, <1>3, <1>4, <1>5, <1>6 DEF ChildStep
-----------------------------------------------------------------------------
(* The steps of a thread that change no child. *)

CallAlone(s) ==
  /\ UNCHANGED <<job, childVars, waits, lost, reused>>
  /\ \A r \in Spawners : content'[r]["exec"] = content[r]["exec"] /\ has'[r] = has[r]
  /\ \A r \in Spawners \ {s} : /\ pc'[r] = pc[r] /\ spawned'[r] = spawned[r]
                               /\ OwnEnds(r) \cap has'[Parent] = OwnEnds(r) \cap has[Parent]

LEMMA CallMoves ==
  ASSUME ProcInv, NEW s \in Spawners, CallAlone(s), CallOK(s)', Shape', spawned[s] # "err"
  PROVE  ProcInv'
  <1>1. ASSUME NEW r \in Spawners PROVE ChildOK(r)' /\ CallOK(r)'
    <2>1. CASE r # s BY <2>1, Untouched DEF ProcInv, CallAlone, childVars
    <2>2. CASE r = s BY <2>2 DEF ProcInv, CallAlone, childVars, ChildOK
    <2> QED BY <2>1, <2>2
  <1>2. IdsOK'
    <2>1. UNCHANGED <<pid, waits, reused, lost, stage>> BY DEF CallAlone, childVars
    <2>2. \A r \in Spawners : spawned[r] = "err" => spawned'[r] = "err" BY DEF CallAlone
    <2> QED BY <2>1, <2>2, SameIds DEF ProcInv
  <1> QED BY <1>1, <1>2 DEF ProcInv

\* What closing and opening ends of a command's own pipes does.
LEMMA OwnCloses ==
  ASSUME Shape, NEW s \in Spawners, NEW ends \in SUBSET OwnEnds(s), Closes(ends)
  PROVE  /\ has' \in [Spawners \cup {Parent} -> SUBSET Ends] /\ content' = content
         /\ has'[Parent] = has[Parent] \ ends /\ Open(s)' = Open(s) \ ends
         /\ \A r \in Spawners : has'[r] = has[r]
         /\ \A r \in Spawners \ {s} : OwnEnds(r) \cap has'[Parent] = OwnEnds(r) \cap has[Parent]
  <1>1. Parent \notin Spawners BY ProcessAssumption
  <1>2. has' = [has EXCEPT ![Parent] = has[Parent] \ ends] /\ content' = content BY DEF Closes
  <1>3. has'[Parent] = has[Parent] \ ends BY <1>2 DEF Shape
  <1>4. has' \in [Spawners \cup {Parent} -> SUBSET Ends] BY <1>2 DEF Shape
  <1>5. \A r \in Spawners : has'[r] = has[r] BY <1>1, <1>2 DEF Shape
  <1>6. \A r \in Spawners \ {s} : OwnEnds(r) \cap has'[Parent] = OwnEnds(r) \cap has[Parent]
    BY <1>3 DEF OwnEnds
  <1> QED BY <1>2, <1>3, <1>4, <1>5, <1>6 DEF Open

LEMMA OwnOpens ==
  ASSUME Shape, NEW s \in Spawners, NEW ends \in SUBSET OwnEnds(s), Opens(ends)
  PROVE  /\ has' \in [Spawners \cup {Parent} -> SUBSET Ends] /\ content' = content
         /\ \A r \in Spawners : has'[r] = has[r]
         /\ \A r \in Spawners \ {s} : OwnEnds(r) \cap has'[Parent] = OwnEnds(r) \cap has[Parent]
  <1>1. Parent \notin Spawners BY ProcessAssumption
  <1>2. has' = [has EXCEPT ![Parent] = has[Parent] \cup ends] /\ content' = content BY DEF Opens
  <1>3. has'[Parent] = has[Parent] \cup ends /\ ends \in SUBSET Ends BY <1>2 DEF Shape, OwnEnds
  <1>4. has' \in [Spawners \cup {Parent} -> SUBSET Ends] BY <1>2, <1>3 DEF Shape
  <1>5. \A r \in Spawners : has'[r] = has[r] BY <1>1, <1>2 DEF Shape
  <1>6. \A r \in Spawners \ {s} : OwnEnds(r) \cap has'[Parent] = OwnEnds(r) \cap has[Parent]
    BY <1>3 DEF OwnEnds
  <1> QED BY <1>2, <1>4, <1>5, <1>6

LEMMA StreamsOwned ==
  ASSUME NEW s \in Spawners
  PROVE  Streams(s) \cup {R(s, "exec"), W(s, "exec"), R(s, "in"), W(s, "out"), W(s, "err")} = OwnEnds(s)
  <1>1. ASSUME NEW e \in Ends, e.of = s PROVE \E p \in Names : e = R(s, p) \/ e = W(s, p)
    BY <1>1 DEF Ends, R, W
  <1>2. \A p \in Names : R(s, p) \in OwnEnds(s) /\ W(s, p) \in OwnEnds(s) BY DEF OwnEnds, Ends, R, W
  <1> QED BY <1>1, <1>2 DEF Streams, OwnEnds, Names

\* Every job has a pipe for the report of exec.
LEMMA ExecPipe == ASSUME NEW j \in Jobs PROVE \E i \in DOMAIN PipesOf[j] : PipesOf[j][i] = "exec"
  <1>1. CASE j = "status" BY <1>1 DEF PipesOf
  <1>2. CASE j = "output" BY <1>2 DEF PipesOf
  <1>3. CASE j = "outputPiped" BY <1>3 DEF PipesOf
  <1>4. CASE j = "talk" BY <1>4 DEF PipesOf
  <1>5. Jobs = {"status", "output", "outputPiped", "talk"} BY DEF Jobs, PipesOf
  <1> QED BY <1>1, <1>2, <1>3, <1>4, <1>5

LEMMA PipeNames == ASSUME NEW j \in Jobs, NEW i \in DOMAIN PipesOf[j] PROVE PipesOf[j][i] \in Names
  <1>1. CASE j = "status" BY <1>1 DEF PipesOf, Names
  <1>2. CASE j = "output" BY <1>2 DEF PipesOf, Names
  <1>3. CASE j = "outputPiped" BY <1>3 DEF PipesOf, Names
  <1>4. CASE j = "talk" BY <1>4 DEF PipesOf, Names
  <1>5. Jobs = {"status", "output", "outputPiped", "talk"} BY DEF Jobs, PipesOf
  <1> QED BY <1>1, <1>2, <1>3, <1>4, <1>5
LEMMA MakePipeStep == ASSUME ProcInv, NEW s \in Spawners, MakePipe(s) PROVE ProcInv'
  <1> USE DEF ProcInv
  <1>1. /\ pc[s] = "pipes" /\ stage[s] = "none" /\ spawned[s] = "none" /\ waits[s] = 0 /\ job[s] \in Jobs
        /\ ~ran[s]
    BY DEF MakePipe, CallOK, ChildOK, Shape
  <1>2. ASSUME NEW i \in Unmade(s), Opens(Pipe(s, PipeAt(s, i))), Goes(s, "pipes"), UNCHANGED <<spawned, childVars>>
        PROVE  ProcInv'
    <2>1. PipeAt(s, i) \in Names BY <1>1, <1>2, PipeNames DEF Unmade, PipeAt
    <2>2. Pipe(s, PipeAt(s, i)) \in SUBSET OwnEnds(s) BY <2>1 DEF Pipe, OwnEnds, Ends, R, W
    <2>3. CallAlone(s) BY <1>2, <2>2, OwnOpens DEF Goes, CallAlone, Shape
    <2>4. Shape' BY <1>2, <2>2, OwnOpens DEF Goes, Shape, childVars
    <2>5. CallOK(s)' BY <1>1, <1>2 DEF Goes, CallOK, childVars, Shape
    <2> QED BY <1>1, <2>3, <2>4, <2>5, CallMoves
  <1>3. ASSUME SpawnFails(s, OwnEnds(s)), UNCHANGED childVars PROVE ProcInv'
    <2>1. CallAlone(s) BY <1>3, OwnCloses DEF SpawnFails, Goes, CallAlone, Shape
    <2>2. Shape' BY <1>3, OwnCloses DEF SpawnFails, Goes, Shape, childVars
    <2>3. Open(s)' = {} BY <1>3, OwnCloses DEF SpawnFails, Open
    <2>4. CallOK(s)' BY <1>1, <1>3, <2>3 DEF SpawnFails, Goes, CallOK, childVars, Shape
    <2> QED BY <1>1, <2>1, <2>2, <2>4, CallMoves
  <1>4. ASSUME Unmade(s) = {}, Goes(s, "flag"), UNCHANGED <<spawned, pipeVars, childVars>> PROVE ProcInv'
    <2>1. CallAlone(s) BY <1>4 DEF Goes, CallAlone, pipeVars, Shape
    <2>2. Shape' BY <1>4 DEF Goes, Shape, childVars, pipeVars
    <2>3. PICK i \in DOMAIN PipesOf[job[s]] : PipeAt(s, i) = "exec" BY <1>1, ExecPipe DEF PipeAt
    <2>4. W(s, "exec") \in has[Parent] BY <1>4, <2>3 DEF Unmade
    <2>5. CallOK(s)' BY <1>1, <1>4, <2>4 DEF Goes, CallOK, childVars, pipeVars, Shape
    <2> QED BY <1>1, <2>1, <2>2, <2>5, CallMoves
  <1> QED BY <1>2, <1>3, <1>4 DEF MakePipe, First

LEMMA CallStart == ASSUME ProcInv, NEW s \in Spawners, Call(s) \/ Flag(s) PROVE ProcInv'
  <1> USE DEF ProcInv, Call, Flag, Goes
  <1>1. CallAlone(s) BY DEF CallAlone, pipeVars, Shape
  <1>2. Shape' BY DEF Shape, childVars, pipeVars
  <1>3. CallOK(s)' BY DEF CallOK, childVars, pipeVars, Shape, Open
  <1>4. spawned[s] # "err" BY DEF CallOK
  <1> QED BY <1>1, <1>2, <1>3, <1>4, CallMoves

LEMMA CloseStep == ASSUME ProcInv, NEW s \in Spawners, CloseChildsEnds(s) PROVE ProcInv'
  <1> USE DEF ProcInv
  <1> DEFINE open == {i \in DOMAIN ChildsEnds(s) : ChildsEnds(s)[i] \in has[Parent]}
  <1>1. pc[s] = "close" /\ stage[s] # "none" /\ spawned[s] = "none" /\ waits[s] = 0
    BY DEF CloseChildsEnds, CallOK
  <1>2. /\ DOMAIN ChildsEnds(s) = 1 .. 4 /\ ChildsEnds(s)[1] = W(s, "exec") /\ ChildsEnds(s)[2] = R(s, "in")
        /\ ChildsEnds(s)[3] = W(s, "out") /\ ChildsEnds(s)[4] = W(s, "err")
    BY DEF ChildsEnds
  <1>3. ASSUME NEW i \in open, Closes({ChildsEnds(s)[i]}), Goes(s, "close"), UNCHANGED <<spawned, childVars>>
        PROVE  ProcInv'
    <2>1. {ChildsEnds(s)[i]} \in SUBSET OwnEnds(s) BY <1>2, StreamsOwned
    <2>2. CallAlone(s) BY <1>3, <2>1, OwnCloses DEF Goes, CallAlone, Shape
    <2>3. Shape' BY <1>3, <2>1, OwnCloses DEF Goes, Shape, childVars
    <2>4. CallOK(s)' BY <1>1, <1>3 DEF Goes, CallOK, childVars, Shape
    <2> QED BY <1>1, <2>2, <2>3, <2>4, CallMoves
  <1>4. ASSUME open = {}, Goes(s, "read"), UNCHANGED <<has, content, spawned, childVars>> PROVE ProcInv'
    <2>1. CallAlone(s) BY <1>4 DEF Goes, CallAlone, Shape
    <2>2. Shape' BY <1>4 DEF Goes, Shape, childVars
    <2>3. 1 \notin open /\ 2 \notin open /\ 3 \notin open /\ 4 \notin open BY <1>4
    <2>4. /\ W(s, "exec") \notin has[Parent] /\ R(s, "in") \notin has[Parent]
          /\ W(s, "out") \notin has[Parent] /\ W(s, "err") \notin has[Parent]
      BY <1>2, <2>3
    <2>5. Open(s) \subseteq Streams(s) \cup {R(s, "exec")} BY <2>4, StreamsOwned DEF Open
    <2>6. CallOK(s)' BY <1>1, <1>4, <2>5 DEF Goes, CallOK, childVars, Shape, Open, Streams
    <2> QED BY <1>1, <2>1, <2>2, <2>6, CallMoves
  <1> QED BY <1>3, <1>4 DEF CloseChildsEnds, First

\* End of file on the report pipe: the child ran the program, or it was killed.
LEMMA ReadStep == ASSUME ProcInv, NEW s \in Spawners, ReadReport(s) PROVE ProcInv'
  <1> USE DEF ProcInv
  <1>1. /\ pc[s] = "read" /\ stage[s] # "none" /\ spawned[s] = "none" /\ waits[s] = 0
        /\ Open(s) \subseteq Streams(s) \cup {R(s, "exec")}
    BY DEF ReadReport, CallOK
  <1>2. {R(s, "exec")} \in SUBSET OwnEnds(s) /\ Closes({R(s, "exec")}) /\ UNCHANGED childVars
    BY StreamsOwned DEF ReadReport
  <1>3. Open(s)' \subseteq Streams(s) /\ content' = content BY <1>1, <1>2, OwnCloses
  <1>4. CASE content[s]["exec"] > 0 /\ Goes(s, "reap") /\ UNCHANGED spawned
    <2>1. CallAlone(s) BY <1>2, <1>4, OwnCloses DEF Goes, CallAlone, Shape
    <2>2. Shape' BY <1>2, <1>4, OwnCloses DEF Goes, Shape, childVars
    <2>3. content[s]["exec"] = 1 BY <1>4 DEF ChildOK
    <2>4. CallOK(s)' BY <1>1, <1>2, <1>3, <1>4, <2>3 DEF Goes, CallOK, childVars, Shape, Streams
    <2> QED BY <1>1, <2>1, <2>2, <2>4, CallMoves
  <1>5. ASSUME AtEof(s, "exec"), spawned' = [spawned EXCEPT ![s] = "ok"],
               NEW to \in {"wait", "feed", "drain"}, Goes(s, to)
        PROVE  ProcInv'
    <2>1. CallAlone(s) BY <1>2, <1>5, OwnCloses DEF Goes, CallAlone, Shape
    <2>2. Shape' BY <1>2, <1>5, OwnCloses DEF Goes, Shape, childVars
    <2>3. content[s]["exec"] = 0 /\ W(s, "exec") \notin has[s] BY <1>5 DEF AtEof, Holders, Shape
    <2>4. ran[s] \/ struck[s] BY <1>1, <2>3 DEF ChildOK, Shape
    <2>5. CallOK(s)' BY <1>1, <1>2, <1>5, <2>4 DEF Goes, CallOK, childVars, Shape
    <2> QED BY <1>1, <2>1, <2>2, <2>5, CallMoves
  <1> QED BY <1>4, <1>5 DEF ReadReport

LEMMA AfterSpawnSteps ==
  ASSUME ProcInv, NEW s \in Spawners,
         \/ JoinDrains(s) \/ Feed(s) \/ DropWriter(s) \/ DropChild(s)
         \/ \E p \in {"out", "err"} : Drain(s, p)
  PROVE  ProcInv'
  <1> USE DEF ProcInv
  <1>1. ASSUME pc[s] \in {"drain", "feed", "shut", "after"}, UNCHANGED <<job, waits, lost, reused, spawned, childVars>>,
               NEW to \in {pc[s], "wait", "shut", "done"},
               DOMAIN pc' = Spawners, pc'[s] = to, \A r \in Spawners \ {s} : pc'[r] = pc[r],
               pc[s] = "after" => to \in {"after", "done"},
               has' \in [Spawners \cup {Parent} -> SUBSET Ends], \A r \in Spawners : has'[r] = has[r],
               \A r \in Spawners \ {s} : OwnEnds(r) \cap has'[Parent] = OwnEnds(r) \cap has[Parent],
               content' \in [Spawners -> [Names -> Nat]],
               \A r \in Spawners : content'[r]["exec"] = content[r]["exec"]
        PROVE  ProcInv'
    <2>1. CallAlone(s) BY <1>1 DEF CallAlone, Shape
    <2>2. Shape' BY <1>1 DEF Shape, childVars
    <2>3. stage[s] # "none" /\ spawned[s] = "ok" /\ (ran[s] \/ struck[s]) /\ (pc[s] # "after" => waits[s] = 0)
      BY <1>1 DEF CallOK
    <2>4. CallOK(s)' BY <1>1, <2>3 DEF CallOK, Shape, childVars
    <2> QED BY <2>1, <2>2, <2>3, <2>4, CallMoves
  <1>2. CASE JoinDrains(s) BY <1>1, <1>2 DEF JoinDrains, Goes, Shape, pipeVars
  <1>3. CASE Feed(s)
    <2>1. content' = [content EXCEPT ![s]["in"] = 1] BY <1>3 DEF Feed
    <2>2. /\ content' \in [Spawners -> [Names -> Nat]]
          /\ \A r \in Spawners : content'[r]["exec"] = content[r]["exec"]
      BY <2>1 DEF Shape, Names
    <2> QED BY <1>1, <1>3, <2>2 DEF Feed, Goes, Shape
  <1>4. CASE DropWriter(s)
    <2>1. {W(s, "in")} \in SUBSET OwnEnds(s) BY StreamsOwned DEF Streams
    <2> QED BY <1>1, <1>4, <2>1, OwnCloses DEF DropWriter, Goes, Shape
  <1>5. CASE DropChild(s)
    <2>1. {W(s, "in"), R(s, "out"), R(s, "err")} \in SUBSET OwnEnds(s) BY StreamsOwned DEF Streams
    <2> QED BY <1>1, <1>5, <2>1, OwnCloses DEF DropChild, Goes, Shape
  <1>6. ASSUME NEW p \in {"out", "err"}, Drain(s, p) PROVE ProcInv'
    <2>1. \/ content' = [content EXCEPT ![s][p] = @ - 1] /\ content[s][p] > 0
          \/ content' = content
      BY <1>6 DEF Drain
    <2>2. p \in Names /\ "exec" \in Names /\ p # "exec" BY DEF Names
    <2>3. content[s][p] \in Nat BY <2>2 DEF Shape
    <2>4. CASE content' = content BY <1>1, <1>6, <2>4 DEF Drain, Shape
    <2>5. CASE content' = [content EXCEPT ![s][p] = @ - 1] /\ content[s][p] > 0
      <3>1. PICK x : x = content[s][p] - 1 OBVIOUS
      <3>2. x \in Nat BY <2>3, <2>5, <3>1
      <3>3. content' = [content EXCEPT ![s][p] = x] BY <2>5, <3>1
      <3>4. content' \in [Spawners -> [Names -> Nat]] BY <2>2, <3>2, <3>3 DEF Shape
      <3>5. \A r \in Spawners : content'[r]["exec"] = content[r]["exec"] BY <2>2, <3>3 DEF Shape
      <3> QED BY <1>1, <1>6, <3>4, <3>5 DEF Drain, Shape
    <2> QED BY <2>1, <2>4, <2>5
  <1> QED BY <1>2, <1>3, <1>4, <1>5, <1>6
-----------------------------------------------------------------------------
(* The steps that start a child, reap some, or kill one. *)

LEMMA ForkStep == ASSUME ProcInv, NEW s \in Spawners, Fork(s) PROVE ProcInv'
  <1> USE DEF ProcInv
  <1>1. /\ pc[s] = "fork" /\ stage[s] = "none" /\ spawned[s] = "none" /\ waits[s] = 0
        /\ W(s, "exec") \in has[Parent] /\ ~ran[s] /\ content[s]["exec"] = 0 /\ Parent \notin Spawners
    BY ProcessAssumption DEF Fork, CallOK, ChildOK
  <1>2. ASSUME SpawnFails(s, OwnEnds(s)), UNCHANGED childVars PROVE ProcInv'
    <2>1. CallAlone(s) BY <1>2, OwnCloses DEF SpawnFails, Goes, CallAlone, Shape
    <2>2. Shape' BY <1>2, OwnCloses DEF SpawnFails, Goes, Shape, childVars
    <2>3. Open(s)' = {} BY <1>2, OwnCloses DEF SpawnFails, Open
    <2>4. CallOK(s)' BY <1>1, <1>2, <2>3 DEF SpawnFails, Goes, CallOK, childVars, Shape
    <2> QED BY <1>1, <2>1, <2>2, <2>4, CallMoves
  <1>3. ASSUME NEW id \in FreePids, pid' = [pid EXCEPT ![s] = id], stage' = [stage EXCEPT ![s] = "forked"],
               has' = [has EXCEPT ![s] = {e \in has[Parent] : e.side = "w"}], Goes(s, "close"),
               UNCHANGED <<content, spawned, left, ran, struck>>
        PROVE  ProcInv'
    <2>1. id \in Pids /\ \A c \in Spawners : stage[c] \notin {"none", "reaped"} => pid[c] # id
      BY DEF FreePids
    <2>2. Shape' BY <1>1, <1>3, <2>1 DEF Goes, Shape
    <2>3. W(s, "exec") \in has'[s] /\ has'[Parent] = has[Parent] BY <1>1, <1>3 DEF Shape, W
    <2>4. ChildOK(s)' BY <1>1, <1>3, <2>3 DEF ChildOK, Shape
    <2>5. CallOK(s)' BY <1>1, <1>3 DEF Goes, CallOK, Shape
    <2>6. ASSUME NEW r \in Spawners, r # s PROVE ChildOK(r)' /\ CallOK(r)'
      BY <1>3, <2>3, <2>6, Untouched DEF Goes, Shape
    <2>7. IdsOK' BY <1>1, <1>3, <2>1 DEF Goes, IdsOK, WaitReportsOwn, Shape
    <2> QED BY <2>2, <2>4, <2>5, <2>6, <2>7
  <1> QED BY <1>2, <1>3 DEF Fork

\* A child that is not reaped has its id to itself; if it was reaped, by whoever
\* used a Child again, another may be reaped in its place.
LEMMA ReapsOne ==
  ASSUME ProcInv, NEW s \in Spawners, Reaps(s), stage[s] # "none"
  PROVE  /\ \A r \in Spawners : stage'[r] = stage[r] \/ (stage[r] = "ended" /\ stage'[r] = "reaped")
         /\ stage'[s] = "reaped" /\ UNCHANGED <<pid, left, ran, struck>>
         /\ \A r \in Spawners : stage'[r] = "reaped" /\ stage[r] # "reaped" /\ r # s => stage[s] = "reaped"
         /\ stage[s] # "reaped" => NamedBy(s) = {s}
         /\ stage' \in [Spawners -> {"none", "forked", "failed", "reading", "writing", "ended", "reaped"}]
  <1>1. \A c \in Spawners : stage'[c] = IF c \in NamedBy(s) THEN "reaped" ELSE stage[c] BY DEF Reaps
  <1>2. \A c \in NamedBy(s) : stage[c] = "ended" /\ pid[c] = pid[s] BY DEF Reaps, NamedBy
  <1>3. stage[s] # "reaped" => s \in NamedBy(s) BY DEF NamedBy
  <1>4. \A c \in NamedBy(s) : c # s => stage[s] = "reaped" BY <1>2, <1>3 DEF ProcInv, IdsOK, NamedBy
  <1>5. stage' \in [Spawners -> {"none", "forked", "failed", "reading", "writing", "ended", "reaped"}]
    BY DEF Reaps, ProcInv, Shape
  <1> QED BY <1>1, <1>2, <1>3, <1>4, <1>5 DEF Reaps

LEMMA ReapStep == ASSUME ProcInv, NEW s \in Spawners, Reap(s) PROVE ProcInv'
  <1> USE DEF ProcInv
  <1>1. /\ pc[s] = "reap" /\ stage[s] # "none" /\ spawned[s] = "none" /\ waits[s] = 0
        /\ Open(s) \subseteq Streams(s) /\ content[s]["exec"] = 1 /\ ~ran[s]
    BY DEF Reap, CallOK, ChildOK
  <1>2. Reaps(s) /\ SpawnFails(s, Streams(s)) /\ Streams(s) \in SUBSET OwnEnds(s)
    BY StreamsOwned DEF Reap, Streams
  <1>3. Open(s)' = {} BY <1>1, <1>2, OwnCloses DEF SpawnFails
  <1>4. Shape' BY <1>1, <1>2, ReapsOne, OwnCloses DEF SpawnFails, Goes, Shape
  <1>5. ASSUME NEW r \in Spawners, r # s PROVE ChildOK(r)' /\ CallOK(r)'
    <2>1. /\ has'[r] = has[r] /\ content' = content
          /\ OwnEnds(r) \cap has'[Parent] = OwnEnds(r) \cap has[Parent]
      BY <1>2, <1>5, OwnCloses DEF SpawnFails
    <2>2. /\ stage'[r] = stage[r] \/ (stage[r] = "ended" /\ stage'[r] = "reaped")
          /\ UNCHANGED <<ran, struck>>
      BY <1>1, <1>2, ReapsOne
    <2>3. pc'[r] = pc[r] /\ spawned'[r] = spawned[r] /\ waits' = waits
      BY <1>2, <1>5 DEF SpawnFails, Goes, Shape
    <2> QED BY <2>1, <2>2, <2>3, Untouched
  <1>6. stage'[s] = "reaped" /\ pc'[s] = "done" /\ spawned'[s] = "err" /\ content' = content
    BY <1>1, <1>2, ReapsOne, OwnCloses DEF SpawnFails, Goes, Shape
  <1>7. ChildOK(s)' /\ CallOK(s)'
    BY <1>1, <1>2, <1>3, <1>6, ReapsOne DEF ChildOK, CallOK
  <1>8. IdsOK'
    <2>1. UNCHANGED <<pid, waits, reused, lost>> BY <1>1, <1>2, ReapsOne DEF SpawnFails, Goes
    <2>2. \A r \in Spawners \ {s} : spawned'[r] = spawned[r] BY <1>2 DEF SpawnFails, Shape
    <2>3. \A r \in Spawners : stage'[r] = stage[r] \/ (stage[r] = "ended" /\ stage'[r] = "reaped")
      BY <1>1, <1>2, ReapsOne
    <2>4. \A r \in Spawners : stage'[r] = "reaped" /\ stage[r] # "reaped" /\ r # s => stage[s] = "reaped"
      BY <1>1, <1>2, ReapsOne
    <2>5. stage[s] = "reaped" => \E q \in Spawners : reused[q] BY <1>1 DEF IdsOK
    <2>6. ASSUME NEW r \in Spawners, stage'[r] = "reaped", waits'[r] = 0, spawned'[r] # "err"
          PROVE  \E q \in Spawners : reused'[q]
      BY <1>6, <2>1, <2>2, <2>3, <2>4, <2>5, <2>6 DEF IdsOK
    <2>7. WaitReportsOwn' BY <2>1 DEF IdsOK, WaitReportsOwn
    <2>8. (\A a, b \in Spawners :
             a # b /\ stage[a] \notin {"none", "reaped"} /\ stage[b] \notin {"none", "reaped"} => pid[a] # pid[b])'
      BY <2>1, <2>3 DEF IdsOK
    <2> QED BY <2>1, <2>6, <2>7, <2>8 DEF IdsOK
  <1> QED BY <1>4, <1>5, <1>7, <1>8

LEMMA WaitStep == ASSUME ProcInv, NEW s \in Spawners, Wait(s) PROVE ProcInv'
  <1> USE DEF ProcInv
  <1>1. /\ pc[s] \in {"wait", "after"} /\ stage[s] # "none" /\ spawned[s] = "ok" /\ (ran[s] \/ struck[s])
        /\ waits[s] \in Nat /\ Reaps(s)
    BY DEF Wait, CallOK, Shape
  <1>2. /\ pc' = [pc EXCEPT ![s] = "after"] /\ waits' = [waits EXCEPT ![s] = waits[s] + 1]
        /\ lost' = [lost EXCEPT ![s] = lost[s] \/ (waits[s] = 0 /\ NamedBy(s) # {s})]
        /\ reused' = [reused EXCEPT ![s] = reused[s] \/ waits[s] > 0]
        /\ UNCHANGED <<job, spawned, has, content, pid, ran, struck>>
    BY DEF Wait, Reaps, pipeVars
  <1>3. Shape'
    <2>1. (lost[s] \/ (waits[s] = 0 /\ NamedBy(s) # {s})) \in BOOLEAN /\ (reused[s] \/ waits[s] > 0) \in BOOLEAN
      OBVIOUS
    <2> QED BY <1>1, <1>2, <2>1, ReapsOne DEF Shape
  <1>4. \A r \in Spawners \ {s} : /\ pc'[r] = pc[r] /\ waits'[r] = waits[r]
                                  /\ lost'[r] = lost[r] /\ reused'[r] = reused[r]
    BY <1>2 DEF Shape
  <1>5. ASSUME NEW r \in Spawners, r # s PROVE ChildOK(r)' /\ CallOK(r)'
    BY <1>1, <1>2, <1>4, <1>5, ReapsOne, Untouched
  <1>6. stage'[s] = "reaped" /\ pc'[s] = "after" /\ waits'[s] > 0
    BY <1>1, <1>2, ReapsOne DEF Shape
  <1>7. ChildOK(s)' /\ CallOK(s)' BY <1>1, <1>2, <1>6 DEF ChildOK, CallOK
  <1>8. \A r \in Spawners : reused[r] => reused'[r] BY <1>2, <1>4 DEF Shape
  <1>9. stage[s] = "reaped" => \E q \in Spawners : reused'[q]
    <2>1. CASE waits[s] = 0 BY <1>1, <1>8, <2>1 DEF IdsOK
    <2>2. CASE waits[s] > 0 BY <1>2, <2>2 DEF Shape
    <2> QED BY <1>1, <2>1, <2>2
  <1>10. \A r \in Spawners : reused'[r] => waits'[r] > 0
    BY <1>4, <1>6 DEF IdsOK
  <1>11. \A r \in Spawners : stage'[r] = stage[r] \/ (stage[r] = "ended" /\ stage'[r] = "reaped")
    BY <1>1, ReapsOne
  <1>12. ASSUME NEW r \in Spawners, stage'[r] = "reaped", waits'[r] = 0, spawned'[r] # "err"
         PROVE  \E q \in Spawners : reused'[q]
    <2>1. r # s /\ waits[r] = 0 /\ spawned[r] # "err" BY <1>2, <1>4, <1>6, <1>12
    <2>2. CASE stage[r] = "reaped" BY <1>8, <2>1, <2>2 DEF IdsOK
    <2>3. CASE stage[r] # "reaped"
      <3>1. stage[s] = "reaped" BY <1>1, <1>12, <2>1, <2>3, ReapsOne
      <3> QED BY <1>9, <3>1
    <2> QED BY <2>2, <2>3
  <1>13. ASSUME NEW r \in Spawners, lost'[r] PROVE \E q \in Spawners \ {r} : reused'[q]
    <2>1. CASE lost[r] BY <1>8, <2>1 DEF IdsOK, WaitReportsOwn
    <2>2. CASE ~lost[r]
      <3>1. r = s /\ waits[s] = 0 /\ NamedBy(s) # {s} BY <1>2, <1>4, <1>13, <2>2 DEF Shape
      <3>2. stage[s] = "reaped" BY <1>1, <3>1, ReapsOne
      <3>3. PICK q \in Spawners : reused[q] BY <1>1, <3>1, <3>2 DEF IdsOK
      <3>4. q # s BY <3>1, <3>3 DEF IdsOK
      <3> QED BY <1>8, <3>1, <3>3, <3>4
    <2> QED BY <2>1, <2>2
  <1>14. (\A a, b \in Spawners :
            a # b /\ stage[a] \notin {"none", "reaped"} /\ stage[b] \notin {"none", "reaped"} => pid[a] # pid[b])'
    BY <1>2, <1>11 DEF IdsOK
  <1>15. IdsOK' BY <1>10, <1>12, <1>13, <1>14 DEF IdsOK, WaitReportsOwn
  <1> QED BY <1>3, <1>5, <1>7, <1>15

LEMMA KillStep == ASSUME ProcInv, NEW s \in Spawners, Kill(s) PROVE ProcInv'
  <1> USE DEF ProcInv
  <1>1. PICK c \in NamedBy(s) : Alive(c) /\ Die(c) /\ struck' = [struck EXCEPT ![c] = TRUE] BY DEF Kill
  <1>2. /\ c \in Spawners /\ stage[c] \notin {"none", "reaped", "ended"} /\ Parent \notin Spawners
        /\ stage' = [stage EXCEPT ![c] = "ended"] /\ has' = [has EXCEPT ![c] = {}] /\ content' = content
        /\ reused' = [reused EXCEPT ![s] = reused[s] \/ waits[s] > 0]
        /\ UNCHANGED <<job, pc, spawned, waits, lost, pid, ran>>
    BY <1>1, ProcessAssumption DEF Kill, Alive, Die, NamedBy
  <1>3. (reused[s] \/ waits[s] > 0) \in BOOLEAN OBVIOUS
  <1>4. Shape' BY <1>1, <1>2, <1>3 DEF Shape
  <1>5. ASSUME NEW r \in Spawners, r # c PROVE ChildOK(r)' /\ CallOK(r)'
    BY <1>1, <1>2, <1>5, Untouched DEF Shape
  <1>6. stage'[c] = "ended" /\ struck'[c] /\ has'[Parent] = has[Parent] BY <1>1, <1>2 DEF Shape
  <1>7. ChildOK(c)' /\ CallOK(c)'
    <2>1. ChildOK(c) /\ CallOK(c) BY <1>2
    <2> QED BY <1>2, <1>6, <2>1 DEF ChildOK, CallOK, Open
  <1>8. \A r \in Spawners : (reused[r] => reused'[r]) /\ (reused'[r] => waits'[r] > 0)
    BY <1>2 DEF IdsOK, Shape
  <1>9. IdsOK'
    <2>1. \A r \in Spawners : stage'[r] = stage[r] \/ (r = c /\ stage'[r] = "ended") BY <1>2 DEF Shape
    <2> QED BY <1>2, <1>8, <2>1 DEF IdsOK, WaitReportsOwn
  <1> QED BY <1>4, <1>5, <1>7, <1>9

-----------------------------------------------------------------------------
LEMMA ProcStep == ASSUME ProcInv, [Next]_vars PROVE ProcInv'
  <1>1. CASE UNCHANGED vars
    <2>1. UNCHANGED <<job, pc, spawned, waits, lost, reused, has, content, stage, pid, ran, struck>>
      BY <1>1 DEF vars, callVars, pipeVars, childVars
    <2>2. Shape' BY <2>1 DEF ProcInv, Shape
    <2>3. \A s \in Spawners : ChildOK(s)' /\ CallOK(s)' BY <2>1, Untouched DEF ProcInv
    <2> QED BY <2>1, <2>2, <2>3, SameIds DEF ProcInv
  <1>2. ASSUME NEW s \in Spawners, ChildStep(s) PROVE ProcInv' BY <1>2, ChildSteps
  <1>3. ASSUME NEW s \in Spawners, SpawnStep(s) PROVE ProcInv'
    BY <1>3, CallStart, MakePipeStep, ForkStep, CloseStep, ReadStep, ReapStep DEF SpawnStep
  <1>4. ASSUME NEW s \in Spawners, CallStep(s) \/ \E p \in {"out", "err"} : Drain(s, p) PROVE ProcInv'
    BY <1>4, AfterSpawnSteps, WaitStep DEF CallStep
  <1>5. ASSUME NEW s \in Spawners, Kill(s) PROVE ProcInv' BY <1>5, KillStep
  <1> QED BY <1>1, <1>2, <1>3, <1>4, <1>5 DEF Next

LEMMA ProcInvariant == Spec => []ProcInv
  BY ProcStart, ProcStep, PTL DEF Spec

\* spawn returns Ok only for a program that was started or a child that was
\* killed, and Err only with the child reaped and every end closed (spawn_posix).
THEOREM ProcessSpawnAnswers == Spec => []SpawnAnswers
  <1>1. ProcInv => SpawnAnswers BY DEF ProcInv, CallOK, SpawnAnswers, Open
  <1> QED BY <1>1, ProcInvariant, PTL

\* The first wait on a Child reports that child, unless somebody used another
\* Child after its wait (Child.wait, try_wait and kill).
THEOREM ProcessWaitReportsOwn == Spec => []WaitReportsOwn
  <1>1. ProcInv => WaitReportsOwn BY DEF ProcInv, IdsOK
  <1> QED BY <1>1, ProcInvariant, PTL
=============================================================================
