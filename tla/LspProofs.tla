----------------------------- MODULE LspProofs ------------------------------
(***************************************************************************)
(* The language server. LspDocuments for any number of documents and       *)
(* notifications: the stored version names the stored text, an analysis is *)
(* never ahead of its text, no diagnostics are forgotten, and cached       *)
(* packages are fresh. LspLocks for any number of handlers: when they hang,  *)
(* one waits for a nested read of the documents behind a writer.           *)
(***************************************************************************)
EXTENDS LspDocuments, LspLocks, SequenceTheorems, TLAPS

Task == [pc : Pcs, kind : {"none", "open", "change", "close", "watch"}, uri : AnyUri,
         version : Numbers, text : Numbers, kept : Numbers, packages : Manifests,
         groups : SUBSET Uris, todo : SUBSET Item, rounds : Seq({"manifest", "sources"})]

\* The notification x carried a text of document u, under version v.
Sent(x, u, v) == x \in 1 .. count /\ sent[x] = [uri |-> u, version |-> v]

\* t is about to write a text into a document, or to publish what a check of it said.
HasText(t) == \/ t.pc = "write"
              \/ t.pc \in {"ask", "zora", "store"} /\ t.kind # "watch"
Publishes(t) == t.pc \in {"own", "track", "others"}

\* What a task holds was sent for its document; the files it will report on are
\* registered, unless another publication of the document came between; the
\* packages it will cache are those on disk, if these were not saved meanwhile.
TaskOK(t) ==
  /\ t \in Task
  /\ t.pc \in {"sleep", "clear"} \/ HasText(t) \/ Publishes(t) => t.uri \in Uris
  /\ t.pc = "sleep" => t.kind = "change" /\ t.version >= 1
  /\ t.kind = "watch" /\ t.pc \notin {"done", "round"} => t.rounds # <<>>
  /\ t.pc \in {"round", "snapshot"} => t.kind = "watch"
  /\ HasText(t) => /\ Sent(t.text, t.uri, t.version)
                   /\ t.kind = "change" => t.kept <= t.text
  /\ Publishes(t) => t.text \in 1 .. count /\ sent[t.text].uri = t.uri
  /\ t.pc = "others" => t.uri \in overlapped \/ t.groups \subseteq registry[t.uri]
  /\ \A i \in t.todo : Sent(i.text, i.uri, i.version)
  /\ t.pc = "store" /\ ~raced => t.packages = manifest

TasksInv == DOMAIN tasks = Notes /\ \A n \in Notes : TaskOK(tasks[n])

StoreInv ==
  /\ DepsTypeOK /\ count \in Numbers
  /\ editor \in [Uris -> [version : Numbers, text : Numbers]]
  /\ documents \in [Uris -> Document]
  /\ sent \in [Notes -> [uri : AnyUri, version : Numbers]]
  /\ shown \in [Uris -> Numbers] /\ registry \in [Uris -> SUBSET Uris]
  /\ \A u \in Uris : /\ documents[u].text <= count /\ shown[u] <= count
                     /\ documents[u] # Closed => documents[u].text >= 1
                     /\ editor[u].version <= count
  /\ deps # NotCached => deps.mtime <= manifest

LspInv ==
  /\ TasksInv /\ StoreInv
  /\ VersionNamesText /\ AnalysisNeverAhead /\ NothingForgotten /\ HitsAreFresh

-----------------------------------------------------------------------------
LEMMA DoneOK == TaskOK(Done) /\ TaskOK(Done)'
  BY LspDocumentsAssumption, LspDepsAssumption
  DEF TaskOK, Task, Done, Pcs, AnyUri, Numbers, Manifests, HasText, Publishes

LEMMA LspStart == ASSUME Init PROVE LspInv
  <1> USE LspDocumentsAssumption, LspDepsAssumption
  <1>1. TasksInv BY DoneOK DEF Init, TasksInv
  <1>2. StoreInv
    <2>1. documents \in [Uris -> Document] /\ editor \in [Uris -> [version : Numbers, text : Numbers]]
      BY DEF Init, Numbers, Document, NotOpen, Closed
    <2>2. sent \in [Notes -> [uri : AnyUri, version : Numbers]]
      BY DEF Init, Numbers, AnyUri, Nothing
    <2>3. DepsTypeOK /\ deps = NotCached
      <3>1. 0 \in Manifests BY DEF Manifests
      <3> QED BY <3>1, Zenon DEF Init, DepsInit, DepsTypeOK
    <2>4. /\ count \in Numbers /\ shown \in [Uris -> Numbers] /\ registry \in [Uris -> SUBSET Uris]
          /\ \A u \in Uris : documents[u] = Closed /\ shown[u] = 0 /\ editor[u] = NotOpen /\ count = 0
      BY DEF Init, Numbers
    <2> QED BY <2>1, <2>2, <2>3, <2>4 DEF StoreInv, Closed, NotOpen
  <1>3. VersionNamesText /\ AnalysisNeverAhead /\ NothingForgotten /\ HitsAreFresh
    BY DEF Init, DepsInit, VersionNamesText, AnalysisNeverAhead, NothingForgotten, HitsAreFresh, CacheHit, Closed
  <1> QED BY <1>1, <1>2, <1>3 DEF LspInv

\* What is right of a task stays right while these variables do not change.
LEMMA TaskStable ==
  ASSUME NEW t, TaskOK(t), UNCHANGED <<count, sent, manifest, raced, overlapped, registry>>
  PROVE  TaskOK(t)'
  BY DEF TaskOK, Sent

\* Task n goes on as t.
LEMMA OneTask ==
  ASSUME TasksInv, NEW n \in Notes, NEW t, tasks' = [tasks EXCEPT ![n] = t], TaskOK(t)',
         \A m \in Notes \ {n} : TaskOK(tasks[m]) => TaskOK(tasks[m])'
  PROVE  TasksInv'
  BY DEF TasksInv

LEMMA GoesOn ==
  ASSUME TasksInv, NEW n \in Notes, NEW t, TaskOK(t), tasks' = [tasks EXCEPT ![n] = t],
         UNCHANGED <<count, sent, manifest, raced, overlapped, registry>>
  PROVE  TasksInv'
  <1>1. TaskOK(t)' BY TaskStable
  <1>2. ASSUME NEW m \in Notes PROVE TaskOK(tasks[m])'
    <2>1. CASE m = n BY <1>1, <2>1 DEF TasksInv
    <2>2. CASE m # n
      <3>1. TaskOK(tasks[m]) /\ tasks'[m] = tasks[m] BY <2>2 DEF TasksInv
      <3> QED BY <3>1 DEF TaskOK, Sent
    <2> QED BY <2>1, <2>2
  <1> QED BY <1>2 DEF TasksInv

LEMMA NextItemOK ==
  ASSUME NEW t, TaskOK(t), t.kind = "watch", t.rounds # <<>>,
         NEW todo \in SUBSET Item, \A i \in todo : Sent(i.text, i.uri, i.version),
         NEW x \in NextItem(t, todo)
  PROVE  TaskOK(x) /\ x.pc # "others"
  <1>1. CASE todo = {}
    <2>1. x = [Done EXCEPT !.kind = "watch", !.pc = "round", !.rounds = Tail(t.rounds)]
      BY <1>1 DEF NextItem
    <2>2. t.rounds \in Seq({"manifest", "sources"}) BY DEF TaskOK, Task
    <2>3. Tail(t.rounds) \in Seq({"manifest", "sources"}) BY <2>2
    <2> QED BY <2>1, <2>3, DoneOK DEF TaskOK, Task, Done, HasText, Publishes, Pcs
  <1>2. CASE todo # {}
    <2>1. PICK i \in todo : x = [t EXCEPT !.pc = "write", !.todo = todo \ {i}, !.groups = {},
                  !.uri = i.uri, !.version = i.version, !.text = i.text]
      BY <1>2 DEF NextItem
    <2>2. i.uri \in Uris /\ i.version \in Numbers /\ i.text \in Numbers BY DEF Item
    <2>3. x \in Task BY <2>1, <2>2 DEF TaskOK, Task, Pcs, AnyUri
    <2> QED BY <2>1, <2>2, <2>3 DEF TaskOK, HasText, Publishes
  <1> QED BY <1>1, <1>2

-----------------------------------------------------------------------------
Kept == VersionNamesText /\ AnalysisNeverAhead /\ NothingForgotten /\ HitsAreFresh

LEMMA OnlyTasks ==
  ASSUME StoreInv, Kept,
         UNCHANGED <<depsVars, documents, editor, count, sent, shown, registry, overlapped>>
  PROVE  StoreInv' /\ Kept'
  BY DEF StoreInv, Kept, VersionNamesText, AnalysisNeverAhead, NothingForgotten, HitsAreFresh, depsVars,
         DepsTypeOK, CacheHit, Manifests

LEMMA WakeStep == ASSUME LspInv, NEW n \in Notes, Wake(n) PROVE LspInv'
  <1>1. StoreInv' /\ Kept' BY OnlyTasks DEF Wake, Goes, LspInv, Kept
  <1> DEFINE u == tasks[n].uri
  <1>2. TaskOK(tasks[n]) /\ tasks[n].pc = "sleep" /\ u \in Uris BY DEF LspInv, TasksInv, TaskOK, Wake, At
  <1>3. CASE documents[u].version # tasks[n].version
    BY <1>1, <1>2, <1>3, DoneOK, GoesOn DEF Wake, Goes, LspInv, Kept, depsVars
  <1>4. CASE documents[u].version = tasks[n].version
    <2>1. PICK t : t = [tasks[n] EXCEPT !.pc = "ask", !.text = documents[u].text, !.kept = documents[u].analysis]
      OBVIOUS
    <2>2. documents[u] \in Document /\ documents[u] # Closed /\ documents[u].text \in 1 .. count
      BY <1>2, <1>4 DEF LspInv, StoreInv, Closed, Document, TaskOK, Numbers, LspDocumentsAssumption
    <2>3. Sent(documents[u].text, u, tasks[n].version) /\ documents[u].analysis <= documents[u].text
      BY <1>2, <1>4, <2>2 DEF LspInv, VersionNamesText, AnalysisNeverAhead, Sent
    <2>4. t \in Task BY <1>2, <2>1, <2>2 DEF TaskOK, Task, Document, Pcs
    <2>5. TaskOK(t) BY <1>2, <2>1, <2>3, <2>4 DEF TaskOK, HasText, Publishes
    <2> QED BY <1>1, <1>4, <2>1, <2>5, GoesOn DEF Wake, Goes, LspInv, Kept, depsVars
  <1> QED BY <1>3, <1>4

LEMMA RoundStep == ASSUME LspInv, NEW n \in Notes, Round(n) PROVE LspInv'
  <1>1. TaskOK(tasks[n]) /\ tasks[n].pc = "round" BY DEF LspInv, TasksInv, Round, At
  <1>2. TasksInv'
    <2> USE DEF Round, Goes, GoesTo, Forget, LspInv, depsVars
    <2>1. CASE tasks[n].rounds = <<>> BY <2>1, DoneOK, GoesOn
    <2>2. CASE tasks[n].rounds # <<>>
      <3>1. PICK t : t = [tasks[n] EXCEPT !.pc = "ask"] OBVIOUS
      <3>2. TaskOK(t) BY <1>1, <2>2, <3>1 DEF TaskOK, Task, Pcs, HasText, Publishes
      <3> QED BY <2>2, <3>1, <3>2, GoesOn
    <2> QED BY <2>1, <2>2
  <1>3. deps' = deps \/ deps' = NotCached BY DEF Round, Forget, depsVars
  <1>4. StoreInv' /\ Kept'
    BY <1>3 DEF Round, Goes, GoesTo, Forget, LspInv, Kept, depsVars, StoreInv, DepsTypeOK, CacheHit,
                VersionNamesText, AnalysisNeverAhead, NothingForgotten, HitsAreFresh
  <1> QED BY <1>2, <1>4 DEF LspInv, Kept

\* A task that has its packages and no text is a watch handler.
LEMMA HasPackagesOK ==
  ASSUME LspInv, NEW n \in Notes, tasks[n].pc \in {"ask", "store"}, HasPackages(n),
         UNCHANGED <<manifest, raced, overlapped, registry>>
  PROVE  TasksInv'
  <1>1. TaskOK(tasks[n]) BY DEF LspInv, TasksInv
  <1>2. PICK p \in {"snapshot", "write"} : p = IF tasks[n].kind = "watch" THEN "snapshot" ELSE "write"
    OBVIOUS
  <1>3. PICK t : t = [tasks[n] EXCEPT !.packages = 0, !.pc = p] OBVIOUS
  <1>4. 0 \in Manifests /\ p \in Pcs BY LspDepsAssumption DEF Manifests, Pcs
  <1>5. t \in Task BY <1>1, <1>3, <1>4 DEF TaskOK, Task
  <1>6. TaskOK(t) BY <1>1, <1>2, <1>3, <1>5 DEF TaskOK, HasText, Publishes
  <1> QED BY <1>2, <1>3, <1>6, GoesOn DEF HasPackages, Goes, LspInv

LEMMA AskStep == ASSUME LspInv, NEW n \in Notes, Ask(n) PROVE LspInv'
  <1>1. StoreInv' /\ Kept' BY OnlyTasks DEF Ask, HasPackages, Goes, GoesTo, LspInv, Kept
  <1>2. TaskOK(tasks[n]) /\ tasks[n].pc = "ask" BY DEF LspInv, TasksInv, Ask, At
  <1>3. CASE CacheHit BY <1>1, <1>2, <1>3, HasPackagesOK DEF Ask, LspInv, Kept, depsVars
  <1>4. CASE ~CacheHit
    <2>1. PICK t : t = [tasks[n] EXCEPT !.pc = "zora"] OBVIOUS
    <2>2. TaskOK(t) BY <1>2, <2>1 DEF TaskOK, Task, Pcs, HasText, Publishes
    <2> QED BY <1>1, <1>4, <2>1, <2>2, GoesOn DEF Ask, Goes, GoesTo, LspInv, Kept, depsVars
  <1> QED BY <1>3, <1>4

LEMMA ZoraStep == ASSUME LspInv, NEW n \in Notes, Zora(n) PROVE LspInv'
  <1>1. StoreInv' /\ Kept' BY OnlyTasks DEF Zora, Goes, LspInv, Kept
  <1>2. TaskOK(tasks[n]) /\ tasks[n].pc = "zora" /\ manifest \in Manifests
    BY DEF LspInv, TasksInv, StoreInv, DepsTypeOK, Zora, At
  <1>3. PICK t : t = [tasks[n] EXCEPT !.pc = "store", !.packages = manifest] OBVIOUS
  <1>4. TaskOK(t) BY <1>2, <1>3 DEF TaskOK, Task, Pcs, HasText, Publishes
  <1> QED BY <1>1, <1>3, <1>4, GoesOn DEF Zora, Goes, LspInv, Kept, depsVars

LEMMA CacheStep == ASSUME LspInv, NEW n \in Notes, Cache(n) PROVE LspInv'
  <1>1. TaskOK(tasks[n]) /\ tasks[n].pc = "store" BY DEF LspInv, TasksInv, Cache, At
  <1>2. TasksInv' BY <1>1, HasPackagesOK DEF Cache, Store
  <1>3. /\ deps' = [packages |-> tasks[n].packages, mtime |-> manifest]
        /\ tasks[n].packages \in Manifests /\ manifest \in Manifests
    BY <1>1 DEF Cache, Store, TaskOK, Task, LspInv, StoreInv, DepsTypeOK
  <1>4. DepsTypeOK' BY <1>3 DEF Cache, Store, LspInv, StoreInv, DepsTypeOK, Manifests
  <1>5. StoreInv' /\ Kept'
    BY <1>1, <1>3, <1>4 DEF Cache, Store, HasPackages, Goes, LspInv, Kept, StoreInv, CacheHit, TaskOK, Manifests,
                VersionNamesText, AnalysisNeverAhead, NothingForgotten, HitsAreFresh
  <1> QED BY <1>2, <1>5 DEF LspInv, Kept

LEMMA SnapshotStep == ASSUME LspInv, NEW n \in Notes, Snapshot(n) PROVE LspInv'
  <1>1. StoreInv' /\ Kept' BY OnlyTasks DEF Snapshot, Goes, LspInv, Kept
  <1>2. TaskOK(tasks[n]) /\ tasks[n].pc = "snapshot" BY DEF LspInv, TasksInv, Snapshot, At
  <1> DEFINE open == {u \in Uris : documents[u] # Closed}
             Items(checked) == {[uri |-> u, version |-> documents[u].version,
                                 text |-> documents[u].text] : u \in checked}
  <1>3. PICK checked \in SUBSET open : \E t \in NextItem(tasks[n], Items(checked)) : Goes(n, t)
    <2>1. PICK checked \in IF Head(tasks[n].rounds) = "manifest" THEN {open} ELSE SUBSET open :
               \E t \in NextItem(tasks[n], Items(checked)) : Goes(n, t)
      BY DEF Snapshot
    <2>2. checked \in SUBSET open BY <2>1
    <2> QED BY <2>1, <2>2
  <1>3a. PICK t \in NextItem(tasks[n], Items(checked)) : Goes(n, t) BY <1>3
  <1>4. PICK s : s = tasks[n] OBVIOUS
  <1>5. PICK todo : todo = Items(checked) OBVIOUS
  <1>6. todo \in SUBSET Item BY <1>5 DEF Item, LspInv, StoreInv, Document
  <1>7. ASSUME NEW i \in todo PROVE Sent(i.text, i.uri, i.version)
    <2>1. PICK u \in Uris : /\ documents[u] # Closed
                            /\ i = [uri |-> u, version |-> documents[u].version, text |-> documents[u].text]
      BY <1>5, <1>7
    <2> QED BY <2>1 DEF LspInv, VersionNamesText, StoreInv, Document, Numbers, Sent
  <1>8. s.kind = "watch" /\ s.rounds # <<>> BY <1>2, <1>4 DEF TaskOK
  <1>9. TaskOK(t) BY <1>2, <1>3a, <1>4, <1>5, <1>6, <1>7, <1>8, NextItemOK
  <1> QED BY <1>1, <1>3a, <1>9, GoesOn DEF Snapshot, Goes, LspInv, Kept, depsVars
-----------------------------------------------------------------------------
\* The check of a document writes its entry.
LEMMA WriteBackStep == ASSUME LspInv, NEW n \in Notes, WriteBack(n) PROVE LspInv'
  <1>1. PICK s : s = tasks[n] OBVIOUS
  <1>2. TaskOK(s) /\ s.pc = "write" BY <1>1 DEF LspInv, TasksInv, WriteBack, At
  <1>3. PICK a : a = Analysis(s) OBVIOUS
  <1>4. a \in Numbers /\ a <= s.text
    BY <1>2, <1>3, LspDocumentsAssumption DEF Analysis, TaskOK, Task, HasText, Sent, Numbers
  <1>5. PICK groups \in SUBSET Reports[s.uri] :
           Goes(n, [s EXCEPT !.pc = "own", !.groups = groups, !.version = 0, !.kept = 0])
    BY <1>1 DEF WriteBack
  <1>6. PICK t : t = [s EXCEPT !.pc = "own", !.groups = groups, !.version = 0, !.kept = 0] OBVIOUS
  <1>7. s.uri \in Uris /\ Sent(s.text, s.uri, s.version) BY <1>2 DEF TaskOK, HasText
  <1>8. groups \in SUBSET Uris BY <1>7, LspDocumentsAssumption
  <1>8a. 0 \in Numbers /\ "own" \in Pcs BY LspDocumentsAssumption DEF Numbers, Pcs
  <1>9. t \in Task BY <1>2, <1>6, <1>8, <1>8a DEF TaskOK, Task
  <1>10. TaskOK(t) BY <1>2, <1>6, <1>7, <1>9 DEF TaskOK, HasText, Publishes, Sent
  <1>11. TasksInv' BY <1>5, <1>6, <1>10, GoesOn DEF WriteBack, Goes, LspInv, depsVars
  <1>12. /\ documents' = [documents EXCEPT ![s.uri] = [version |-> s.version, text |-> s.text, analysis |-> a]]
         /\ UNCHANGED <<depsVars, shown, registry, overlapped, editor, count, sent>>
    BY <1>1, <1>3, <1>5 DEF WriteBack, Goes
  <1>13. [version |-> s.version, text |-> s.text, analysis |-> a] \in Document
    BY <1>2, <1>4 DEF TaskOK, Task, Document
  <1>14. StoreInv' BY <1>7, <1>12, <1>13 DEF LspInv, StoreInv, Sent, DepsTypeOK, depsVars, Closed, Manifests
  <1>15. VersionNamesText' /\ AnalysisNeverAhead'
    BY <1>4, <1>7, <1>12 DEF LspInv, StoreInv, VersionNamesText, AnalysisNeverAhead, Sent
  <1>16. NothingForgotten' /\ HitsAreFresh'
    BY <1>12 DEF LspInv, NothingForgotten, HitsAreFresh, CacheHit, depsVars
  <1> QED BY <1>11, <1>14, <1>15, <1>16 DEF LspInv

-----------------------------------------------------------------------------
\* Publications change what is shown, what is registered, and which overlapped.
LEMMA OnlyPublished ==
  ASSUME LspInv, UNCHANGED <<depsVars, documents, editor, count, sent>>,
         shown' \in [Uris -> 0 .. count], registry' \in [Uris -> SUBSET Uris]
  PROVE  StoreInv' /\ VersionNamesText' /\ AnalysisNeverAhead' /\ HitsAreFresh'
  <1>1. count \in Numbers BY DEF LspInv, StoreInv
  <1>9. 0 .. count \subseteq Numbers BY <1>1, LspDocumentsAssumption DEF Numbers
  <1>2. shown' \in [Uris -> Numbers] /\ \A u \in Uris : shown'[u] <= count BY <1>9
  <1>3. DepsTypeOK' BY DEF LspInv, StoreInv, DepsTypeOK, depsVars
  <1>4. StoreInv' BY <1>2, <1>3 DEF LspInv, StoreInv, depsVars
  <1>5. VersionNamesText' /\ AnalysisNeverAhead' BY DEF LspInv, VersionNamesText, AnalysisNeverAhead
  <1>6. HitsAreFresh' BY DEF LspInv, HitsAreFresh, CacheHit, depsVars
  <1> QED BY <1>4, <1>5, <1>6

LEMMA ShownType == ASSUME LspInv PROVE shown \in [Uris -> 0 .. count] /\ registry \in [Uris -> SUBSET Uris]
  BY DEF LspInv, StoreInv, Numbers

LEMMA AfterPublishOK ==
  ASSUME LspInv, NEW n \in Notes, NEW t, t \in AfterPublish(tasks[n]), Publishes(tasks[n])
  PROVE  TaskOK(t) /\ t.pc # "others"
  <1>1. PICK s : s = tasks[n] OBVIOUS
  <1>2. TaskOK(s) BY <1>1 DEF LspInv, TasksInv
  <1>3. CASE s.kind = "watch"
    <2>1. s.rounds # <<>> /\ s.todo \in SUBSET Item BY <1>1, <1>2, <1>3 DEF TaskOK, Publishes, Task
    <2>2. t \in NextItem(s, s.todo) BY <1>1, <1>3 DEF AfterPublish
    <2>3. \A i \in s.todo : Sent(i.text, i.uri, i.version) BY <1>2 DEF TaskOK
    <2> QED BY <1>2, <1>3, <2>1, <2>2, <2>3, NextItemOK
  <1>4. CASE s.kind # "watch"
    <2>1. t = Done BY <1>1, <1>4 DEF AfterPublish
    <2> QED BY <2>1, DoneOK DEF Done
  <1> QED BY <1>3, <1>4

LEMMA PublishOwnStep == ASSUME LspInv, NEW n \in Notes, PublishOwn(n) PROVE LspInv'
  <1>1. PICK s : s = tasks[n] OBVIOUS
  <1>2. TaskOK(s) /\ s.pc = "own" BY <1>1 DEF LspInv, TasksInv, PublishOwn, At
  <1>3. PICK t : t = [s EXCEPT !.pc = "track"] OBVIOUS
  <1>4. TaskOK(t) BY <1>2, <1>3 DEF TaskOK, Task, Pcs, HasText, Publishes
  <1>5. TasksInv' BY <1>1, <1>3, <1>4, GoesOn DEF PublishOwn, Goes, GoesTo, LspInv, depsVars
  <1>6. shown' = [shown EXCEPT ![s.uri] = s.text] /\ s.text \in 1 .. count /\ sent[s.text].uri = s.uri /\ s.uri \in Uris
    BY <1>1, <1>2 DEF PublishOwn, TaskOK, Publishes
  <1>7. shown' \in [Uris -> 0 .. count] BY <1>6, ShownType
  <1>8. NothingForgotten' BY <1>6 DEF PublishOwn, Goes, GoesTo, LspInv, NothingForgotten, StoreInv
  <1> QED BY <1>5, <1>7, <1>8, OnlyPublished, ShownType DEF PublishOwn, Goes, GoesTo, LspInv

LEMMA ClearStep == ASSUME LspInv, NEW n \in Notes, Clear(n) PROVE LspInv'
  <1>1. TasksInv' BY DoneOK, GoesOn DEF Clear, Goes, LspInv, depsVars
  <1>2. tasks[n].uri \in Uris BY DEF Clear, At, LspInv, TasksInv, TaskOK
  <1>3. shown' \in [Uris -> 0 .. count]
    BY <1>2, ShownType DEF Clear, LspInv, StoreInv, Numbers
  <1>4. NothingForgotten' BY <1>2 DEF Clear, Goes, LspInv, NothingForgotten, StoreInv
  <1> QED BY <1>1, <1>3, <1>4, OnlyPublished, ShownType DEF Clear, Goes, LspInv

LEMMA PublishOthersStep == ASSUME LspInv, NEW n \in Notes, PublishOthers(n) PROVE LspInv'
  <1>1. PICK s : s = tasks[n] OBVIOUS
  <1>2. TaskOK(s) /\ s.pc = "others" BY <1>1 DEF LspInv, TasksInv, PublishOthers, At
  <1>3. PICK t \in AfterPublish(tasks[n]) : Goes(n, t) BY DEF PublishOthers
  <1>4. TaskOK(t) BY <1>1, <1>2, <1>3, AfterPublishOK DEF Publishes
  <1>5. TasksInv' BY <1>3, <1>4, GoesOn DEF PublishOthers, Goes, LspInv, depsVars
  <1>6. /\ shown' = [f \in Uris |-> IF f \in s.groups THEN s.text ELSE shown[f]]
        /\ s.text \in 1 .. count /\ sent[s.text].uri = s.uri
        /\ s.uri \in overlapped \/ s.groups \subseteq registry[s.uri]
    BY <1>1, <1>2 DEF PublishOthers, TaskOK, Publishes
  <1>7. shown' \in [Uris -> 0 .. count] BY <1>6, ShownType
  <1>8. NothingForgotten' BY <1>3, <1>6 DEF PublishOthers, Goes, LspInv, NothingForgotten
  <1> QED BY <1>3, <1>5, <1>7, <1>8, OnlyPublished, ShownType DEF PublishOthers, Goes, LspInv

LEMMA TrackStep == ASSUME LspInv, NEW n \in Notes, Track(n) PROVE LspInv'
  <1>1. PICK s : s = tasks[n] OBVIOUS
  <1>2. TaskOK(s) /\ s.pc = "track" BY <1>1 DEF LspInv, TasksInv, Track, At
  <1> DEFINE u == s.uri
             gone == registry[u] \ s.groups
  <1>3. u \in Uris /\ s.groups \in SUBSET Uris BY <1>2 DEF TaskOK, Publishes, Task
  <1>4. /\ shown' = [f \in Uris |-> IF f \in gone THEN 0 ELSE shown[f]]
        /\ registry' = [registry EXCEPT ![u] = s.groups]
        /\ overlapped' = IF Publishing(u) THEN overlapped \cup {u} ELSE overlapped
        /\ UNCHANGED <<depsVars, documents, editor, count, sent>>
    BY <1>1 DEF Track, Goes, GoesTo
  <1>5. \E t : TaskOK(t)' /\ tasks' = [tasks EXCEPT ![n] = t]
    <2>1. CASE s.groups # {}
      <3>1. PICK t : t = [s EXCEPT !.pc = "others"] OBVIOUS
      <3>2. registry'[u] = s.groups BY <1>3, <1>4 DEF LspInv, StoreInv
      <3>3. TaskOK(t)'
        BY <1>2, <1>3, <1>4, <3>1, <3>2 DEF TaskOK, Task, Pcs, HasText, Publishes, Sent, depsVars
      <3> QED BY <1>1, <2>1, <3>1, <3>3 DEF Track, Goes, GoesTo
    <2>2. CASE s.groups = {}
      <3>1. PICK t \in AfterPublish(tasks[n]) : Goes(n, t) BY <1>1, <2>2 DEF Track
      <3>2. TaskOK(t) /\ t.pc # "others" BY <1>1, <1>2, <3>1, AfterPublishOK DEF Publishes
      <3>3. TaskOK(t)' BY <1>4, <3>2 DEF TaskOK, Sent, depsVars
      <3> QED BY <3>1, <3>3 DEF Goes
    <2> QED BY <2>1, <2>2
  <1>6. ASSUME NEW m \in Notes \ {n}, TaskOK(tasks[m]) PROVE TaskOK(tasks[m])'
    <2>1. tasks'[m] = tasks[m] BY <1>5 DEF LspInv, TasksInv
    <2>2. tasks[m].pc = "others" => tasks[m].uri \in overlapped' \/ tasks[m].groups \subseteq registry'[tasks[m].uri]
      <3>1. CASE tasks[m].uri = u BY <1>4, <3>1 DEF Publishing, At
      <3>2. CASE tasks[m].uri # u BY <1>4, <1>6, <3>2 DEF TaskOK, LspInv, StoreInv
      <3> QED BY <3>1, <3>2
    <2> QED BY <1>4, <1>6, <2>1, <2>2 DEF TaskOK, Sent, depsVars
  <1>7. TasksInv' BY <1>5, <1>6, OneTask DEF LspInv
  <1>8. shown' \in [Uris -> 0 .. count] BY <1>4, ShownType DEF LspInv, StoreInv, Numbers
  <1>9. registry' \in [Uris -> SUBSET Uris] BY <1>3, <1>4, ShownType
  <1>10. NothingForgotten' BY <1>3, <1>4 DEF LspInv, StoreInv, NothingForgotten
  <1> QED BY <1>4, <1>7, <1>8, <1>9, <1>10, OnlyPublished DEF LspInv
-----------------------------------------------------------------------------
\* A notification starts a task; what was sent before stays sent.
LEMMA ReceiveOK ==
  ASSUME LspInv, NEW u, NEW t, Receive(u, t), TaskOK(t)', \A x \in 1 .. count : sent'[x] = sent[x]
  PROVE  TasksInv' /\ count' = count + 1 /\ count + 1 \in Notes /\ count \in Nat
  <1>1. count' = count + 1 /\ count + 1 \in Notes /\ count \in Nat
    BY LspDocumentsAssumption DEF Receive, LspInv, StoreInv, Numbers, Notes
  <1>2. tasks' = [tasks EXCEPT ![count + 1] = t] /\ UNCHANGED <<depsVars, registry, overlapped>> BY DEF Receive
  <1>3. ASSUME NEW m \in Notes, m # count + 1, TaskOK(tasks[m]) PROVE TaskOK(tasks[m])'
    <2>1. tasks'[m] = tasks[m] BY <1>2, <1>3 DEF LspInv, TasksInv
    <2> QED BY <1>1, <1>2, <1>3, <2>1 DEF TaskOK, Sent, depsVars
  <1>4. PICK n : n = count + 1 OBVIOUS
  <1> QED BY <1>1, <1>2, <1>3, <1>4, OneTask DEF LspInv

\* The rest of the state, when the editor has sent an entry of document u.
LEMMA NotifyRest ==
  ASSUME LspInv, UNCHANGED <<depsVars, shown, registry, overlapped>>, count' = count + 1, count + 1 \in Notes, count \in Nat,
         editor' \in [Uris -> [version : Numbers, text : Numbers]],
         \A u \in Uris : editor'[u].version <= count + 1,
         sent' \in [Notes -> [uri : AnyUri, version : Numbers]], \A x \in 1 .. count : sent'[x] = sent[x],
         documents' \in [Uris -> Document],
         \A u \in Uris : \/ documents'[u] = documents[u]
                         \/ documents'[u] = Closed
                         \/ /\ documents'[u].text = count + 1 /\ documents'[u].analysis = documents[u].analysis
                            /\ sent'[count + 1] = [uri |-> u, version |-> documents'[u].version]
  PROVE  StoreInv' /\ Kept'
  <1>1. DepsTypeOK' /\ (deps # NotCached => deps.mtime <= manifest)'
    BY DEF LspInv, StoreInv, DepsTypeOK, depsVars
  <1>2. count' \in Numbers BY DEF Notes, Numbers
  <1>3. ASSUME NEW u \in Uris PROVE /\ documents'[u].text <= count' /\ shown'[u] <= count'
                                    /\ (documents'[u] # Closed => documents'[u].text >= 1)
    <2>1. /\ documents[u].text <= count /\ shown[u] <= count
          /\ documents[u] # Closed => documents[u].text >= 1
          /\ documents[u].text \in Nat /\ shown[u] \in Nat
      BY DEF LspInv, StoreInv, Document, Numbers
    <2>2. CASE documents'[u] = documents[u] BY <2>1, <2>2
    <2>3. CASE documents'[u] = Closed
      <3>1. documents'[u].text = 0 BY <2>3 DEF Closed
      <3> QED BY <2>1, <2>3, <3>1
    <2>4. CASE documents'[u].text = count + 1 BY <2>1, <2>4
    <2> QED BY <2>2, <2>3, <2>4
  <1>4. StoreInv' BY <1>1, <1>2, <1>3 DEF LspInv, StoreInv
  <1>5. ASSUME NEW u \in Uris PROVE /\ documents'[u].analysis <= documents'[u].text
                                    /\ documents'[u] # Closed =>
                                         sent'[documents'[u].text] = [uri |-> u, version |-> documents'[u].version]
    <2>1. /\ documents[u].text <= count /\ documents[u].analysis <= documents[u].text
          /\ documents[u] # Closed => documents[u].text \in 1 .. count
          /\ documents[u].text \in Nat /\ documents[u].analysis \in Nat
          /\ documents[u] # Closed => sent[documents[u].text] = [uri |-> u, version |-> documents[u].version]
      BY DEF LspInv, StoreInv, Document, Numbers, VersionNamesText, AnalysisNeverAhead
    <2> QED BY <2>1 DEF Closed
  <1>6. VersionNamesText' /\ AnalysisNeverAhead' BY <1>5 DEF VersionNamesText, AnalysisNeverAhead
  <1>7. NothingForgotten'
    <2>1. \A f \in Uris : shown[f] # 0 => sent'[shown[f]] = sent[shown[f]]
      BY DEF LspInv, StoreInv, Numbers
    <2> QED BY <2>1 DEF LspInv, NothingForgotten
  <1>8. HitsAreFresh' BY DEF LspInv, HitsAreFresh, CacheHit, depsVars
  <1> QED BY <1>4, <1>6, <1>7, <1>8 DEF Kept
LEMMA OpenStep == ASSUME LspInv, NEW u \in Openable, Open(u) PROVE LspInv'
  <1> DEFINE n == count + 1
  <1>1. u \in Uris BY LspDocumentsAssumption
  <1>2. PICK t : t = [Done EXCEPT !.kind = "open", !.pc = "ask", !.uri = u, !.version = 1, !.text = n] OBVIOUS
  <1>3. n \in Notes /\ n \in Numbers /\ 1 \in Numbers /\ count' = n
    BY LspDocumentsAssumption DEF Open, Receive, LspInv, StoreInv, Notes, Numbers
  <1>4. sent' = [sent EXCEPT ![n] = [uri |-> u, version |-> 1]] BY DEF Open, Sends
  <1>5. sent' \in [Notes -> [uri : AnyUri, version : Numbers]] /\ \A x \in 1 .. count : sent'[x] = sent[x]
    BY <1>1, <1>3, <1>4 DEF LspInv, StoreInv, AnyUri, Notes, Numbers
  <1>6. sent'[n] = [uri |-> u, version |-> 1] BY <1>3, <1>4 DEF LspInv, StoreInv
  <1>7. TaskOK(t)'
    <2>1. t \in Task BY <1>1, <1>2, <1>3, DoneOK DEF TaskOK, Task, Pcs, AnyUri
    <2>2. /\ t.pc = "ask" /\ t.kind = "open" /\ t.uri = u /\ t.text = n /\ t.version = 1 /\ t.todo = {}
      BY <1>2 DEF Done
    <2> QED BY <1>1, <1>3, <1>6, <2>1, <2>2 DEF TaskOK, HasText, Publishes, Sent, Notes
  <1>8. editor' = [editor EXCEPT ![u] = [version |-> 1, text |-> n]] BY DEF Open, Sends
  <1>9. TasksInv' /\ count \in Nat
    <2>1. Receive(u, t) BY <1>2 DEF Open
    <2> QED BY <1>5, <1>7, <2>1, ReceiveOK
  <1>10. editor' \in [Uris -> [version : Numbers, text : Numbers]] BY <1>3, <1>8 DEF LspInv, StoreInv
  <1>11. \A v \in Uris : editor'[v].version <= n
    BY <1>3, <1>8, <1>9 DEF LspInv, StoreInv, Numbers
  <1>12. UNCHANGED <<depsVars, documents, shown, registry, overlapped>> BY DEF Open, Receive
  <1>13. StoreInv' /\ Kept'
    BY <1>3, <1>5, <1>9, <1>10, <1>11, <1>12, NotifyRest DEF LspInv, StoreInv
  <1> QED BY <1>9, <1>13 DEF LspInv, Kept

LEMMA ChangeStep == ASSUME LspInv, NEW u \in Openable, Change(u) PROVE LspInv'
  <1> DEFINE n == count + 1
  <1>1. u \in Uris BY LspDocumentsAssumption
  <1>2. PICK v : v = editor[u].version + 1 OBVIOUS
  <1>3. n \in Notes /\ n \in Numbers /\ count \in Nat /\ count' = n
    BY LspDocumentsAssumption DEF Change, Receive, LspInv, StoreInv, Notes, Numbers
  <1>4. v \in Numbers /\ v >= 1 /\ v <= n
    <2>1. PICK e : e = editor[u].version OBVIOUS
    <2>2. e \in Numbers /\ e <= count BY <1>1, <2>1 DEF LspInv, StoreInv
    <2>3. e \in Nat /\ v = e + 1 /\ count + 1 <= MaxNotes /\ MaxNotes \in Nat
      BY <1>2, <1>3, <2>1, <2>2, LspDocumentsAssumption DEF Numbers
    <2> QED BY <1>3, <2>2, <2>3 DEF Numbers
  <1>5. PICK t : t = [Done EXCEPT !.kind = "change", !.pc = "sleep", !.uri = u, !.version = v] OBVIOUS
  <1>6. TaskOK(t)'
    <2>1. t \in Task BY <1>1, <1>4, <1>5, DoneOK DEF TaskOK, Task, Pcs, AnyUri
    <2>2. t.pc = "sleep" /\ t.kind = "change" /\ t.uri = u /\ t.version = v /\ t.todo = {} BY <1>5 DEF Done
    <2> QED BY <1>1, <1>4, <2>1, <2>2 DEF TaskOK, HasText, Publishes
  <1>7. sent' = [sent EXCEPT ![n] = [uri |-> u, version |-> v]] BY <1>2 DEF Change, Sends
  <1>8. sent' \in [Notes -> [uri : AnyUri, version : Numbers]] /\ \A x \in 1 .. count : sent'[x] = sent[x]
    BY <1>1, <1>3, <1>4, <1>7 DEF LspInv, StoreInv, AnyUri, Notes
  <1>9. sent'[n] = [uri |-> u, version |-> v] BY <1>3, <1>7 DEF LspInv, StoreInv
  <1>10. TasksInv'
    <2>1. Receive(u, t) BY <1>2, <1>5 DEF Change
    <2> QED BY <1>6, <1>8, <2>1, ReceiveOK
  <1>11. editor' = [editor EXCEPT ![u] = [version |-> v, text |-> n]] BY <1>2 DEF Change, Sends
  <1>12. editor' \in [Uris -> [version : Numbers, text : Numbers]] BY <1>3, <1>4, <1>11 DEF LspInv, StoreInv
  <1>13. \A w \in Uris : editor'[w].version <= n
    BY <1>3, <1>4, <1>11 DEF LspInv, StoreInv, Numbers
  <1>14. documents' = [documents EXCEPT ![u] = [version |-> v, text |-> n, analysis |-> documents[u].analysis]]
    BY <1>2 DEF Change
  <1>15. documents' \in [Uris -> Document] BY <1>1, <1>3, <1>4, <1>14 DEF LspInv, StoreInv, Document
  <1>16. \A w \in Uris : \/ documents'[w] = documents[w]
                         \/ /\ documents'[w].text = n /\ documents'[w].analysis = documents[w].analysis
                            /\ sent'[n] = [uri |-> w, version |-> documents'[w].version]
    BY <1>1, <1>9, <1>14 DEF LspInv, StoreInv
  <1>17. UNCHANGED <<depsVars, shown, registry, overlapped>> BY DEF Change, Receive
  <1>18. StoreInv' /\ Kept'
    BY <1>3, <1>8, <1>12, <1>13, <1>15, <1>16, <1>17, NotifyRest
  <1> QED BY <1>10, <1>18 DEF LspInv, Kept

LEMMA CloseStep == ASSUME LspInv, NEW u \in Openable, Close(u) PROVE LspInv'
  <1> DEFINE n == count + 1
  <1>1. u \in Uris BY LspDocumentsAssumption
  <1>2. PICK t : t = [Done EXCEPT !.kind = "close", !.pc = "clear", !.uri = u] OBVIOUS
  <1>3. n \in Notes /\ 0 \in Numbers /\ count \in Nat /\ count' = n
    BY LspDocumentsAssumption DEF Close, Receive, LspInv, StoreInv, Notes, Numbers
  <1>4. TaskOK(t)'
    <2>1. t \in Task BY <1>1, <1>2, DoneOK DEF TaskOK, Task, Pcs, AnyUri
    <2>2. t.pc = "clear" /\ t.kind = "close" /\ t.uri = u /\ t.todo = {} BY <1>2 DEF Done
    <2> QED BY <1>1, <2>1, <2>2 DEF TaskOK, HasText, Publishes
  <1>5. sent' = [sent EXCEPT ![n] = [uri |-> u, version |-> 0]] BY DEF Close
  <1>6. sent' \in [Notes -> [uri : AnyUri, version : Numbers]] /\ \A x \in 1 .. count : sent'[x] = sent[x]
    BY <1>1, <1>3, <1>5 DEF LspInv, StoreInv, AnyUri, Notes
  <1>7. TasksInv'
    <2>1. Receive(u, t) BY <1>2 DEF Close
    <2> QED BY <1>4, <1>6, <2>1, ReceiveOK
  <1>8. editor' = [editor EXCEPT ![u] = NotOpen] /\ documents' = [documents EXCEPT ![u] = Closed] BY DEF Close
  <1>9. editor' \in [Uris -> [version : Numbers, text : Numbers]]
    BY <1>3, <1>8 DEF LspInv, StoreInv, NotOpen
  <1>10. \A w \in Uris : editor'[w].version <= n
    BY <1>3, <1>8 DEF LspInv, StoreInv, Numbers, NotOpen
  <1>11. documents' \in [Uris -> Document] BY <1>3, <1>8 DEF LspInv, StoreInv, Document, Closed
  <1>12. \A w \in Uris : documents'[w] = documents[w] \/ documents'[w] = Closed BY <1>8 DEF LspInv, StoreInv
  <1>13. UNCHANGED <<depsVars, shown, registry, overlapped>> BY DEF Close, Receive
  <1>14. StoreInv' /\ Kept' BY <1>3, <1>6, <1>9, <1>10, <1>11, <1>12, <1>13, NotifyRest
  <1> QED BY <1>7, <1>14 DEF LspInv, Kept

LEMMA WatchStep == ASSUME LspInv, NEW rounds \in Rounds, Watch(rounds) PROVE LspInv'
  <1> DEFINE n == count + 1
  <1>1. PICK t : t = [Done EXCEPT !.kind = "watch", !.pc = "round", !.rounds = rounds] OBVIOUS
  <1>2. rounds \in Seq({"manifest", "sources"}) BY LspDocumentsAssumption
  <1>3. n \in Notes /\ count \in Nat /\ count' = n
    BY LspDocumentsAssumption DEF Watch, Receive, LspInv, StoreInv, Notes, Numbers
  <1>4. TaskOK(t)'
    <2>1. t \in Task BY <1>1, <1>2, DoneOK DEF TaskOK, Task, Pcs
    <2>2. t.pc = "round" /\ t.kind = "watch" /\ t.todo = {} BY <1>1 DEF Done
    <2> QED BY <2>1, <2>2 DEF TaskOK, HasText, Publishes
  <1>5. UNCHANGED <<editor, documents, sent, depsVars, shown, registry, overlapped>> BY DEF Watch, Receive
  <1>6. TasksInv'
    <2>1. Receive("none", t) BY <1>1 DEF Watch
    <2> QED BY <1>4, <1>5, <2>1, ReceiveOK
  <1>7. \A w \in Uris : editor'[w].version <= n BY <1>3, <1>5 DEF LspInv, StoreInv, Numbers
  <1>8. StoreInv' /\ Kept' BY <1>3, <1>5, <1>7, NotifyRest DEF LspInv, StoreInv
  <1> QED BY <1>6, <1>8 DEF LspInv, Kept

-----------------------------------------------------------------------------
LEMMA SaveStep == ASSUME LspInv, SaveManifest PROVE LspInv'
  <1>1. /\ manifest' = manifest + 1 /\ manifest < MaxManifest /\ deps' = deps /\ UNCHANGED docVars
        /\ raced' = \E n \in Notes : tasks[n].pc \in {"zora", "store"}
    BY DEF SaveManifest, Save
  <1>2. manifest \in Manifests /\ manifest \in Nat /\ manifest + 1 \in Manifests
    BY <1>1, LspDepsAssumption DEF LspInv, StoreInv, DepsTypeOK, Manifests
  <1>3. ASSUME NEW n \in Notes PROVE TaskOK(tasks[n])'
    BY <1>1 DEF LspInv, TasksInv, TaskOK, Sent, docVars
  <1>4. TasksInv' BY <1>1, <1>3 DEF LspInv, TasksInv, docVars
  <1>5. deps # NotCached => deps.mtime \in Manifests BY DEF LspInv, StoreInv, DepsTypeOK
  <1>6. deps # NotCached => deps.mtime < manifest'
    BY <1>1, <1>2, <1>5 DEF LspInv, StoreInv, Manifests
  <1>7. DepsTypeOK'
    <2>1. raced' \in BOOLEAN BY <1>1
    <2> QED BY <1>1, <1>2, <2>1 DEF LspInv, StoreInv, DepsTypeOK
  <1>8. (deps # NotCached => deps.mtime <= manifest)' BY <1>1, <1>2, <1>5, <1>6 DEF Manifests
  <1>9. StoreInv' BY <1>1, <1>7, <1>8 DEF LspInv, StoreInv, docVars
  <1>10. ~CacheHit' BY <1>1, <1>2, <1>5, <1>6 DEF CacheHit, Manifests
  <1> QED BY <1>1, <1>4, <1>9, <1>10
          DEF LspInv, VersionNamesText, AnalysisNeverAhead, NothingForgotten, HitsAreFresh, docVars

LEMMA LspStep == ASSUME LspInv, [Next]_vars PROVE LspInv'
  <1>1. CASE UNCHANGED vars
    <2>1. TasksInv' BY <1>1 DEF vars, docVars, depsVars, LspInv, TasksInv, TaskOK, Sent
    <2> QED BY <1>1, <2>1, OnlyTasks DEF vars, docVars, LspInv, Kept
  <1>2. CASE Notify BY <1>2, OpenStep, ChangeStep, CloseStep, WatchStep DEF Notify
  <1>3. CASE SaveManifest BY <1>3, SaveStep
  <1>4. ASSUME NEW n \in Notes, Step(n) PROVE LspInv'
    BY <1>4, WakeStep, RoundStep, AskStep, ZoraStep, CacheStep, SnapshotStep, WriteBackStep,
       PublishOwnStep, TrackStep, PublishOthersStep, ClearStep DEF Step
  <1> QED BY <1>1, <1>2, <1>3, <1>4 DEF Next

LEMMA LspInvariant == Spec => []LspInv
  BY LspStart, LspStep, PTL DEF Spec

\* The version of an entry is the one its text was sent with, whatever task
\* wrote it (backend.rs did_open, did_change, did_change_watched_files).
THEOREM LspVersionNamesText == Spec => []VersionNamesText
  <1>1. LspInv => VersionNamesText BY DEF LspInv
  <1> QED BY <1>1, LspInvariant, PTL

\* No entry pairs a text with the analysis of a later one.
THEOREM LspAnalysisNeverAhead == Spec => []AnalysisNeverAhead
  <1>1. LspInv => AnalysisNeverAhead BY DEF LspInv
  <1> QED BY <1>1, LspInvariant, PTL

\* Diagnostics on another file are registered with the document whose check
\* reported them, unless two publications of that document overlapped
\* (publish_event and project_diagnostics).
THEOREM LspNothingForgotten == Spec => []NothingForgotten
  <1>1. LspInv => NothingForgotten BY DEF LspInv
  <1> QED BY <1>1, LspInvariant, PTL

\* A cache hit hands out the packages of the manifests on disk, unless these
\* were saved while a map was being computed (zora.rs, packages_for_cache).
THEOREM LspHitsAreFresh == Spec => []HitsAreFresh
  <1>1. LspInv => HitsAreFresh BY DEF LspInv
  <1> QED BY <1>1, LspInvariant, PTL

-----------------------------------------------------------------------------
(* The order in which a script takes and drops guards *)

\* The guards a handler holds: read guards of a lock counted, write guards a set.
NoGuards == [l \in Locks |-> 0]
OnlyDocuments(r, w) == w = {} /\ \A l \in Locks \ {"documents"} : r[l] = 0

\* One step of a script from the guards r, w to s, x: who asks for a guard holds
\* only read guards of the documents, and no guard of the lock it wants to write.
Takes(r, w, step, s, x) ==
  /\ step \in [op : {"read", "write", "drop"}, lock : Locks]
  /\ step.op = "read" =>
       OnlyDocuments(r, w) /\ s = [r EXCEPT ![step.lock] = @ + 1] /\ x = w
  /\ step.op = "write" =>
       OnlyDocuments(r, w) /\ r[step.lock] = 0 /\ s = r /\ x = {step.lock}
  /\ step.op = "drop" =>
       IF step.lock \in w THEN s = r /\ x = w \ {step.lock}
       ELSE r[step.lock] > 0 /\ s = [r EXCEPT ![step.lock] = @ - 1] /\ x = w

\* r and w are the guards held after each of the steps of s.
Tracks(r, w, s) ==
  /\ r \in [0 .. Len(s) -> [Locks -> Nat]] /\ w \in [0 .. Len(s) -> SUBSET Locks]
  /\ r[0] = NoGuards /\ r[Len(s)] = NoGuards /\ w[0] = {} /\ w[Len(s)] = {}
  /\ \A n \in 1 .. Len(s) : Takes(r[n - 1], w[n - 1], s[n], r[n], w[n])

Script(s) == s \in Seq([op : {"read", "write", "drop"}, lock : Locks])
Disciplined(s) == Script(s) /\ \E r, w : Tracks(r, w, s)

\* What may be done under a read guard of the documents.
NoDocumentsWrite(s) == \A n \in 1 .. Len(s) : s[n] # Write("documents")

LEMMA ReadingDisciplined ==
  ASSUME NEW l \in Locks
  PROVE  Disciplined(Reading(l)) /\ NoDocumentsWrite(Reading(l))
<1> DEFINE s == Reading(l)
           r == [n \in 0 .. 2 |-> IF n = 1 THEN [NoGuards EXCEPT ![l] = 1] ELSE NoGuards]
           w == [n \in 0 .. 2 |-> {}]
<1>1. Script(s) /\ Len(s) = 2 /\ s[1] = Read(l) /\ s[2] = Drop(l)
  BY DEF Reading, Script, Read, Drop
<1>2. [NoGuards EXCEPT ![l] = 1] \in [Locks -> Nat] /\ NoGuards \in [Locks -> Nat]
  BY DEF NoGuards
<1>3. r \in [0 .. 2 -> [Locks -> Nat]] /\ r[0] = NoGuards /\ r[1] = [NoGuards EXCEPT ![l] = 1] /\ r[2] = NoGuards
  BY <1>2
<1>4. w \in [0 .. 2 -> SUBSET Locks] /\ w[0] = {} /\ w[1] = {} /\ w[2] = {}
  OBVIOUS
<1> HIDE DEF s, r, w
<1>5. Takes(r[0], w[0], s[1], r[1], w[1])
  BY <1>1, <1>3, <1>4 DEF Takes, OnlyDocuments, NoGuards, Read
<1>6. Takes(r[1], w[1], s[2], r[2], w[2])
  BY <1>1, <1>3, <1>4 DEF Takes, OnlyDocuments, NoGuards, Drop
<1>7. \A n \in 1 .. Len(s) : Takes(r[n - 1], w[n - 1], s[n], r[n], w[n])
  <2> TAKE n \in 1 .. Len(s)
  <2>1. n = 1 \/ n = 2
    BY <1>1
  <2> QED
    BY <1>5, <1>6, <2>1
<1>8. Tracks(r, w, s)
  BY <1>1, <1>3, <1>4, <1>7 DEF Tracks
<1>9. NoDocumentsWrite(s)
  BY <1>1 DEF NoDocumentsWrite, Read, Write, Drop
<1> QED
  BY <1>1, <1>8, <1>9 DEF Disciplined, s

LEMMA WritingDisciplined ==
  ASSUME NEW l \in Locks
  PROVE  Disciplined(Writing(l)) /\ (l # "documents" => NoDocumentsWrite(Writing(l)))
<1> DEFINE s == Writing(l)
           r == [n \in 0 .. 2 |-> NoGuards]
           w == [n \in 0 .. 2 |-> IF n = 1 THEN {l} ELSE {}]
<1>1. Script(s) /\ Len(s) = 2 /\ s[1] = Write(l) /\ s[2] = Drop(l)
  BY DEF Writing, Script, Write, Drop
<1>2. NoGuards \in [Locks -> Nat]
  BY DEF NoGuards
<1>3. r \in [0 .. 2 -> [Locks -> Nat]] /\ r[0] = NoGuards /\ r[1] = NoGuards /\ r[2] = NoGuards
  BY <1>2
<1>4. w \in [0 .. 2 -> SUBSET Locks] /\ w[0] = {} /\ w[1] = {l} /\ w[2] = {}
  OBVIOUS
<1> HIDE DEF s, r, w
<1>5. Takes(r[0], w[0], s[1], r[1], w[1])
  BY <1>1, <1>3, <1>4 DEF Takes, OnlyDocuments, NoGuards, Write
<1>6. Takes(r[1], w[1], s[2], r[2], w[2])
  BY <1>1, <1>3, <1>4 DEF Takes, OnlyDocuments, NoGuards, Drop
<1>7. \A n \in 1 .. Len(s) : Takes(r[n - 1], w[n - 1], s[n], r[n], w[n])
  <2> TAKE n \in 1 .. Len(s)
  <2>1. n = 1 \/ n = 2
    BY <1>1
  <2> QED
    BY <1>5, <1>6, <2>1
<1>8. Tracks(r, w, s)
  BY <1>1, <1>3, <1>4, <1>7 DEF Tracks
<1>9. l # "documents" => NoDocumentsWrite(s)
  BY <1>1 DEF NoDocumentsWrite, Write, Drop
<1> QED
  BY <1>1, <1>8, <1>9 DEF Disciplined, s

LEMMA Joining ==
  ASSUME NEW S, NEW s \in Seq(S), NEW t \in Seq(S)
  PROVE  /\ s \o t \in Seq(S) /\ Len(s \o t) = Len(s) + Len(t) /\ Len(s) \in Nat /\ Len(t) \in Nat
         /\ \A n \in 1 .. Len(s) : (s \o t)[n] = s[n]
         /\ \A n \in 1 .. Len(t) : (s \o t)[Len(s) + n] = t[n]
<1>1. Len(s) \in Nat /\ Len(t) \in Nat
  OBVIOUS
<1>2. s \o t \in Seq(S) /\ Len(s \o t) = Len(s) + Len(t)
  BY ConcatProperties
<1>3. \A n \in 1 .. Len(s) + Len(t) : (s \o t)[n] = IF n <= Len(s) THEN s[n] ELSE t[n - Len(s)]
  BY ConcatProperties
<1>4. \A n \in 1 .. Len(s) : (s \o t)[n] = s[n]
  BY <1>1, <1>3
<1>5. ASSUME NEW n \in 1 .. Len(t) PROVE (s \o t)[Len(s) + n] = t[n]
  <2>1. Len(s) + n \in 1 .. Len(s) + Len(t) /\ ~(Len(s) + n <= Len(s)) /\ Len(s) + n - Len(s) = n
    BY <1>1
  <2> QED
    BY <1>3, <2>1
<1> QED
  BY <1>1, <1>2, <1>4, <1>5

\* One disciplined script after another is one.
LEMMA SequelDisciplined ==
  ASSUME NEW s, Disciplined(s), NEW t, Disciplined(t)
  PROVE  /\ Disciplined(s \o t)
         /\ NoDocumentsWrite(s) /\ NoDocumentsWrite(t) => NoDocumentsWrite(s \o t)
<1>1. PICK r, w : Tracks(r, w, s)
  BY DEF Disciplined
<1>2. PICK q, v : Tracks(q, v, t)
  BY DEF Disciplined
<1>3. PICK u : u = s \o t
  OBVIOUS
<1>4. PICK m \in Nat : m = Len(s)
  BY LenProperties DEF Disciplined, Script
<1>5. PICK k \in Nat : k = Len(t)
  BY LenProperties DEF Disciplined, Script
<1>6. /\ Script(u) /\ Len(u) = m + k
      /\ \A n \in 1 .. m : u[n] = s[n]
      /\ \A n \in 1 .. k : u[m + n] = t[n]
  BY <1>3, <1>4, <1>5, Joining DEF Disciplined, Script
<1> DEFINE x == [n \in 0 .. m + k |-> IF n <= m THEN r[n] ELSE q[n - m]]
           y == [n \in 0 .. m + k |-> IF n <= m THEN w[n] ELSE v[n - m]]
<1>7. /\ r \in [0 .. m -> [Locks -> Nat]] /\ q \in [0 .. k -> [Locks -> Nat]]
      /\ w \in [0 .. m -> SUBSET Locks] /\ v \in [0 .. k -> SUBSET Locks]
      /\ r[0] = NoGuards /\ r[m] = NoGuards /\ q[0] = NoGuards /\ q[k] = NoGuards
      /\ w[0] = {} /\ w[m] = {} /\ v[0] = {} /\ v[k] = {}
  BY <1>1, <1>2, <1>4, <1>5 DEF Tracks
<1>8. /\ x \in [0 .. m + k -> [Locks -> Nat]] /\ y \in [0 .. m + k -> SUBSET Locks]
      /\ \A n \in 0 .. m : x[n] = r[n] /\ y[n] = w[n]
      /\ \A n \in 0 .. k : x[m + n] = q[n] /\ y[m + n] = v[n]
  <2>1. ASSUME NEW n \in 0 .. m + k
        PROVE  /\ n <= m => n \in 0 .. m
               /\ ~(n <= m) => n - m \in 0 .. k
    OBVIOUS
  <2>2. x \in [0 .. m + k -> [Locks -> Nat]] /\ y \in [0 .. m + k -> SUBSET Locks]
    BY <1>7, <2>1
  <2>3. \A n \in 0 .. m : x[n] = r[n] /\ y[n] = w[n]
    OBVIOUS
  <2>4. ASSUME NEW n \in 0 .. k PROVE x[m + n] = q[n] /\ y[m + n] = v[n]
    <3>1. m + n \in 0 .. m + k /\ m + n - m = n
      OBVIOUS
    <3>2. CASE n = 0
      <4>1. m + n = m /\ m \in 0 .. m
        BY <3>2
      <4>2. x[m] = r[m] /\ y[m] = w[m]
        BY <2>3, <4>1
      <4>3. x[m + n] = NoGuards /\ y[m + n] = {}
        BY <1>7, <4>1, <4>2
      <4> QED
        BY <1>7, <3>2, <4>3
    <3>3. CASE n # 0
      <4>1. ~(m + n <= m)
        BY <3>3
      <4> QED
        BY <3>1, <4>1
    <3> QED
      BY <3>2, <3>3
  <2> QED
    BY <2>2, <2>3, <2>4
<1> HIDE DEF x, y
<1>9. ASSUME NEW n \in 1 .. m + k PROVE Takes(x[n - 1], y[n - 1], u[n], x[n], y[n])
  <2>1. CASE n <= m
    <3>1. n \in 1 .. m /\ n \in 0 .. m /\ n - 1 \in 0 .. m
      BY <2>1
    <3>2. Takes(r[n - 1], w[n - 1], s[n], r[n], w[n])
      BY <1>1, <1>4, <3>1 DEF Tracks
    <3> QED
      BY <1>6, <1>8, <3>1, <3>2
  <2>2. CASE ~(n <= m)
    <3>1. PICK j \in 1 .. k : n = m + j
      <4>1. n - m \in 1 .. k /\ n = m + (n - m)
        BY <2>2
      <4> QED
        BY <4>1
    <3>2. j \in 0 .. k /\ j - 1 \in 0 .. k /\ n - 1 = m + (j - 1)
      BY <3>1
    <3>3. Takes(q[j - 1], v[j - 1], t[j], q[j], v[j])
      BY <1>2, <1>5, <3>1 DEF Tracks
    <3>4. x[n - 1] = q[j - 1] /\ y[n - 1] = v[j - 1] /\ x[n] = q[j] /\ y[n] = v[j] /\ u[n] = t[j]
      BY <1>6, <1>8, <3>1, <3>2
    <3> QED
      BY <3>3, <3>4
  <2> QED
    BY <2>1, <2>2
<1>10. x[0] = NoGuards /\ y[0] = {} /\ x[m + k] = NoGuards /\ y[m + k] = {}
  BY <1>7, <1>8
<1>11. Tracks(x, y, u)
  BY <1>6, <1>8, <1>9, <1>10 DEF Tracks
<1>12. ASSUME NoDocumentsWrite(s), NoDocumentsWrite(t) PROVE NoDocumentsWrite(u)
  <2> SUFFICES ASSUME NEW n \in 1 .. m + k PROVE u[n] # Write("documents")
    BY <1>6 DEF NoDocumentsWrite
  <2>1. CASE n <= m
    BY <1>4, <1>6, <1>12, <2>1 DEF NoDocumentsWrite
  <2>2. CASE ~(n <= m)
    <3>1. n - m \in 1 .. k /\ n = m + (n - m)
      BY <2>2
    <3> QED
      BY <1>5, <1>6, <1>12, <3>1 DEF NoDocumentsWrite
  <2> QED
    BY <2>1, <2>2
<1> QED
  BY <1>3, <1>6, <1>11, <1>12 DEF Disciplined

\* A script run under a read guard of the documents, which it does not write.
LEMMA HoldingDisciplined ==
  ASSUME NEW body, Disciplined(body), NoDocumentsWrite(body)
  PROVE  Disciplined(HoldingRead("documents", body))
<1> DEFINE Plus(f) == [f EXCEPT !["documents"] = @ + 1]
<1>1. PICK q, v : Tracks(q, v, body)
  BY DEF Disciplined
<1>2. PICK k \in Nat : k = Len(body)
  BY LenProperties DEF Disciplined, Script
<1>3. PICK u : u = HoldingRead("documents", body)
  OBVIOUS
<1>4. /\ Script(u) /\ Len(u) = k + 2 /\ u[1] = Read("documents") /\ u[k + 2] = Drop("documents")
      /\ \A n \in 1 .. k : u[n + 1] = body[n]
  <2> DEFINE R == [op : {"read", "write", "drop"}, lock : Locks]
             first == <<Read("documents")>>
             final == <<Drop("documents")>>
  <2>1. first \in Seq(R) /\ Len(first) = 1 /\ first[1] = Read("documents")
    BY DEF Read, Locks
  <2>2. final \in Seq(R) /\ Len(final) = 1 /\ final[1] = Drop("documents")
    BY DEF Drop, Locks
  <2>3. body \in Seq(R) /\ u = (first \o body) \o final
    BY <1>3 DEF Disciplined, Script, HoldingRead
  <2> HIDE DEF R, first, final
  <2>4. PICK f : f = first \o body
    OBVIOUS
  <2>5. /\ f \in Seq(R) /\ Len(f) = k + 1 /\ f[1] = Read("documents")
        /\ \A n \in 1 .. k : f[n + 1] = body[n]
    <3>1. /\ first \o body \in Seq(R)
          /\ Len(first \o body) = Len(first) + Len(body)
          /\ \A n \in 1 .. Len(first) : (first \o body)[n] = first[n]
          /\ \A n \in 1 .. Len(body) : (first \o body)[Len(first) + n] = body[n]
      <4>1. PICK P, a, b : P = R /\ a = first /\ b = body
        OBVIOUS
      <4>2. a \in Seq(P) /\ b \in Seq(P)
        BY <2>1, <2>3, <4>1
      <4>3. /\ a \o b \in Seq(P)
            /\ Len(a \o b) = Len(a) + Len(b)
            /\ \A n \in 1 .. Len(a) : (a \o b)[n] = a[n]
            /\ \A n \in 1 .. Len(b) : (a \o b)[Len(a) + n] = b[n]
        BY <4>2, Joining
      <4> QED
        BY <4>1, <4>3
    <3>2. f \in Seq(R) /\ Len(f) = 1 + k /\ \A n \in 1 .. 1 : f[n] = first[n]
      BY <1>2, <2>1, <2>4, <3>1
    <3>3. \A n \in 1 .. k : f[1 + n] = body[n]
      BY <1>2, <2>1, <2>4, <3>1
    <3>4. f[1] = Read("documents")
      BY <2>1, <3>2
    <3>5. \A n \in 1 .. k : f[n + 1] = body[n]
      <4> TAKE n \in 1 .. k
      <4>1. f[1 + n] = body[n] /\ 1 + n = n + 1
        BY <3>3
      <4> QED
        BY <4>1
    <3> QED
      BY <3>2, <3>4, <3>5
  <2>6. /\ u \in Seq(R) /\ Len(u) = k + 2 /\ u[k + 1 + 1] = Drop("documents")
        /\ \A n \in 1 .. k + 1 : u[n] = f[n]
    <3>1. 1 \in 1 .. 1
      OBVIOUS
    <3> QED
      BY <1>2, <2>2, <2>3, <2>4, <2>5, <3>1, Joining
  <2>7. k + 1 + 1 = k + 2 /\ \A n \in 1 .. k : n + 1 \in 1 .. k + 1
    OBVIOUS
  <2> QED
    BY <2>5, <2>6, <2>7 DEF Script, R
<1> DEFINE x == [n \in 0 .. k + 2 |-> IF n \in 1 .. k + 1 THEN Plus(q[n - 1]) ELSE NoGuards]
           y == [n \in 0 .. k + 2 |-> IF n \in 1 .. k + 1 THEN v[n - 1] ELSE {}]
<1>5. /\ q \in [0 .. k -> [Locks -> Nat]] /\ v \in [0 .. k -> SUBSET Locks]
      /\ q[0] = NoGuards /\ q[k] = NoGuards /\ v[0] = {} /\ v[k] = {}
      /\ \A n \in 1 .. k : Takes(q[n - 1], v[n - 1], body[n], q[n], v[n])
  BY <1>1, <1>2 DEF Tracks
<1>6. "documents" \in Locks /\ NoGuards \in [Locks -> Nat]
  BY DEF Locks, NoGuards
<1>7. \A f \in [Locks -> Nat] : Plus(f) \in [Locks -> Nat]
  BY <1>6
<1>8. /\ x \in [0 .. k + 2 -> [Locks -> Nat]] /\ y \in [0 .. k + 2 -> SUBSET Locks]
      /\ \A n \in 0 .. k : x[n + 1] = Plus(q[n]) /\ y[n + 1] = v[n]
      /\ x[0] = NoGuards /\ x[k + 2] = NoGuards /\ y[0] = {} /\ y[k + 2] = {}
  <2>1. \A n \in 0 .. k + 2 : n \in 1 .. k + 1 => n - 1 \in 0 .. k
    OBVIOUS
  <2>2. \A n \in 0 .. k : n + 1 \in 0 .. k + 2 /\ n + 1 \in 1 .. k + 1 /\ n + 1 - 1 = n
    OBVIOUS
  <2>3. \A n \in 0 .. k + 2 : x[n] \in [Locks -> Nat] /\ y[n] \in SUBSET Locks
    <3> HIDE DEF Plus
    <3> QED
      BY <1>5, <1>6, <1>7, <2>1
  <2>4. x \in [0 .. k + 2 -> [Locks -> Nat]] /\ y \in [0 .. k + 2 -> SUBSET Locks]
    BY <2>3
  <2>5. \A n \in 0 .. k : x[n + 1] = Plus(q[n]) /\ y[n + 1] = v[n]
    <3> HIDE DEF Plus
    <3> QED
      BY <2>2
  <2>6. x[0] = NoGuards /\ x[k + 2] = NoGuards /\ y[0] = {} /\ y[k + 2] = {}
    OBVIOUS
  <2> QED
    BY <2>4, <2>5, <2>6
<1> HIDE DEF x, y
<1>9. \A l \in Locks : Plus(NoGuards)[l] = IF l = "documents" THEN 1 ELSE 0
  BY <1>6 DEF NoGuards
<1>10. Takes(x[0], y[0], u[1], x[1], y[1])
  <2>1. 0 \in 0 .. k /\ 0 + 1 = 1
    OBVIOUS
  <2>2. x[1] = Plus(NoGuards) /\ y[1] = {}
    BY <1>5, <1>8, <2>1
  <2> QED
    BY <1>4, <1>6, <1>8, <2>2 DEF Takes, OnlyDocuments, NoGuards, Read
<1>11. Takes(x[k + 1], y[k + 1], u[k + 2], x[k + 2], y[k + 2])
  <2>1. k \in 0 .. k
    OBVIOUS
  <2>2. x[k + 1] = Plus(NoGuards) /\ y[k + 1] = {}
    BY <1>5, <1>8, <2>1
  <2>3. [Plus(NoGuards) EXCEPT !["documents"] = @ - 1] = NoGuards /\ Plus(NoGuards)["documents"] > 0
    BY <1>6 DEF NoGuards
  <2> QED
    BY <1>4, <1>6, <1>8, <2>2, <2>3 DEF Takes, Drop
<1>12. ASSUME NEW n \in 1 .. k
       PROVE  Takes(x[n], y[n], u[n + 1], x[n + 1], y[n + 1])
  <2>1. n \in 0 .. k /\ n - 1 \in 0 .. k /\ n - 1 + 1 = n
    OBVIOUS
  <2>2. /\ x[n] = Plus(q[n - 1]) /\ y[n] = v[n - 1] /\ x[n + 1] = Plus(q[n]) /\ y[n + 1] = v[n]
        /\ u[n + 1] = body[n]
    BY <1>4, <1>8, <2>1
  <2>3. PICK a, b, c, d, step : /\ a = q[n - 1] /\ b = v[n - 1] /\ c = q[n] /\ d = v[n] /\ step = body[n]
                                /\ a \in [Locks -> Nat] /\ c \in [Locks -> Nat]
    BY <1>5, <2>1
  <2>4. Takes(a, b, step, c, d) /\ step # Write("documents")
    BY <1>2, <1>5, <2>3 DEF NoDocumentsWrite
  <2>5. Takes(Plus(a), b, step, Plus(c), d)
    <3>1. step \in [op : {"read", "write", "drop"}, lock : Locks] /\ step.lock \in Locks
      BY <2>4 DEF Takes
    <3>2. OnlyDocuments(a, b) => OnlyDocuments(Plus(a), b)
      BY <1>6, <2>3 DEF OnlyDocuments
    <3>3. CASE step.op = "read"
      <4>1. c = [a EXCEPT ![step.lock] = @ + 1] /\ d = b /\ OnlyDocuments(a, b)
        BY <2>4, <3>3 DEF Takes
      <4>2. Plus(c) = [Plus(a) EXCEPT ![step.lock] = @ + 1]
        BY <1>6, <2>3, <3>1, <4>1
      <4> QED
        BY <3>1, <3>2, <3>3, <4>1, <4>2 DEF Takes
    <3>4. CASE step.op = "write"
      <4>1. OnlyDocuments(a, b) /\ a[step.lock] = 0 /\ c = a /\ d = {step.lock}
        BY <2>4, <3>4 DEF Takes
      <4>2. step.lock # "documents"
        BY <2>4, <3>1, <3>4 DEF Write
      <4>3. Plus(a)[step.lock] = 0
        BY <1>6, <2>3, <3>1, <4>1, <4>2
      <4> QED
        BY <3>1, <3>2, <3>4, <4>1, <4>3 DEF Takes
    <3>5. CASE step.op = "drop"
      <4>1. CASE step.lock \in b
        BY <2>4, <3>1, <3>5, <4>1 DEF Takes
      <4>2. CASE step.lock \notin b
        <5>1. a[step.lock] > 0 /\ c = [a EXCEPT ![step.lock] = @ - 1] /\ d = b
          BY <2>4, <3>5, <4>2 DEF Takes
        <5>2. Plus(a)[step.lock] > 0
          BY <1>6, <2>3, <3>1, <5>1
        <5>3. Plus(c) = [Plus(a) EXCEPT ![step.lock] = @ - 1]
          BY <1>6, <2>3, <3>1, <5>1
        <5> QED
          BY <3>1, <3>5, <4>2, <5>1, <5>2, <5>3 DEF Takes
      <4> QED
        BY <4>1, <4>2
    <3> QED
      BY <3>1, <3>3, <3>4, <3>5
  <2> QED
    BY <2>2, <2>3, <2>5
<1>13. \A n \in 1 .. k + 2 : Takes(x[n - 1], y[n - 1], u[n], x[n], y[n])
  <2> TAKE n \in 1 .. k + 2
  <2>1. CASE n = 1
    <3>1. n - 1 = 0
      BY <2>1
    <3> QED
      BY <1>10, <2>1, <3>1
  <2>2. CASE n = k + 2
    <3>1. n - 1 = k + 1
      BY <2>2
    <3> QED
      BY <1>11, <2>2, <3>1
  <2>3. CASE n # 1 /\ n # k + 2
    <3>1. PICK j \in 1 .. k : n - 1 = j /\ n = j + 1
      <4>1. n - 1 \in 1 .. k /\ n = (n - 1) + 1
        BY <2>3
      <4> QED
        BY <4>1
    <3> QED
      BY <1>12, <3>1
  <2> QED
    BY <2>1, <2>2, <2>3
<1>14. Tracks(x, y, u)
  BY <1>4, <1>8, <1>13 DEF Tracks
<1> QED
  BY <1>3, <1>4, <1>14 DEF Disciplined

-----------------------------------------------------------------------------
\* Every handler is disciplined.
LEMMA ScriptsDisciplined ==
  ASSUME NEW k \in DOMAIN Scripts
  PROVE  Disciplined(Steps(k))
<1>1. \A l \in Locks : Disciplined(Reading(l)) /\ NoDocumentsWrite(Reading(l)) /\ Disciplined(Writing(l))
  BY ReadingDisciplined, WritingDisciplined
<1>2. \A l \in Locks \ {"documents"} : NoDocumentsWrite(Writing(l))
  BY WritingDisciplined
<1>3. {"documents", "deps", "symbols", "diagnostics", "repairs"} = Locks
  BY DEF Locks
<1>4. Disciplined(Packages) /\ NoDocumentsWrite(Packages)
  BY <1>1, <1>2, <1>3, SequelDisciplined DEF Packages
<1>5. Disciplined(ResolveTarget) /\ NoDocumentsWrite(ResolveTarget)
  BY <1>1, <1>3, SequelDisciplined DEF ResolveTarget
<1>6. Disciplined(DependentDocuments)
  BY <1>4, HoldingDisciplined DEF DependentDocuments
<1>7. Disciplined(RetryRepaired)
  BY <1>1, <1>3, SequelDisciplined DEF RetryRepaired
<1>8. Disciplined(Publish)
  BY <1>1, <1>3, SequelDisciplined DEF Publish
<1>9. Disciplined(OpenSteps) /\ Disciplined(CheckSteps)
  <2>1. Disciplined(Packages \o Writing("documents"))
    BY <1>1, <1>3, <1>4, SequelDisciplined
  <2>2. Disciplined(Reading("documents") \o Packages)
    BY <1>1, <1>3, <1>4, SequelDisciplined
  <2>3. Disciplined((Reading("documents") \o Packages) \o Writing("documents"))
    BY <1>1, <1>3, <2>2, SequelDisciplined
  <2> QED
    BY <1>8, <2>1, <2>3, SequelDisciplined DEF OpenSteps, CheckSteps
<1>10. Disciplined(WatchSteps)
  <2>1. Disciplined(Writing("symbols") \o Writing("deps"))
    BY <1>1, <1>3, SequelDisciplined
  <2>2. Disciplined(Writing("symbols") \o Writing("deps") \o Packages)
    BY <1>4, <2>1, SequelDisciplined
  <2>3. Disciplined(Writing("symbols") \o Writing("deps") \o Packages \o Reading("documents"))
    BY <1>1, <1>3, <2>2, SequelDisciplined
  <2>4. Disciplined(Writing("symbols") \o Writing("deps") \o Packages \o Reading("documents") \o Writing("documents"))
    BY <1>1, <1>3, <2>3, SequelDisciplined
  <2>5. Disciplined(Writing("symbols") \o Writing("deps") \o Packages \o Reading("documents") \o Writing("documents")
                    \o Publish)
    BY <1>8, <2>4, SequelDisciplined
  <2>6. Disciplined(Writing("symbols") \o Writing("deps") \o Packages \o Reading("documents") \o Writing("documents")
                    \o Publish \o DependentDocuments)
    BY <1>6, <2>5, SequelDisciplined
  <2>7. Disciplined(Writing("symbols") \o Writing("deps") \o Packages \o Reading("documents") \o Writing("documents")
                    \o Publish \o DependentDocuments \o Writing("documents"))
    BY <1>1, <1>3, <2>6, SequelDisciplined
  <2> QED
    BY <1>8, <2>7, SequelDisciplined DEF WatchSteps
<1>11. Disciplined(CodeActionSteps)
  <2>1. Disciplined(Packages \o Writing("symbols")) /\ NoDocumentsWrite(Packages \o Writing("symbols"))
    BY <1>1, <1>2, <1>3, <1>4, SequelDisciplined
  <2> QED
    BY <2>1, HoldingDisciplined DEF CodeActionSteps
<1>12. Disciplined(SymbolSteps)
  <2>1. Disciplined(Reading("documents") \o Reading("deps"))
    BY <1>1, <1>3, SequelDisciplined
  <2> QED
    BY <1>1, <1>3, <2>1, SequelDisciplined DEF SymbolSteps
<1>13. Disciplined(JumpSteps) /\ Disciplined(GotoSteps) /\ Disciplined(TypeDefinitionSteps)
  BY <1>5, HoldingDisciplined DEF JumpSteps, GotoSteps, TypeDefinitionSteps
<1>14. Disciplined(RunMainSteps) /\ Disciplined(RunTestSteps) /\ Disciplined(LinkSteps)
  BY <1>4, HoldingDisciplined DEF RunMainSteps, RunTestSteps, LinkSteps
<1>15. Disciplined(HoverSteps)
  BY <1>1, <1>3, <1>4, SequelDisciplined DEF HoverSteps
<1>16. Disciplined(CompletionSteps)
  BY <1>7, <1>15, SequelDisciplined DEF CompletionSteps, HoverSteps
<1>17. Disciplined(Reading("documents")) /\ Disciplined(Writing("documents"))
  BY <1>1, <1>3
<1> QED
  BY <1>9, <1>10, <1>11, <1>12, <1>13, <1>14, <1>15, <1>16, <1>17
  DEF Steps, Scripts, ChangeSteps, CloseSteps, RenameSteps, ReferencesSteps, HighlightSteps, PrepareRenameSteps,
      TokensSteps, RangeTokensSteps, OutlineSteps, FoldingSteps, SelectionSteps, CallsSteps, InlaySteps,
      SignatureSteps, LensSteps, ShowSteps

-----------------------------------------------------------------------------
(* The guards a handler holds are the ones its script has taken *)

\* The guards held along the script of a kind.
Guards(k) == CHOOSE g : Tracks(g.read, g.write, Steps(k))

LEMMA GuardsTracked ==
  ASSUME NEW k \in Kinds
  PROVE  Tracks(Guards(k).read, Guards(k).write, Steps(k)) /\ Script(Steps(k)) /\ k # "none"
<1>1. k \in DOMAIN Scripts /\ k # "none"
  BY LspLocksAssumption DEF Scripts
<1>2. Disciplined(Steps(k))
  BY <1>1, ScriptsDisciplined
<1>3. PICK r, w : Tracks(r, w, Steps(k))
  BY <1>2 DEF Disciplined
<1>4. PICK g : g = [read |-> r, write |-> w]
  OBVIOUS
<1>5. g.read = r /\ g.write = w
  BY <1>4
<1>6. Tracks(g.read, g.write, Steps(k))
  BY <1>3, <1>5
<1> QED
  BY <1>1, <1>2, <1>6 DEF Guards, Disciplined

HeldReads(h) == IF kind[h] = "none" THEN NoGuards ELSE Guards(kind[h]).read[at[h]]
HeldWrites(h) == IF kind[h] = "none" THEN {} ELSE Guards(kind[h]).write[at[h]]

LocksTyped ==
  /\ kind \in [Handlers -> Kinds \cup {"none"}]
  /\ at \in [Handlers -> Nat]
  /\ readers \in [Locks -> [Handlers -> Nat]]
  /\ writer \in [Locks -> [Handlers -> BOOLEAN]]
  /\ queue \in [Locks -> Seq([by : Handlers, op : {"read", "write"}])]

AtItsStep == \A h \in Handlers : IF kind[h] = "none" THEN at[h] = 0 ELSE at[h] <= Len(Steps(kind[h]))

GuardsHeld ==
  \A h \in Handlers, l \in Locks :
    readers[l][h] = HeldReads(h)[l] /\ (writer[l][h] <=> l \in HeldWrites(h))

\* A request is the next step of its handler, which makes it once.
Asks(l, i) == Running(queue[l][i].by) /\ NextStep(queue[l][i].by) = [op |-> queue[l][i].op, lock |-> l]
QueuesFollow == \A l \in Locks : \A i \in DOMAIN queue[l] : Asks(l, i)
AskedOnce == \A l \in Locks : \A i, j \in DOMAIN queue[l] : queue[l][i].by = queue[l][j].by => i = j

LocksInv == LocksTyped /\ AtItsStep /\ GuardsHeld /\ QueuesFollow /\ AskedOnce

\* What the next step of a running handler does to its guards.
LEMMA RunningTakes ==
  ASSUME LocksTyped, AtItsStep, NEW h \in Handlers, Running(h)
  PROVE  /\ Takes(HeldReads(h), HeldWrites(h), NextStep(h),
                  Guards(kind[h]).read[at[h] + 1], Guards(kind[h]).write[at[h] + 1])
         /\ kind[h] \in Kinds /\ kind[h] # "none" /\ at[h] + 1 <= Len(Steps(kind[h]))
         /\ HeldReads(h) \in [Locks -> Nat] /\ HeldWrites(h) \in SUBSET Locks
<1>1. kind[h] \in Kinds /\ kind[h] # "none" /\ at[h] \in Nat /\ at[h] < Len(Steps(kind[h]))
  BY DEF LocksTyped, Running
<1>2. PICK k \in Kinds : k = kind[h]
  BY <1>1
<1>3. PICK n \in Nat : n = at[h]
  BY <1>1
<1>4. PICK m \in Nat : m = Len(Steps(k))
  BY <1>2, GuardsTracked, LenProperties DEF Script
<1>5. /\ Guards(k).read \in [0 .. m -> [Locks -> Nat]] /\ Guards(k).write \in [0 .. m -> SUBSET Locks]
      /\ \A i \in 1 .. m :
           Takes(Guards(k).read[i - 1], Guards(k).write[i - 1], Steps(k)[i], Guards(k).read[i], Guards(k).write[i])
  BY <1>2, <1>4, GuardsTracked DEF Tracks
<1>6. n < m /\ n \in 0 .. m /\ n + 1 \in 1 .. m /\ n + 1 - 1 = n
  BY <1>1, <1>2, <1>3, <1>4
<1>7. HeldReads(h) = Guards(k).read[n] /\ HeldWrites(h) = Guards(k).write[n] /\ NextStep(h) = Steps(k)[n + 1]
  BY <1>1, <1>2, <1>3 DEF HeldReads, HeldWrites, NextStep
<1>8. Takes(Guards(k).read[n], Guards(k).write[n], Steps(k)[n + 1], Guards(k).read[n + 1], Guards(k).write[n + 1])
  BY <1>5, <1>6
<1>9. Guards(k).read[n] \in [Locks -> Nat] /\ Guards(k).write[n] \in SUBSET Locks
  BY <1>5, <1>6
<1> QED
  BY <1>1, <1>2, <1>3, <1>4, <1>6, <1>7, <1>8, <1>9

\* A handler that does not run holds nothing.
LEMMA IdleHoldsNothing ==
  ASSUME LocksTyped, AtItsStep, NEW h \in Handlers, ~Running(h)
  PROVE  HeldReads(h) = NoGuards /\ HeldWrites(h) = {}
<1>1. CASE kind[h] = "none"
  BY <1>1 DEF HeldReads, HeldWrites
<1>2. CASE kind[h] # "none"
  <2>1. PICK k \in Kinds : k = kind[h]
    BY <1>2 DEF LocksTyped
  <2>2. PICK m \in Nat : m = Len(Steps(k))
    BY <2>1, GuardsTracked, LenProperties DEF Script
  <2>3. at[h] = m
    BY <1>2, <2>1, <2>2 DEF LocksTyped, AtItsStep, Running
  <2>4. Guards(k).read[m] = NoGuards /\ Guards(k).write[m] = {}
    BY <2>1, <2>2, GuardsTracked DEF Tracks
  <2> QED
    BY <1>2, <2>1, <2>3, <2>4 DEF HeldReads, HeldWrites
<1> QED
  BY <1>1, <1>2

\* What a queue holds.
LEMMA RequestType ==
  ASSUME LocksTyped, NEW l \in Locks, NEW i \in DOMAIN queue[l]
  PROVE  /\ queue[l] \in Seq([by : Handlers, op : {"read", "write"}]) /\ i \in 1 .. Len(queue[l])
         /\ queue[l][i] \in [by : Handlers, op : {"read", "write"}]
         /\ queue[l][i].by \in Handlers /\ queue[l][i].op \in {"read", "write"}
<1>1. PICK q \in Seq([by : Handlers, op : {"read", "write"}]) : q = queue[l]
  BY DEF LocksTyped
<1>2. DOMAIN q = 1 .. Len(q) /\ i \in 1 .. Len(q)
  BY <1>1, LenProperties
<1>3. q[i] \in [by : Handlers, op : {"read", "write"}]
  BY <1>2, ElementOfSeq
<1> QED
  BY <1>1, <1>2, <1>3

-----------------------------------------------------------------------------
LEMMA LocksStart == LocksInit => LocksInv
<1> SUFFICES ASSUME LocksInit PROVE LocksInv
  OBVIOUS
<1>1. LocksTyped /\ AtItsStep
  BY EmptySeq DEF LocksInit, LocksTyped, AtItsStep
<1>2. GuardsHeld
  BY DEF LocksInit, GuardsHeld, HeldReads, HeldWrites, NoGuards
<1>3. QueuesFollow /\ AskedOnce
  BY DEF LocksInit, QueuesFollow, AskedOnce
<1> QED
  BY <1>1, <1>2, <1>3 DEF LocksInv

LEMMA StartInv ==
  ASSUME LocksInv, NEW h \in Handlers, NEW k \in Kinds, Start(h, k)
  PROVE  LocksInv'
<1>1. /\ kind[h] = "none" /\ kind' = [kind EXCEPT ![h] = k]
      /\ at' = at /\ readers' = readers /\ writer' = writer /\ queue' = queue
  BY DEF Start
<1>2. k # "none" /\ Script(Steps(k)) /\ Tracks(Guards(k).read, Guards(k).write, Steps(k))
  BY GuardsTracked
<1>3. /\ kind'[h] = k /\ \A g \in Handlers \ {h} : kind'[g] = kind[g]
      /\ kind' \in [Handlers -> Kinds \cup {"none"}]
  BY <1>1 DEF LocksInv, LocksTyped
<1>4. at[h] = 0
  BY <1>1 DEF LocksInv, AtItsStep
<1>5. LocksTyped'
  BY <1>1, <1>3 DEF LocksInv, LocksTyped
<1>6. Len(Steps(k)) \in Nat
  BY <1>2, LenProperties DEF Script
<1>7. AtItsStep'
  <2> SUFFICES ASSUME NEW g \in Handlers
               PROVE  IF kind'[g] = "none" THEN at'[g] = 0 ELSE at'[g] <= Len(Steps(kind'[g]))
    BY DEF AtItsStep, Steps
  <2>1. CASE g = h
    BY <1>1, <1>2, <1>3, <1>4, <1>6, <2>1
  <2>2. CASE g # h
    BY <1>1, <1>3, <2>2 DEF LocksInv, AtItsStep
  <2> QED
    BY <2>1, <2>2
<1>8. \A g \in Handlers : HeldReads(g)' = HeldReads(g) /\ HeldWrites(g)' = HeldWrites(g)
  <2> TAKE g \in Handlers
  <2>1. CASE g = h
    <3>1. Guards(k).read[0] = NoGuards /\ Guards(k).write[0] = {}
      BY <1>2 DEF Tracks
    <3> QED
      BY <1>1, <1>2, <1>3, <1>4, <2>1, <3>1 DEF HeldReads, HeldWrites
  <2>2. CASE g # h
    BY <1>1, <1>3, <2>2 DEF HeldReads, HeldWrites
  <2> QED
    BY <2>1, <2>2
<1>9. GuardsHeld'
  BY <1>1, <1>8 DEF LocksInv, GuardsHeld
<1>10. ASSUME NEW g \in Handlers, Running(g) PROVE Running(g)' /\ NextStep(g)' = NextStep(g)
  <2>1. g # h
    BY <1>1, <1>10 DEF Running
  <2> QED
    BY <1>1, <1>3, <1>10, <2>1 DEF Running, NextStep
<1>11. QueuesFollow'
  <2> SUFFICES ASSUME NEW l \in Locks, NEW i \in DOMAIN queue[l] PROVE Asks(l, i)'
    BY <1>1 DEF QueuesFollow
  <2>1. queue[l][i].by \in Handlers
    BY RequestType DEF LocksInv
  <2>2. Asks(l, i)
    BY DEF LocksInv, QueuesFollow
  <2> QED
    BY <1>1, <1>10, <2>1, <2>2 DEF Asks
<1>12. AskedOnce'
  BY <1>1 DEF LocksInv, AskedOnce
<1> QED
  BY <1>5, <1>7, <1>9, <1>11, <1>12 DEF LocksInv

\* What a waiting handler waits for.
LEMMA WaitingAsks ==
  ASSUME LocksInv, NEW h \in Handlers, Waiting(h)
  PROVE  \E l \in Locks : \E i \in DOMAIN queue[l] :
           /\ queue[l][i].by = h /\ queue[l][i].op \in {"read", "write"}
           /\ Running(h) /\ NextStep(h) = [op |-> queue[l][i].op, lock |-> l]
<1>1. PICK l \in Locks : \E i \in DOMAIN queue[l] : queue[l][i].by = h
  BY DEF Waiting
<1>2. PICK i \in DOMAIN queue[l] : queue[l][i].by = h
  BY <1>1
<1>3. Asks(l, i) /\ queue[l][i].op \in {"read", "write"}
  BY RequestType DEF LocksInv, QueuesFollow
<1> QED
  BY <1>2, <1>3 DEF Asks

LEMMA RequestInv ==
  ASSUME LocksInv, NEW h \in Handlers, Request(h)
  PROVE  LocksInv'
<1>1. /\ Running(h) /\ ~Waiting(h) /\ NextStep(h).op # "drop"
      /\ queue' = [queue EXCEPT ![NextStep(h).lock] = Append(@, [by |-> h, op |-> NextStep(h).op])]
      /\ kind' = kind /\ at' = at /\ readers' = readers /\ writer' = writer
  BY DEF Request
<1>2. NextStep(h) \in [op : {"read", "write", "drop"}, lock : Locks]
  BY <1>1, RunningTakes DEF LocksInv, Takes
<1>3. PICK m \in Locks, o \in {"read", "write"} : m = NextStep(h).lock /\ o = NextStep(h).op
  BY <1>1, <1>2
<1>4. PICK e \in [by : Handlers, op : {"read", "write"}] : e = [by |-> h, op |-> o]
  OBVIOUS
<1>5. PICK q \in Seq([by : Handlers, op : {"read", "write"}]) : q = queue[m]
  BY DEF LocksInv, LocksTyped
<1>6. PICK n \in Nat : n = Len(q)
  BY <1>5, LenProperties
<1>7. PICK p : p = Append(q, e)
  OBVIOUS
<1>8. /\ p \in Seq([by : Handlers, op : {"read", "write"}]) /\ Len(p) = n + 1 /\ p[n + 1] = e
      /\ DOMAIN p = 1 .. n + 1 /\ DOMAIN q = 1 .. n
      /\ \A i \in 1 .. n : p[i] = q[i]
  BY <1>5, <1>6, <1>7, AppendProperties, LenProperties
<1>9. queue'[m] = p /\ \A l \in Locks \ {m} : queue'[l] = queue[l]
  BY <1>1, <1>3, <1>4, <1>5, <1>7 DEF LocksInv, LocksTyped
<1>10. queue' \in [Locks -> Seq([by : Handlers, op : {"read", "write"}])]
  BY <1>1, <1>3, <1>4, <1>5, <1>7, <1>8 DEF LocksInv, LocksTyped
<1>11. LocksTyped'
  BY <1>1, <1>10 DEF LocksInv, LocksTyped
<1>12. AtItsStep'
  BY <1>1 DEF LocksInv, AtItsStep, Steps
<1>13. GuardsHeld'
  BY <1>1 DEF LocksInv, GuardsHeld, HeldReads, HeldWrites
<1>14. \A l \in Locks : \A i \in DOMAIN queue[l] : queue[l][i].by # h
  BY <1>1 DEF Waiting
<1>16. NextStep(h) = [op |-> o, lock |-> m]
  BY <1>2, <1>3
<1>17. QueuesFollow'
  <2> SUFFICES ASSUME NEW l \in Locks, NEW i \in DOMAIN queue'[l]
               PROVE  Running(queue'[l][i].by) /\ NextStep(queue'[l][i].by) = [op |-> queue'[l][i].op, lock |-> l]
    <3>1. \A g : Running(g)' = Running(g) /\ NextStep(g)' = NextStep(g)
      BY <1>1 DEF Running, NextStep, Steps
    <3> QED
      BY <3>1 DEF QueuesFollow, Asks
  <2>1. CASE l # m
    <3>1. queue'[l] = queue[l]
      BY <1>9, <2>1
    <3> QED
      BY <3>1 DEF LocksInv, QueuesFollow, Asks
  <2>2. CASE l = m /\ i # n + 1
    <3>1. i \in DOMAIN q /\ queue'[l][i] = queue[m][i]
      BY <1>5, <1>8, <1>9, <2>2
    <3> QED
      BY <1>5, <2>2, <3>1 DEF LocksInv, QueuesFollow, Asks
  <2>3. CASE l = m /\ i = n + 1
    BY <1>1, <1>4, <1>8, <1>9, <1>16, <2>3
  <2> QED
    BY <2>1, <2>2, <2>3
<1>18. AskedOnce'
  <2> SUFFICES ASSUME NEW l \in Locks, NEW i \in DOMAIN queue'[l], NEW j \in DOMAIN queue'[l],
                      queue'[l][i].by = queue'[l][j].by
               PROVE  i = j
    BY DEF AskedOnce
  <2>1. CASE l # m
    BY <1>9, <2>1 DEF LocksInv, AskedOnce
  <2>2. CASE l = m
    <3>1. i \in 1 .. n + 1 /\ j \in 1 .. n + 1 /\ queue'[l][i] = p[i] /\ queue'[l][j] = p[j]
      BY <1>8, <1>9, <2>2
    <3>2. \A x \in 1 .. n : p[x] = queue[m][x] /\ x \in DOMAIN queue[m] /\ p[x].by # h
      BY <1>5, <1>8, <1>14
    <3>3. p[n + 1].by = h
      BY <1>4, <1>8
    <3>4. i = n + 1 <=> j = n + 1
      BY <3>1, <3>2, <3>3
    <3>5. CASE i # n + 1 /\ j # n + 1
      <4>1. i \in 1 .. n /\ j \in 1 .. n
        BY <3>1, <3>5
      <4> QED
        BY <3>1, <3>2, <4>1 DEF LocksInv, AskedOnce
    <3> QED
      BY <3>4, <3>5
  <2> QED
    BY <2>1, <2>2
<1> QED
  BY <1>11, <1>12, <1>13, <1>17, <1>18 DEF LocksInv

\* A handler that takes a step leaves the requests of the others as they are.
LEMMA OthersUnmoved ==
  ASSUME NEW h \in Handlers, LocksTyped, kind' = kind, at' = [at EXCEPT ![h] = @ + 1],
         NEW g \in Handlers, g # h
  PROVE  /\ Running(g) => Running(g)' /\ NextStep(g)' = NextStep(g)
         /\ HeldReads(g)' = HeldReads(g) /\ HeldWrites(g)' = HeldWrites(g)
<1>1. kind'[g] = kind[g] /\ at'[g] = at[g]
  BY DEF LocksTyped
<1> QED
  BY <1>1 DEF Running, NextStep, Steps, HeldReads, HeldWrites, Guards

\* What it holds then is what its script says.
LEMMA MovedHolds ==
  ASSUME LocksTyped, AtItsStep, NEW h \in Handlers, Running(h), kind' = kind, at' = [at EXCEPT ![h] = @ + 1]
  PROVE  /\ AtItsStep' /\ at' \in [Handlers -> Nat]
         /\ Takes(HeldReads(h), HeldWrites(h), NextStep(h), HeldReads(h)', HeldWrites(h)')
<1>1. /\ Takes(HeldReads(h), HeldWrites(h), NextStep(h),
                Guards(kind[h]).read[at[h] + 1], Guards(kind[h]).write[at[h] + 1])
      /\ kind[h] \in Kinds /\ kind[h] # "none" /\ at[h] + 1 <= Len(Steps(kind[h]))
  BY RunningTakes
<1>2. at'[h] = at[h] + 1 /\ at' \in [Handlers -> Nat] /\ \A g \in Handlers \ {h} : at'[g] = at[g]
  BY DEF LocksTyped
<1>3. AtItsStep'
  <2> SUFFICES ASSUME NEW g \in Handlers
               PROVE  IF kind[g] = "none" THEN at'[g] = 0 ELSE at'[g] <= Len(Steps(kind[g]))
    BY DEF AtItsStep, Steps
  <2>1. CASE g = h
    BY <1>1, <1>2, <2>1
  <2>2. CASE g # h
    BY <1>2, <2>2 DEF AtItsStep
  <2> QED
    BY <2>1, <2>2
<1>4. HeldReads(h)' = Guards(kind[h]).read[at[h] + 1] /\ HeldWrites(h)' = Guards(kind[h]).write[at[h] + 1]
  BY <1>1, <1>2 DEF HeldReads, HeldWrites, Guards, Steps
<1> QED
  BY <1>1, <1>2, <1>3, <1>4

\* A function of locks and handlers changed at one place.
LEMMA Updated ==
  ASSUME NEW S, NEW f \in [Locks -> [Handlers -> S]], NEW m \in Locks, NEW h \in Handlers, NEW v \in S,
         NEW f1, f1 = [f EXCEPT ![m][h] = v]
  PROVE  /\ f1 \in [Locks -> [Handlers -> S]]
         /\ \A l \in Locks, g \in Handlers : f1[l][g] = IF l = m /\ g = h THEN v ELSE f[l][g]
<1>1. PICK r : r = [f[m] EXCEPT ![h] = v]
  OBVIOUS
<1>2. f[m] \in [Handlers -> S]
  OBVIOUS
<1>3. r \in [Handlers -> S] /\ \A g \in Handlers : r[g] = IF g = h THEN v ELSE f[m][g]
  BY <1>1, <1>2
<1>4. f1 = [f EXCEPT ![m] = r]
  BY <1>1
<1>5. f1[m] = r /\ \A l \in Locks \ {m} : f1[l] = f[l]
  BY <1>4
<1> QED
  BY <1>3, <1>4, <1>5

LEMMA GrantInv ==
  ASSUME LocksInv, NEW m \in Locks, Grant(m)
  PROVE  LocksInv'
<1> DEFINE R == [by : Handlers, op : {"read", "write"}]
<1>1. PICK q \in Seq(R) : q = queue[m]
  BY DEF LocksInv, LocksTyped
<1>2. q # <<>> /\ CanGrant(m, Head(q).op)
  BY <1>1 DEF Grant
<1>3. PICK e \in R : e = Head(q) /\ e = q[1]
  <2> HIDE DEF R
  <2>1. Head(q) \in R
    BY <1>2, HeadTailProperties
  <2>2. Head(q) = q[1]
    OBVIOUS
  <2> QED
    BY <2>1, <2>2
<1>4. PICK h \in Handlers : h = e.by
  OBVIOUS
<1>5. PICK n \in Nat : n + 1 = Len(q)
  <2>1. Len(q) \in Nat /\ Len(q) # 0
    BY <1>2, LenProperties, EmptySeq
  <2>2. Len(q) - 1 \in Nat /\ (Len(q) - 1) + 1 = Len(q)
    BY <2>1
  <2> QED
    BY <2>2
<1>6. PICK p \in Seq(R) : /\ p = Tail(q) /\ Len(p) = n
                          /\ \A i \in 1 .. n : p[i] = q[i + 1]
                          /\ DOMAIN p = 1 .. n /\ DOMAIN q = 1 .. n + 1
  <2> HIDE DEF R
  <2>1. Tail(q) \in Seq(R) /\ Len(Tail(q)) = Len(q) - 1 /\ \A i \in 1 .. Len(Tail(q)) : Tail(q)[i] = q[i + 1]
    BY <1>2, HeadTailProperties
  <2>2. Len(Tail(q)) = n
    BY <1>5, <2>1
  <2>3. DOMAIN Tail(q) = 1 .. n /\ DOMAIN q = 1 .. n + 1
    BY <1>5, <2>1, <2>2, LenProperties
  <2> QED
    BY <2>1, <2>2, <2>3
<1>7. /\ at' = [at EXCEPT ![h] = @ + 1] /\ kind' = kind
      /\ queue' = [queue EXCEPT ![m] = p]
      /\ e.op = "read" => readers' = [readers EXCEPT ![m][h] = readers[m][h] + 1] /\ writer' = writer
      /\ e.op = "write" => writer' = [writer EXCEPT ![m][h] = TRUE] /\ readers' = readers
  BY <1>1, <1>3, <1>4, <1>6 DEF Grant
<1>8. Running(h) /\ NextStep(h) = [op |-> e.op, lock |-> m] /\ e.op \in {"read", "write"}
  <2>1. 1 \in DOMAIN queue[m] /\ queue[m][1] = e
    BY <1>1, <1>3, <1>6
  <2>2. Asks(m, 1)
    BY <2>1 DEF LocksInv, QueuesFollow
  <2> QED
    BY <1>4, <2>1, <2>2 DEF Asks
<1>9. /\ AtItsStep' /\ at' \in [Handlers -> Nat]
      /\ Takes(HeldReads(h), HeldWrites(h), NextStep(h), HeldReads(h)', HeldWrites(h)')
  BY <1>7, <1>8, MovedHolds DEF LocksInv
<1>10. HeldReads(h) \in [Locks -> Nat] /\ HeldWrites(h) \in SUBSET Locks
  BY <1>8, RunningTakes DEF LocksInv
\* The guard it gets, and no other.
<1>11. /\ readers \in [Locks -> [Handlers -> Nat]] /\ writer \in [Locks -> [Handlers -> BOOLEAN]]
       /\ e.op = "read" =>
            /\ readers' \in [Locks -> [Handlers -> Nat]] /\ writer' = writer
            /\ \A l \in Locks, g \in Handlers :
                 readers'[l][g] = IF l = m /\ g = h THEN readers[m][h] + 1 ELSE readers[l][g]
       /\ e.op = "write" =>
            /\ writer' \in [Locks -> [Handlers -> BOOLEAN]] /\ readers' = readers
            /\ \A l \in Locks, g \in Handlers :
                 writer'[l][g] = IF l = m /\ g = h THEN TRUE ELSE writer[l][g]
  <2>1. readers \in [Locks -> [Handlers -> Nat]] /\ writer \in [Locks -> [Handlers -> BOOLEAN]]
    BY DEF LocksInv, LocksTyped
  <2>2. readers[m][h] + 1 \in Nat
    BY <2>1
  <2>3. CASE e.op = "read"
    <3>1. PICK v \in Nat : v = readers[m][h] + 1
      BY <2>2
    <3>2. readers' = [readers EXCEPT ![m][h] = v] /\ writer' = writer
      BY <1>7, <2>3, <3>1
    <3>3. /\ readers' \in [Locks -> [Handlers -> Nat]]
          /\ \A l \in Locks, g \in Handlers : readers'[l][g] = IF l = m /\ g = h THEN v ELSE readers[l][g]
      BY <2>1, <3>2, Updated
    <3> QED
      BY <2>1, <2>3, <3>1, <3>2, <3>3
  <2>4. CASE e.op = "write"
    <3>1. writer' = [writer EXCEPT ![m][h] = TRUE] /\ readers' = readers
      BY <1>7, <2>4
    <3>2. /\ writer' \in [Locks -> [Handlers -> BOOLEAN]]
          /\ \A l \in Locks, g \in Handlers : writer'[l][g] = IF l = m /\ g = h THEN TRUE ELSE writer[l][g]
      <4>1. PICK B : B = BOOLEAN
        OBVIOUS
      <4>2. PICK v \in B : v = TRUE
        BY <4>1
      <4>3. writer \in [Locks -> [Handlers -> B]] /\ writer' = [writer EXCEPT ![m][h] = v]
        BY <2>1, <3>1, <4>1, <4>2
      <4>4. /\ writer' \in [Locks -> [Handlers -> B]]
            /\ \A l \in Locks, g \in Handlers : writer'[l][g] = IF l = m /\ g = h THEN v ELSE writer[l][g]
        BY <4>3, Updated
      <4> QED
        BY <4>1, <4>2, <4>4
    <3> QED
      BY <2>1, <2>4, <3>1, <3>2
  <2> QED
    BY <1>8, <2>1, <2>3, <2>4
<1>12. LocksTyped'
  <2>1. queue' \in [Locks -> Seq(R)]
    BY <1>7 DEF LocksInv, LocksTyped
  <2> QED
    BY <1>7, <1>8, <1>9, <1>11, <2>1 DEF LocksInv, LocksTyped
<1>13. GuardsHeld'
  <2> SUFFICES ASSUME NEW g \in Handlers, NEW l \in Locks
               PROVE  /\ readers'[l][g] = HeldReads(g)'[l]
                      /\ writer'[l][g] <=> l \in HeldWrites(g)'
    BY DEF GuardsHeld
  <2>1. readers[l][g] = HeldReads(g)[l] /\ (writer[l][g] <=> l \in HeldWrites(g))
    BY DEF LocksInv, GuardsHeld
  <2>2. CASE g # h
    <3>1. HeldReads(g)' = HeldReads(g) /\ HeldWrites(g)' = HeldWrites(g)
      BY <1>7, <2>2, OthersUnmoved DEF LocksInv
    <3>2. readers'[l][g] = readers[l][g] /\ writer'[l][g] = writer[l][g]
      BY <1>8, <1>11, <2>2
    <3> QED
      BY <2>1, <3>1, <3>2
  <2>3. CASE g = h /\ e.op = "read"
    <3>1. HeldReads(h)' = [HeldReads(h) EXCEPT ![m] = @ + 1] /\ HeldWrites(h)' = HeldWrites(h)
      BY <1>8, <1>9, <2>3 DEF Takes
    <3>2. writer' = writer /\ readers'[l][h] = IF l = m THEN readers[l][h] + 1 ELSE readers[l][h]
      BY <1>11, <2>3
    <3>3. HeldReads(h)'[l] = IF l = m THEN HeldReads(h)[l] + 1 ELSE HeldReads(h)[l]
      BY <1>10, <3>1
    <3> QED
      BY <2>1, <2>3, <3>1, <3>2, <3>3
  <2>4. CASE g = h /\ e.op = "write"
    <3>1. HeldReads(h)' = HeldReads(h) /\ HeldWrites(h)' = {m} /\ HeldWrites(h) = {}
      BY <1>8, <1>9, <2>4 DEF Takes, OnlyDocuments
    <3>2. readers' = readers /\ writer'[l][h] = IF l = m THEN TRUE ELSE writer[l][h]
      BY <1>11, <2>4
    <3> QED
      BY <2>1, <2>4, <3>1, <3>2
  <2> QED
    BY <1>8, <2>2, <2>3, <2>4
<1>14. queue'[m] = p /\ \A l \in Locks \ {m} : queue'[l] = queue[l]
  BY <1>7 DEF LocksInv, LocksTyped
\* Nobody else's request is its own.
<1>15. \A i \in 1 .. n : p[i] = queue[m][i + 1] /\ i + 1 \in DOMAIN queue[m] /\ queue[m][i + 1].by # h
  <2> TAKE i \in 1 .. n
  <2>1. i + 1 \in DOMAIN queue[m] /\ 1 \in DOMAIN queue[m] /\ i + 1 # 1 /\ queue[m][1].by = h
    BY <1>1, <1>3, <1>4, <1>6
  <2> QED
    BY <1>1, <1>6, <2>1 DEF LocksInv, AskedOnce
<1>16. ASSUME NEW l \in Locks \ {m}, NEW i \in DOMAIN queue[l] PROVE queue[l][i].by # h
  <2>1. Asks(l, i)
    BY DEF LocksInv, QueuesFollow
  <2>2. NextStep(queue[l][i].by).lock = l /\ NextStep(h).lock = m
    BY <1>8, <2>1 DEF Asks
  <2> QED
    BY <2>2
<1>17. \A l \in Locks : \A i \in DOMAIN queue'[l] :
         \E j \in DOMAIN queue[l] :
           /\ queue'[l][i] = queue[l][j] /\ queue[l][j].by # h
           /\ l = m => j = i + 1 /\ i \in 1 .. n
           /\ l # m => j = i
  <2> TAKE l \in Locks
  <2> TAKE i \in DOMAIN queue'[l]
  <2>1. CASE l = m
    BY <1>6, <1>14, <1>15, <2>1
  <2>2. CASE l # m
    BY <1>14, <1>16, <2>2
  <2> QED
    BY <2>1, <2>2
<1>18. QueuesFollow'
  <2> SUFFICES ASSUME NEW l \in Locks, NEW i \in DOMAIN queue'[l] PROVE Asks(l, i)'
    BY DEF QueuesFollow
  <2>1. PICK j \in DOMAIN queue[l] : queue'[l][i] = queue[l][j] /\ queue[l][j].by # h
    BY <1>17
  <2>2. PICK g \in Handlers, o \in {"read", "write"} : g = queue[l][j].by /\ o = queue[l][j].op
    BY RequestType DEF LocksInv
  <2>3. Running(g) /\ NextStep(g) = [op |-> o, lock |-> l]
    BY <2>2 DEF LocksInv, QueuesFollow, Asks
  <2>4. Running(g)' /\ NextStep(g)' = NextStep(g)
    BY <1>7, <2>1, <2>2, <2>3, OthersUnmoved DEF LocksInv
  <2>5. queue'[l][i].by = g /\ queue'[l][i].op = o
    BY <2>1, <2>2
  <2> QED
    BY <2>3, <2>4, <2>5 DEF Asks, Running, NextStep, Steps
<1>19. AskedOnce'
  <2> SUFFICES ASSUME NEW l \in Locks, NEW i \in DOMAIN queue'[l], NEW j \in DOMAIN queue'[l],
                      queue'[l][i].by = queue'[l][j].by
               PROVE  i = j
    BY DEF AskedOnce
  <2>1. PICK x \in DOMAIN queue[l] : /\ queue'[l][i] = queue[l][x]
                                     /\ l = m => x = i + 1 /\ i \in 1 .. n
                                     /\ l # m => x = i
    BY <1>17
  <2>2. PICK y \in DOMAIN queue[l] : /\ queue'[l][j] = queue[l][y]
                                     /\ l = m => y = j + 1 /\ j \in 1 .. n
                                     /\ l # m => y = j
    BY <1>17
  <2>3. x = y
    BY <2>1, <2>2 DEF LocksInv, AskedOnce
  <2>4. l = m => i + 1 = j + 1 /\ i \in 1 .. n /\ j \in 1 .. n
    BY <2>1, <2>2, <2>3
  <2> QED
    BY <2>1, <2>2, <2>3, <2>4
<1> QED
  BY <1>9, <1>12, <1>13, <1>18, <1>19 DEF LocksInv

LEMMA DropGuardInv ==
  ASSUME LocksInv, NEW h \in Handlers, DropGuard(h)
  PROVE  LocksInv'
<1>1. /\ Running(h) /\ NextStep(h).op = "drop"
      /\ IF writer[NextStep(h).lock][h]
         THEN writer' = [writer EXCEPT ![NextStep(h).lock][h] = FALSE] /\ readers' = readers
         ELSE /\ readers' = [readers EXCEPT ![NextStep(h).lock][h] = readers[NextStep(h).lock][h] - 1]
              /\ writer' = writer
      /\ at' = [at EXCEPT ![h] = @ + 1] /\ kind' = kind /\ queue' = queue
  BY DEF DropGuard
<1>2. NextStep(h) \in [op : {"read", "write", "drop"}, lock : Locks]
  BY <1>1, RunningTakes DEF LocksInv, Takes
<1>3. PICK m \in Locks : m = NextStep(h).lock
  BY <1>2
<1>4. /\ AtItsStep' /\ at' \in [Handlers -> Nat]
      /\ Takes(HeldReads(h), HeldWrites(h), NextStep(h), HeldReads(h)', HeldWrites(h)')
  BY <1>1, MovedHolds DEF LocksInv
<1>5. HeldReads(h) \in [Locks -> Nat] /\ HeldWrites(h) \in SUBSET Locks
  BY <1>1, RunningTakes DEF LocksInv
<1>6. \A l \in Locks : readers[l][h] = HeldReads(h)[l] /\ (writer[l][h] <=> l \in HeldWrites(h))
  BY DEF LocksInv, GuardsHeld
<1>7. IF m \in HeldWrites(h)
      THEN HeldReads(h)' = HeldReads(h) /\ HeldWrites(h)' = HeldWrites(h) \ {m}
      ELSE /\ HeldReads(h)[m] > 0 /\ HeldReads(h)' = [HeldReads(h) EXCEPT ![m] = @ - 1]
           /\ HeldWrites(h)' = HeldWrites(h)
  BY <1>1, <1>3, <1>4 DEF Takes
\* The guard it drops, and no other.
<1>8. /\ readers \in [Locks -> [Handlers -> Nat]] /\ writer \in [Locks -> [Handlers -> BOOLEAN]]
      /\ m \in HeldWrites(h) =>
           /\ writer' \in [Locks -> [Handlers -> BOOLEAN]] /\ readers' = readers
           /\ \A l \in Locks, g \in Handlers :
                writer'[l][g] = IF l = m /\ g = h THEN FALSE ELSE writer[l][g]
      /\ m \notin HeldWrites(h) =>
           /\ readers' \in [Locks -> [Handlers -> Nat]] /\ writer' = writer
           /\ \A l \in Locks, g \in Handlers :
                readers'[l][g] = IF l = m /\ g = h THEN readers[m][h] - 1 ELSE readers[l][g]
  <2>1. readers \in [Locks -> [Handlers -> Nat]] /\ writer \in [Locks -> [Handlers -> BOOLEAN]]
    BY DEF LocksInv, LocksTyped
  <2>2. CASE m \in HeldWrites(h)
    <3>1. writer' = [writer EXCEPT ![m][h] = FALSE] /\ readers' = readers
      BY <1>1, <1>3, <1>6, <2>2
    <3>2. /\ writer' \in [Locks -> [Handlers -> BOOLEAN]]
          /\ \A l \in Locks, g \in Handlers : writer'[l][g] = IF l = m /\ g = h THEN FALSE ELSE writer[l][g]
      <4>1. PICK B : B = BOOLEAN
        OBVIOUS
      <4>2. PICK v \in B : v = FALSE
        BY <4>1
      <4>3. writer \in [Locks -> [Handlers -> B]] /\ writer' = [writer EXCEPT ![m][h] = v]
        BY <2>1, <3>1, <4>1, <4>2
      <4>4. /\ writer' \in [Locks -> [Handlers -> B]]
            /\ \A l \in Locks, g \in Handlers : writer'[l][g] = IF l = m /\ g = h THEN v ELSE writer[l][g]
        BY <4>3, Updated
      <4> QED
        BY <4>1, <4>2, <4>4
    <3> QED
      BY <2>1, <2>2, <3>1, <3>2
  <2>3. CASE m \notin HeldWrites(h)
    <3>1. readers' = [readers EXCEPT ![m][h] = readers[m][h] - 1] /\ writer' = writer
      BY <1>1, <1>3, <1>6, <2>3
    <3>2. readers[m][h] - 1 \in Nat
      BY <1>5, <1>6, <1>7, <2>3
    <3>3. PICK v \in Nat : v = readers[m][h] - 1
      BY <3>2
    <3>4. /\ readers' \in [Locks -> [Handlers -> Nat]]
          /\ \A l \in Locks, g \in Handlers : readers'[l][g] = IF l = m /\ g = h THEN v ELSE readers[l][g]
      BY <2>1, <3>1, <3>3, Updated
    <3> QED
      BY <2>1, <2>3, <3>1, <3>3, <3>4
  <2> QED
    BY <2>1, <2>2, <2>3
<1>9. LocksTyped'
  <2>1. readers' \in [Locks -> [Handlers -> Nat]] /\ writer' \in [Locks -> [Handlers -> BOOLEAN]]
    BY <1>8
  <2> QED
    BY <1>1, <1>4, <2>1 DEF LocksInv, LocksTyped
<1>10. GuardsHeld'
  <2> SUFFICES ASSUME NEW g \in Handlers, NEW l \in Locks
               PROVE  /\ readers'[l][g] = HeldReads(g)'[l]
                      /\ writer'[l][g] <=> l \in HeldWrites(g)'
    BY DEF GuardsHeld
  <2>1. readers[l][g] = HeldReads(g)[l] /\ (writer[l][g] <=> l \in HeldWrites(g))
    BY DEF LocksInv, GuardsHeld
  <2>2. CASE g # h
    <3>1. HeldReads(g)' = HeldReads(g) /\ HeldWrites(g)' = HeldWrites(g)
      BY <1>1, <2>2, OthersUnmoved DEF LocksInv
    <3>2. readers'[l][g] = readers[l][g] /\ writer'[l][g] = writer[l][g]
      BY <1>8, <2>2
    <3> QED
      BY <2>1, <3>1, <3>2
  <2>3. CASE g = h /\ m \in HeldWrites(h)
    BY <1>7, <1>8, <2>1, <2>3
  <2>4. CASE g = h /\ m \notin HeldWrites(h)
    <3>1. HeldReads(h)'[l] = IF l = m THEN HeldReads(h)[l] - 1 ELSE HeldReads(h)[l]
      BY <1>5, <1>7, <2>4
    <3> QED
      BY <1>7, <1>8, <2>1, <2>4, <3>1
  <2> QED
    BY <2>2, <2>3, <2>4
<1>11. QueuesFollow'
  <2> SUFFICES ASSUME NEW l \in Locks, NEW i \in DOMAIN queue[l] PROVE Asks(l, i)'
    BY <1>1 DEF QueuesFollow
  <2>1. PICK g \in Handlers, o \in {"read", "write"} : g = queue[l][i].by /\ o = queue[l][i].op
    BY RequestType DEF LocksInv
  <2>2. Running(g) /\ NextStep(g) = [op |-> o, lock |-> l]
    BY <2>1 DEF LocksInv, QueuesFollow, Asks
  <2>3. g # h
    BY <1>1, <2>2
  <2>4. Running(g)' /\ NextStep(g)' = NextStep(g)
    BY <1>1, <2>2, <2>3, OthersUnmoved DEF LocksInv
  <2>5. queue'[l][i].by = g /\ queue'[l][i].op = o
    BY <1>1, <2>1
  <2> QED
    BY <2>2, <2>4, <2>5 DEF Asks, Running, NextStep, Steps
<1>12. AskedOnce'
  BY <1>1 DEF LocksInv, AskedOnce
<1> QED
  BY <1>4, <1>9, <1>10, <1>11, <1>12 DEF LocksInv

LEMMA LocksStay == LocksInv /\ [LocksNext]_locksVars => LocksInv'
<1> SUFFICES ASSUME LocksInv, [LocksNext]_locksVars PROVE LocksInv'
  OBVIOUS
<1>1. CASE \E h \in Handlers : Request(h)
  BY <1>1, RequestInv
<1>2. CASE \E h \in Handlers : DropGuard(h)
  BY <1>2, DropGuardInv
<1>3. CASE \E h \in Handlers, k \in Kinds : Start(h, k)
  BY <1>3, StartInv
<1>4. CASE \E l \in Locks : Grant(l)
  BY <1>4, GrantInv
<1>5. CASE UNCHANGED locksVars
  <2>1. kind' = kind /\ at' = at /\ readers' = readers /\ writer' = writer /\ queue' = queue
    BY <1>5 DEF locksVars
  <2>2. LocksTyped' /\ AtItsStep' /\ AskedOnce'
    BY <2>1 DEF LocksInv, LocksTyped, AtItsStep, AskedOnce, Steps
  <2>3. \A h : HeldReads(h)' = HeldReads(h) /\ HeldWrites(h)' = HeldWrites(h)
    BY <2>1 DEF HeldReads, HeldWrites, Guards, Steps
  <2>4. \A l, i : Asks(l, i)' = Asks(l, i)
    BY <2>1 DEF Asks, Running, NextStep, Steps
  <2> QED
    BY <2>1, <2>2, <2>3, <2>4 DEF LocksInv, GuardsHeld, QueuesFollow
<1> QED
  BY <1>1, <1>2, <1>3, <1>4, <1>5 DEF LocksNext

-----------------------------------------------------------------------------
(* Hanging handlers *)

\* When nothing moves, a lock other than the documents has nobody waiting, for
\* nobody holds it; so the oldest request of the documents is a write, and who
\* holds them to read waits for them too, behind that write.
LEMMA HangsBehindWriter == LocksInv => HangsOnlyByNesting
<1> SUFFICES ASSUME LocksInv, Hung PROVE \E h \in Handlers : NestedBehindWriter(h)
  BY DEF HangsOnlyByNesting
<1>1. ASSUME NEW h \in Handlers
      PROVE  OnlyDocuments(HeldReads(h), HeldWrites(h))
  <2>1. CASE ~Running(h)
    BY <2>1, IdleHoldsNothing DEF LocksInv, OnlyDocuments, NoGuards
  <2>2. CASE Running(h)
    <3>1. Waiting(h)
      BY <2>2 DEF Hung
    <3>2. NextStep(h).op \in {"read", "write"}
      BY <3>1, WaitingAsks
    <3> QED
      BY <2>2, <3>2, RunningTakes DEF LocksInv, Takes
  <2> QED
    BY <2>1, <2>2
<1>2. \A h \in Handlers, l \in Locks : ~writer[l][h] /\ (l # "documents" => readers[l][h] = 0)
  BY <1>1 DEF LocksInv, GuardsHeld, OnlyDocuments
<1>3. \A l \in Locks : queue[l] # <<>> => l = "documents" /\ Head(queue[l]).op = "write"
                                         /\ \E h \in Handlers : readers[l][h] # 0
  BY <1>2 DEF Hung, CanGrant
<1>4. PICK q \in Seq([by : Handlers, op : {"read", "write"}]) : q = queue["documents"]
  BY DEF LocksInv, LocksTyped, Locks
<1>5. "documents" \in Locks
  BY DEF Locks
<1>6. ASSUME NEW h \in Handlers, Running(h)
      PROVE  \E i \in DOMAIN q : /\ q[i].by = h /\ q[i].op \in {"read", "write"} /\ q # <<>>
                                 /\ NextStep(h) = [op |-> q[i].op, lock |-> "documents"]
  <2>1. PICK l \in Locks : \E i \in DOMAIN queue[l] :
                             /\ queue[l][i].by = h /\ queue[l][i].op \in {"read", "write"}
                             /\ NextStep(h) = [op |-> queue[l][i].op, lock |-> l]
    BY <1>6, WaitingAsks DEF Hung
  <2>2. queue[l] # <<>>
    BY <2>1
  <2> QED
    BY <1>3, <1>4, <2>1, <2>2
<1>7. q # <<>>
  BY <1>6 DEF Hung
<1>8. PICK h \in Handlers : readers["documents"][h] # 0
  BY <1>3, <1>4, <1>5, <1>7
<1>9. HeldReads(h)["documents"] # 0
  BY <1>5, <1>8 DEF LocksInv, GuardsHeld
<1>10. Running(h)
  BY <1>5, <1>9, IdleHoldsNothing DEF LocksInv, NoGuards
<1>11. PICK i \in DOMAIN q : /\ q[i].by = h /\ q[i].op \in {"read", "write"}
                             /\ NextStep(h) = [op |-> q[i].op, lock |-> "documents"]
  BY <1>6, <1>10
\* Who writes the documents holds no guard of them.
<1>12. q[i].op = "read"
  <2>1. NextStep(h).op = q[i].op /\ NextStep(h).lock = "documents"
    BY <1>11
  <2>2. NextStep(h).op = "write" => HeldReads(h)[NextStep(h).lock] = 0
    BY <1>10, RunningTakes DEF LocksInv, Takes
  <2> QED
    BY <1>9, <1>11, <2>1, <2>2
<1>13. q[1].op = "write"
  BY <1>3, <1>4, <1>5, <1>7
<1>14. i \in 1 .. Len(q) /\ q[i] \in [by : Handlers, op : {"read", "write"}]
  <2>1. i \in 1 .. Len(q)
    BY LenProperties
  <2> QED
    BY <2>1, ElementOfSeq
<1>15. 1 \in 1 .. i - 1
  BY <1>12, <1>13, <1>14
<1>16. q[i] = [by |-> h, op |-> "read"]
  BY <1>11, <1>12, <1>14
<1>17. readers["documents"][h] > 0
  BY <1>5, <1>8 DEF LocksInv, LocksTyped
<1> QED
  BY <1>4, <1>5, <1>13, <1>15, <1>16, <1>17 DEF NestedBehindWriter

\* The handlers of the language server hang in one way only, whatever their number
\* and the order of their calls: a nested read of the documents behind a writer.
THEOREM HangsOnlyByNestingCorrect == LocksSpec => []HangsOnlyByNesting
<1>1. LocksSpec => []LocksInv
  BY LocksStart, LocksStay, PTL DEF LocksSpec
<1> QED
  BY <1>1, HangsBehindWriter, PTL
=============================================================================
