---------------------------- MODULE LspDocuments -----------------------------
(***************************************************************************)
(* The open documents of zeen-lsp and the checks in flight                 *)
(* (lsp/src/backend.rs): did_open, did_change with its debounced task,     *)
(* did_close, did_change_watched_files and publish_event. Every step       *)
(* between two awaits is an action, and the steps of different handlers    *)
(* and tasks interleave. A notification has a number, and a text has the   *)
(* number of the notification that carried it. The files of a project are  *)
(* its documents: one that is not open is a file on disk.                  *)
(***************************************************************************)
EXTENDS LspDeps, Sequences, FiniteSets

CONSTANTS Uris,
          Openable,   \* those the editor opens; the others stay files on disk
          Reports,    \* the other files the check of a document may report on
          Rounds,     \* what a notification of watched files may be about
          MaxNotes,   \* bound: notifications in a behaviour
          MaxWatched, \* bound: those of them about watched files
          Broken      \* the texts whose analysis has no occurrences

ASSUME LspDocumentsAssumption ==
  /\ MaxNotes \in Nat /\ MaxWatched \in Nat /\ Broken \subseteq 1 .. MaxNotes
  /\ Openable \subseteq Uris
  /\ Reports \in [Uris -> SUBSET Uris] /\ \A u \in Uris : u \notin Reports[u]
  /\ Rounds \subseteq Seq({"manifest", "sources"})

Notes == 1 .. MaxNotes
Numbers == 0 .. MaxNotes

VARIABLES editor,      \* what the editor has open: the version and text it sent last
          documents,   \* documents: the entry of each uri, or Closed
          tasks,       \* the handler or task a notification started
          count,       \* the notifications received
          sent,        \* history: the uri and version a text was sent with
          last,        \* history: whose the last notification was, and whether it found no other work
          shown,       \* the text whose check the editor shows diagnostics of, 0 when cleared
          registry,    \* project_diagnostics: the files the checks of a document reported on
          overlapped   \* history: documents two checks of which published at once

docVars == <<editor, documents, tasks, count, sent, last, shown, registry, overlapped>>
vars == <<docVars, depsVars>>

Closed == [version |-> 0, text |-> 0, analysis |-> 0]
NotOpen == [version |-> 0, text |-> 0]
Nothing == [uri |-> "none", version |-> 0]
Done == [pc |-> "done", kind |-> "none", uri |-> "none", version |-> 0, text |-> 0, kept |-> 0,
         packages |-> 0, groups |-> {}, todo |-> {}, rounds |-> <<>>]

Document == [version : Numbers, text : Numbers, analysis : Numbers]
Item == [uri : Uris, version : Numbers, text : Numbers]
AnyUri == Uris \cup {"none"}
Pcs == {"done", "sleep", "clear", "round", "ask", "zora", "store", "snapshot",
        "write", "own", "track", "others"}

IsTask(t) ==
  /\ t.pc \in Pcs /\ t.kind \in {"none", "open", "change", "close", "watch"}
  /\ t.uri \in AnyUri
  /\ t.version \in Numbers /\ t.text \in Numbers /\ t.kept \in Numbers
  /\ t.packages \in Manifests
  /\ t.groups \subseteq Uris /\ t.todo \subseteq Item
  /\ t.rounds \in Seq({"manifest", "sources"})

TypeOK ==
  /\ DepsTypeOK
  /\ editor \in [Uris -> [version : Numbers, text : Numbers]]
  /\ documents \in [Uris -> Document]
  /\ DOMAIN tasks = Notes /\ \A n \in Notes : IsTask(tasks[n])
  /\ count \in Numbers
  /\ sent \in [Notes -> [uri : AnyUri, version : Numbers]]
  /\ last \in [uri : AnyUri, quiet : BOOLEAN]
  /\ shown \in [Uris -> Numbers]
  /\ registry \in [Uris -> SUBSET Uris]
  /\ overlapped \subseteq Uris

\* Backend.new
Init ==
  /\ DepsInit
  /\ editor = [u \in Uris |-> NotOpen]
  /\ documents = [u \in Uris |-> Closed]
  /\ tasks = [n \in Notes |-> Done]
  /\ count = 0
  /\ sent = [n \in Notes |-> Nothing]
  /\ last = [uri |-> "none", quiet |-> FALSE]
  /\ shown = [u \in Uris |-> 0]
  /\ registry = [u \in Uris |-> {}]
  /\ overlapped = {}

-----------------------------------------------------------------------------
(* Notifications. *)

\* Nothing is under way, but for debounced tasks of the same document.
NoWorkBut(u) ==
  \A n \in Notes : tasks[n].pc = "done" \/ (tasks[n].pc = "sleep" /\ tasks[n].uri = u)

Receive(u, task) ==
  /\ count < MaxNotes
  /\ count' = count + 1
  /\ tasks' = [tasks EXCEPT ![count + 1] = task]
  /\ last' = [uri |-> u, quiet |-> u # "none" /\ NoWorkBut(u)]
  /\ UNCHANGED <<depsVars, shown, registry, overlapped>>

\* What the editor sends of a document: the next version and the whole text.
Sends(u, version) ==
  /\ editor' = [editor EXCEPT ![u] = [version |-> version, text |-> count + 1]]
  /\ sent' = [sent EXCEPT ![count + 1] = [uri |-> u, version |-> version]]

\* did_open, up to packages_for. An editor numbers the versions of each opening from 1.
Open(u) ==
  /\ editor[u] = NotOpen
  /\ Receive(u, [Done EXCEPT !.kind = "open", !.pc = "ask", !.uri = u, !.version = 1, !.text = count + 1])
  /\ Sends(u, 1)
  /\ UNCHANGED documents

\* Mutant: the text is left to the task.
ChangeLater(u) ==
  /\ editor[u] # NotOpen
  /\ Receive(u, [Done EXCEPT !.kind = "change", !.pc = "sleep", !.uri = u, !.version = editor[u].version + 1])
  /\ Sends(u, editor[u].version + 1)
  /\ UNCHANGED documents

\* did_change: the new text under the previous analysis, and a task that sleeps.
Change(u) ==
  /\ editor[u] # NotOpen
  /\ Receive(u, [Done EXCEPT !.kind = "change", !.pc = "sleep", !.uri = u, !.version = editor[u].version + 1])
  /\ Sends(u, editor[u].version + 1)
  /\ documents' = [documents EXCEPT ![u] =
       [version |-> editor[u].version + 1, text |-> count + 1, analysis |-> @.analysis]]

\* did_close, up to its publication.
Close(u) ==
  /\ editor[u] # NotOpen
  /\ Receive(u, [Done EXCEPT !.kind = "close", !.pc = "clear", !.uri = u])
  /\ editor' = [editor EXCEPT ![u] = NotOpen]
  /\ documents' = [documents EXCEPT ![u] = Closed]
  /\ sent' = [sent EXCEPT ![count + 1] = [uri |-> u, version |-> 0]]

\* did_change_watched_files, of manifests, of sources or of both.
Watch(rounds) ==
  /\ Cardinality({n \in 1 .. count : sent[n] = Nothing}) < MaxWatched
  /\ Receive("none", [Done EXCEPT !.kind = "watch", !.pc = "round", !.rounds = rounds])
  /\ UNCHANGED <<editor, documents, sent>>

-----------------------------------------------------------------------------
(* The steps of the handlers and tasks. *)

\* Task n is at pc; it goes on as "task".
At(n, pc) == tasks[n].pc = pc
Goes(n, task) == tasks' = [tasks EXCEPT ![n] = task] /\ UNCHANGED <<editor, count, sent, last>>
GoesTo(n, pc) == Goes(n, [tasks[n] EXCEPT !.pc = pc])

\* Mutant: an overtaken task goes on.
WakeAlways(n) ==
  /\ At(n, "sleep")
  /\ LET current == documents[tasks[n].uri] IN
       Goes(n, [tasks[n] EXCEPT !.pc = "ask", !.text = current.text, !.kept = current.analysis])
  /\ UNCHANGED <<depsVars, documents, shown, registry, overlapped>>

\* The end of DIAGNOSTIC_DEBOUNCE: the document is read, and an older version gives way.
Wake(n) ==
  /\ At(n, "sleep")
  /\ LET current == documents[tasks[n].uri] IN
       IF current.version # tasks[n].version THEN Goes(n, Done)
       ELSE Goes(n, [tasks[n] EXCEPT !.pc = "ask", !.text = current.text, !.kept = current.analysis])
  /\ UNCHANGED <<depsVars, documents, shown, registry, overlapped>>

\* The manifests changed: the cached packages go before the new ones are asked for.
Round(n) ==
  /\ At(n, "round")
  /\ IF tasks[n].rounds = <<>> THEN Goes(n, Done) /\ UNCHANGED depsVars
     ELSE GoesTo(n, "ask") /\ IF Head(tasks[n].rounds) = "manifest" THEN Forget ELSE UNCHANGED depsVars
  /\ UNCHANGED <<documents, shown, registry, overlapped>>

\* Where a task goes with its packages: to its check, or to the documents to check.
HasPackages(n) ==
  Goes(n, [tasks[n] EXCEPT !.packages = 0, !.pc = IF tasks[n].kind = "watch" THEN "snapshot" ELSE "write"])

\* packages_for_cache: a hit, or a blocking run of zora ...
Ask(n) ==
  /\ At(n, "ask")
  /\ IF CacheHit THEN HasPackages(n) ELSE GoesTo(n, "zora")
  /\ UNCHANGED <<depsVars, documents, shown, registry, overlapped>>

\* Mutant: packages that were cached before are good enough.
ZoraOnce(n) ==
  /\ At(n, "zora")
  /\ Goes(n, [tasks[n] EXCEPT !.pc = "store", !.packages = IF deps = NotCached THEN manifest ELSE deps.packages])
  /\ UNCHANGED <<depsVars, documents, shown, registry, overlapped>>

\* ... that reads the manifests ...
Zora(n) ==
  /\ At(n, "zora")
  /\ Goes(n, [tasks[n] EXCEPT !.pc = "store", !.packages = manifest])
  /\ UNCHANGED <<depsVars, documents, shown, registry, overlapped>>

\* ... and whose answer is cached with the times read now.
Cache(n) ==
  /\ At(n, "store")
  /\ Store(tasks[n].packages)
  /\ HasPackages(n)
  /\ UNCHANGED <<documents, shown, registry, overlapped>>

\* The next document of the loop, or the end of this round.
NextItem(t, todo) ==
  IF todo = {} THEN {[Done EXCEPT !.kind = "watch", !.pc = "round", !.rounds = Tail(t.rounds)]}
  ELSE {[t EXCEPT !.pc = "write", !.todo = todo \ {i}, !.groups = {},
                  !.uri = i.uri, !.version = i.version, !.text = i.text] : i \in todo}

\* The open documents under the root, or those that refer to a changed source.
Snapshot(n) ==
  /\ At(n, "snapshot")
  /\ LET open == {u \in Uris : documents[u] # Closed} IN
       \E checked \in IF Head(tasks[n].rounds) = "manifest" THEN {open} ELSE SUBSET open :
         \E t \in NextItem(tasks[n], {[uri |-> u, version |-> documents[u].version,
                                      text |-> documents[u].text] : u \in checked}) : Goes(n, t)
  /\ UNCHANGED <<depsVars, documents, shown, registry, overlapped>>

\* Mutant: the analysis that is stored by the time of the write is kept.
AnalysisThen(t) ==
  IF t.text \notin Broken THEN t.text ELSE IF t.kind = "change" THEN documents[t.uri].analysis ELSE 0

\* The analysis a check stores: the task of did_change keeps the one it read when the
\* text gives none, the other handlers store what they have.
Analysis(t) == IF t.text \notin Broken THEN t.text ELSE IF t.kind = "change" THEN t.kept ELSE 0

\* check, and the insert of the version and text it started from. The check reports
\* on other files too.
WriteBack(n) ==
  /\ At(n, "write")
  /\ LET t == tasks[n] IN
       /\ documents' = [documents EXCEPT ![t.uri] =
            [version |-> t.version, text |-> t.text, analysis |-> Analysis(t)]]
       /\ \E groups \in SUBSET Reports[t.uri] : 
            Goes(n, [t EXCEPT !.pc = "own", !.groups = groups, !.version = 0, !.kept = 0])
  /\ UNCHANGED <<depsVars, shown, registry, overlapped>>

-----------------------------------------------------------------------------
(* publish_event, and the publication of did_close. *)

PublishOwn(n) ==
  /\ At(n, "own")
  /\ shown' = [shown EXCEPT ![tasks[n].uri] = tasks[n].text]
  /\ GoesTo(n, "track")
  /\ UNCHANGED <<depsVars, documents, registry, overlapped>>

Publishing(u) == \E m \in Notes : At(m, "others") /\ tasks[m].uri = u

\* The end of publish_event: the next document of a watch handler, or the end of a task.
AfterPublish(t) == IF t.kind = "watch" THEN NextItem(t, t.todo) ELSE {Done}

\* Mutant: the files of this check are registered, and those of the last one not cleared.
TrackOnly(n) ==
  /\ At(n, "track")
  /\ LET u == tasks[n].uri IN
       /\ registry' = [registry EXCEPT ![u] = tasks[n].groups]
       /\ overlapped' = IF Publishing(u) THEN overlapped \cup {u} ELSE overlapped
  /\ IF tasks[n].groups # {} THEN GoesTo(n, "others") ELSE \E t \in AfterPublish(tasks[n]) : Goes(n, t)
  /\ UNCHANGED <<depsVars, documents, shown>>

\* Under the lock of the registry: files no longer reported on are cleared.
Track(n) ==
  /\ At(n, "track")
  /\ LET u == tasks[n].uri
         gone == registry[u] \ tasks[n].groups IN
       /\ shown' = [f \in Uris |-> IF f \in gone THEN 0 ELSE shown[f]]
       /\ registry' = [registry EXCEPT ![u] = tasks[n].groups]
       /\ overlapped' = IF Publishing(u) THEN overlapped \cup {u} ELSE overlapped
  /\ IF tasks[n].groups # {} THEN GoesTo(n, "others") ELSE \E t \in AfterPublish(tasks[n]) : Goes(n, t)
  /\ UNCHANGED <<depsVars, documents>>

PublishOthers(n) ==
  /\ At(n, "others")
  /\ shown' = [f \in Uris |-> IF f \in tasks[n].groups THEN tasks[n].text ELSE shown[f]]
  /\ \E t \in AfterPublish(tasks[n]) : Goes(n, t)
  /\ UNCHANGED <<depsVars, documents, registry, overlapped>>

Clear(n) ==
  /\ At(n, "clear")
  /\ shown' = [shown EXCEPT ![tasks[n].uri] = 0]
  /\ Goes(n, Done)
  /\ UNCHANGED <<depsVars, documents, registry, overlapped>>

-----------------------------------------------------------------------------
SaveManifest ==
  /\ Save(\E n \in Notes : tasks[n].pc \in {"zora", "store"})
  /\ UNCHANGED docVars

Notify ==
  \/ \E u \in Openable : Open(u) \/ Change(u) \/ Close(u)
  \/ \E rounds \in Rounds : Watch(rounds)

Step(n) ==
  \/ Wake(n) \/ Round(n) \/ Ask(n) \/ Zora(n) \/ Cache(n) \/ Snapshot(n) \/ WriteBack(n)
  \/ PublishOwn(n) \/ Track(n) \/ PublishOthers(n) \/ Clear(n)

Next == Notify \/ SaveManifest \/ \E n \in Notes : Step(n)

\* The runtime polls every task that can go on; the editor may fall silent.
Fairness == \A n \in Notes : WF_vars(Step(n))
Spec == Init /\ [][Next]_vars /\ Fairness

-----------------------------------------------------------------------------
\* The version a document is stored with is the one its text was sent with,
\* whichever task wrote the entry: the debounced task stores the text it read
\* under the version it was started for.
VersionNamesText ==
  \A u \in Uris : documents[u] # Closed =>
    sent[documents[u].text] = [uri |-> u, version |-> documents[u].version]

\* An analysis is of the stored text or of an earlier one: requests that map
\* its offsets onto the text meet edits it has not seen, never text that is gone.
AnalysisNeverAhead == \A u \in Uris : documents[u].analysis <= documents[u].text

\* Diagnostics a check put on another file are in the registry of the checked
\* document, which clears them when they no longer hold, unless two checks of
\* that document published at the same time.
NothingForgotten ==
  \A f \in Uris :
    LET by == sent[shown[f]].uri IN
      shown[f] # 0 => \/ by = f \/ by \in overlapped \/ f \in registry[by]

Agrees(u) ==
  /\ [version |-> documents[u].version, text |-> documents[u].text] = editor[u]
  /\ shown[u] = editor[u].text
  /\ documents[u].text \notin Broken => documents[u].analysis = documents[u].text

\* Whatever earlier notifications did to each other, the server ends up with the
\* text, the analysis and the diagnostics of the document notified last, if that
\* notification came when no other check was under way.
QuietEditHeals == <>[](last.quiet => Agrees(last.uri))
=============================================================================
