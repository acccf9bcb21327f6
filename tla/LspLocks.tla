------------------------------ MODULE LspLocks -------------------------------
(***************************************************************************)
(* The locks of the language server: the handlers of lsp/src/backend.rs as *)
(* the guards they take and drop, in order, over tokio's RwLock, which     *)
(* serves requests first come, first served. A script is the longest path  *)
(* of a handler; what it does between two steps ends by itself.            *)
(***************************************************************************)
EXTENDS Naturals, Sequences

CONSTANTS Handlers,   \* handlers and tasks at work, each one call
          Kinds       \* the kinds of them

Locks == {"documents", "deps", "symbols", "diagnostics", "repairs"}

Read(l) == [op |-> "read", lock |-> l]
Write(l) == [op |-> "write", lock |-> l]
Drop(l) == [op |-> "drop", lock |-> l]

\* A guard that is a temporary, and one that is held over other steps.
Reading(l) == <<Read(l), Drop(l)>>
Writing(l) == <<Write(l), Drop(l)>>
HoldingRead(l, body) == <<Read(l)>> \o body \o <<Drop(l)>>

\* packages_for_cache on a miss; on a hit the write is left out.
Packages == Reading("deps") \o Writing("deps")

\* resolve_target_text: the documents are read for the sibling file, then for the path.
ResolveTarget == Reading("documents") \o Reading("documents")

\* dependent_documents: the packages are asked for under the guard.
DependentDocuments == HoldingRead("documents", Packages)

\* retry_with_repaired: a miss, and the analysis of the repaired text is cached.
RetryRepaired == Reading("repairs") \o Writing("repairs")

\* publish_event: the buffers for scan_project_modules, then the registry.
Publish == Reading("documents") \o Writing("diagnostics")

OpenSteps == Packages \o Writing("documents") \o Publish

ChangeSteps == Writing("documents")

\* The task did_change spawns.
CheckSteps == Reading("documents") \o Packages \o Writing("documents") \o Publish

CloseSteps == Writing("documents")

\* Mutant: the index stays locked until it is wanted no more.
WatchHoldsIndex ==
  <<Write("symbols")>>
  \o Writing("deps") \o Packages \o Reading("documents") \o Writing("documents") \o Publish
  \o DependentDocuments \o Writing("documents") \o Publish
  \o <<Drop("symbols")>>

\* did_change_watched_files: a manifest and a source changed.
WatchSteps ==
  Writing("symbols")
  \o Writing("deps") \o Packages \o Reading("documents") \o Writing("documents") \o Publish
  \o DependentDocuments \o Writing("documents") \o Publish

CodeActionSteps == HoldingRead("documents", Packages \o Writing("symbols"))

SymbolSteps == Reading("documents") \o Reading("deps") \o Writing("symbols")

\* goto_definition and the like, into another file, and jump_to_def.
JumpSteps == ResolveTarget
GotoSteps == HoldingRead("documents", JumpSteps)
TypeDefinitionSteps == HoldingRead("documents", JumpSteps)

\* The guard is held while the program is built and runs.
RunMainSteps == HoldingRead("documents", Packages)
RunTestSteps == HoldingRead("documents", Packages)
LinkSteps == HoldingRead("documents", Packages)

\* completion, which may repair the text and cache the analysis of that.
CompletionSteps == Reading("documents") \o Packages \o RetryRepaired

\* Hover reads the document, then asks for the packages.
HoverSteps == Reading("documents") \o Packages

\* Requests answered from the documents alone, under one guard.
RenameSteps == Reading("documents")
ReferencesSteps == Reading("documents")
HighlightSteps == Reading("documents")
PrepareRenameSteps == Reading("documents")
TokensSteps == Reading("documents")
RangeTokensSteps == Reading("documents")
OutlineSteps == Reading("documents")
FoldingSteps == Reading("documents")
SelectionSteps == Reading("documents")
CallsSteps == Reading("documents")
InlaySteps == Reading("documents")
SignatureSteps == Reading("documents")
LensSteps == Reading("documents")
ShowSteps == Reading("documents")

Scripts ==
  [open |-> OpenSteps, change |-> ChangeSteps, check |-> CheckSteps, close |-> CloseSteps,
   watch |-> WatchSteps, codeAction |-> CodeActionSteps, symbol |-> SymbolSteps,
   goto |-> GotoSteps, typeDefinition |-> TypeDefinitionSteps,
   runMain |-> RunMainSteps, runTest |-> RunTestSteps, link |-> LinkSteps,
   completion |-> CompletionSteps, hover |-> HoverSteps,
   rename |-> RenameSteps, references |-> ReferencesSteps, highlight |-> HighlightSteps,
   prepareRename |-> PrepareRenameSteps, tokens |-> TokensSteps, rangeTokens |-> RangeTokensSteps,
   outline |-> OutlineSteps, folding |-> FoldingSteps, selection |-> SelectionSteps,
   calls |-> CallsSteps, inlay |-> InlaySteps, signature |-> SignatureSteps,
   lens |-> LensSteps, show |-> ShowSteps]

\* Handlers with one script are of one kind.
ASSUME LspLocksAssumption ==
  /\ Kinds \subseteq DOMAIN Scripts
  /\ \A k \in DOMAIN Scripts : \E j \in Kinds : Scripts[j] = Scripts[k]

Steps(k) == Scripts[k]

VARIABLES kind,      \* what a handler is, "none" before its call
          at,        \* the steps it has taken
          readers,   \* how many read guards of a lock it holds
          writer,    \* whether it holds the write guard of a lock
          queue      \* the requests a lock has not granted, oldest first

locksVars == <<kind, at, readers, writer, queue>>

LocksTypeOK ==
  /\ kind \in [Handlers -> Kinds \cup {"none"}]
  /\ \A h \in Handlers : at[h] \in 0 .. (IF kind[h] = "none" THEN 0 ELSE Len(Steps(kind[h])))
  /\ readers \in [Locks -> [Handlers -> 0 .. 2]]
  /\ writer \in [Locks -> [Handlers -> BOOLEAN]]
  /\ \A l \in Locks : queue[l] \in Seq([by : Handlers, op : {"read", "write"}])

LocksInit ==
  /\ kind = [h \in Handlers |-> "none"]
  /\ at = [h \in Handlers |-> 0]
  /\ readers = [l \in Locks |-> [h \in Handlers |-> 0]]
  /\ writer = [l \in Locks |-> [h \in Handlers |-> FALSE]]
  /\ queue = [l \in Locks |-> <<>>]

Running(h) == kind[h] # "none" /\ at[h] < Len(Steps(kind[h]))
NextStep(h) == Steps(kind[h])[at[h] + 1]
Waiting(h) == \E l \in Locks : \E i \in DOMAIN queue[l] : queue[l][i].by = h

\* The client calls, or did_change spawns its task.
Start(h, k) ==
  /\ kind[h] = "none"
  /\ kind' = [kind EXCEPT ![h] = k]
  /\ UNCHANGED <<at, readers, writer, queue>>

\* A call of read or write on a lock: the request goes to the end of the queue.
Request(h) ==
  /\ Running(h) /\ ~Waiting(h) /\ NextStep(h).op # "drop"
  /\ queue' = [queue EXCEPT ![NextStep(h).lock] = Append(@, [by |-> h, op |-> NextStep(h).op])]
  /\ UNCHANGED <<kind, at, readers, writer>>

CanGrant(l, op) ==
  /\ \A h \in Handlers : ~writer[l][h]
  /\ op = "write" => \A h \in Handlers : readers[l][h] = 0

\* The oldest request is granted, once it goes with the guards out.
Grant(l) ==
  /\ queue[l] # <<>> /\ CanGrant(l, Head(queue[l]).op)
  /\ LET h == Head(queue[l]).by IN
       /\ at' = [at EXCEPT ![h] = @ + 1]
       /\ IF Head(queue[l]).op = "read"
          THEN readers' = [readers EXCEPT ![l][h] = @ + 1] /\ UNCHANGED writer
          ELSE writer' = [writer EXCEPT ![l][h] = TRUE] /\ UNCHANGED readers
  /\ queue' = [queue EXCEPT ![l] = Tail(@)]
  /\ UNCHANGED kind

DropGuard(h) ==
  /\ Running(h) /\ NextStep(h).op = "drop"
  /\ LET l == NextStep(h).lock IN
       IF writer[l][h] THEN writer' = [writer EXCEPT ![l][h] = FALSE] /\ UNCHANGED readers
       ELSE readers' = [readers EXCEPT ![l][h] = @ - 1] /\ UNCHANGED writer
  /\ at' = [at EXCEPT ![h] = @ + 1]
  /\ UNCHANGED <<kind, queue>>

LocksNext ==
  \/ \E h \in Handlers : Request(h) \/ DropGuard(h) \/ \E k \in Kinds : Start(h, k)
  \/ \E l \in Locks : Grant(l)

LocksSpec == LocksInit /\ [][LocksNext]_locksVars

-----------------------------------------------------------------------------
\* h asks for a second read guard of a lock, behind a writer that waits for the
\* first one: resolve_target_text under the guard of goto_definition.
NestedBehindWriter(h) ==
  \E l \in Locks : \E i \in DOMAIN queue[l] :
    /\ queue[l][i] = [by |-> h, op |-> "read"] /\ readers[l][h] > 0
    /\ \E j \in 1 .. i - 1 : queue[l][j].op = "write"

\* Nothing moves although a handler has not ended.
Hung ==
  /\ \E h \in Handlers : Running(h)
  /\ \A h \in Handlers : Running(h) => Waiting(h)
  /\ \A l \in Locks : queue[l] # <<>> => ~CanGrant(l, Head(queue[l]).op)

\* Handlers hang in no other way: no order in which they take these locks keeps
\* requests from being answered, but for the second read of resolve_target_text.
HangsOnlyByNesting == Hung => \E h \in Handlers : NestedBehindWriter(h)
=============================================================================
