--------------------------- MODULE LanguageServer ---------------------------
(* frost lsp: an editor and the server that projects the loader's errors and  *)
(* the graph onto the documents it has open.  Messages arrive in order and    *)
(* one thread handles them; other editors and builds use the same workspace,  *)
(* and no message speaks of them.  A label is written in full here, and a     *)
(* message reaches the editor when it is sent.                                *)
EXTENDS Naturals, Sequences, FiniteSets, Relation, Command

CONSTANTS
  Texts,              \* what a manifest may say: uri -> set of [parses, rules]
  OtherUris,          \* documents that are no manifests
  HomeOf,             \* label -> the manifest that can declare it
  Methods,            \* the requests an editor may make
  MaxTurns,           \* of what the editor, builds and others do
  MaxUnread           \* messages that wait

VARIABLES
  files,              \* manifest -> its text on disk
  warm,               \* the graph store: the files its graph was compiled from
  inbox,              \* the messages the server has not read
  session,            \* [shutdown, exited]
  documents,          \* Server: the editor's copies
  graph, manifest,    \* Workspace: the files they were made from
  error,
  answer,             \* the response, if a request was handled last: [of, at, what]
  shown, buffers,     \* the editor: diagnostics and what it has open
  stale,              \* ghost: files changed after the last reload
  turns

ManifestUris == DOMAIN Texts
Uris == ManifestUris \cup OtherUris
disk == <<files, warm>>
project == <<graph, manifest, error>>
editor == <<shown, buffers>>
lspVars == <<disk, inbox, session, documents, project, answer, editor, stale, turns>>

NoText == [parses |-> FALSE, rules |-> <<>>]
ManifestTexts == UNION {Texts[u] : u \in ManifestUris}
Labels == DOMAIN HomeOf
Complaints == [kind : {"syntax", "label", "cycle"}, tokens : SUBSET Labels]
Notifications == {"didOpen", "didChange", "didSave", "didClose", "shutdown", "exit"}

\* What a manifest declares is at home there, and a notification is no request.
ASSUME LspAssumption ==
  /\ None \notin Labels \cup Complaints \cup [ManifestUris -> ManifestTexts]
  /\ \A u \in ManifestUris : \A text \in Texts[u] : \A label \in DOMAIN text.rules :
       label \in Labels /\ HomeOf[label] = u
  /\ Methods \cap Notifications = {}

-----------------------------------------------------------------------------
(* What the files of a workspace say *)

Declared(ws) == UNION {DOMAIN ws[u].rules : u \in ManifestUris}
DepsOf(ws, label) == ws[HomeOf[label]].rules[label]
Needs(ws) == [d \in Declared(ws) \X Declared(ws) |-> d[2] \in DepsOf(ws, d[1])]
Beneath(ws) ==
  TransitiveClosure([d \in Declared(ws) \X Declared(ws) |-> Needs(ws)[d]], Declared(ws))

\* BuildGraph::rdeps_closure and deps_closure
RdepsClosure(ws, label) == {l \in Declared(ws) : l = label \/ Beneath(ws)[l, label]}
DepsClosure(ws, label) == {l \in Declared(ws) : l = label \/ Beneath(ws)[label, l]}

Assembled(ws) == \A u \in ManifestUris : ws[u].parses
Dangling(ws) == {d \in Declared(ws) \X DOMAIN HomeOf :
                   d[2] \in DepsOf(ws, d[1]) \ Declared(ws)}

\* What `frost build` says is wrong, and the labels it quotes: none when a file cannot
\* be parsed or targets depend on each other.
Complaint(ws) ==
  IF ~Assembled(ws) THEN {[kind |-> "syntax", tokens |-> {}]}
  ELSE IF Dangling(ws) # {}
       THEN {[kind |-> "label", tokens |-> {d[1], d[2]}] : d \in Dangling(ws)}
  ELSE IF \E l \in Declared(ws) : Beneath(ws)[l, l] THEN {[kind |-> "cycle", tokens |-> {}]}
  ELSE {None}

-----------------------------------------------------------------------------
(* Workspace: reload and the answers *)

\* GraphStore::load_cached finds a graph of the files as they are.
Cached == warm = files

\* Mutant: an error that was there stays when the graph is found.
MutReload ==
  IF Cached THEN graph' = files /\ UNCHANGED <<manifest, error, warm>>
  ELSE /\ error' \in Complaint(files)
       /\ IF ~Assembled(files) THEN UNCHANGED <<graph, manifest, warm>>
          ELSE /\ manifest' = files
               /\ IF error' = None THEN graph' = files /\ warm' = files
                  ELSE graph' = None /\ UNCHANGED warm

\* Mutant: navigation goes on with the graph of before.
MutReloadGraph ==
  IF Cached THEN graph' = files /\ error' = None /\ UNCHANGED <<manifest, warm>>
  ELSE /\ error' \in Complaint(files)
       /\ IF ~Assembled(files) THEN UNCHANGED <<graph, manifest, warm>>
          ELSE /\ manifest' = files
               /\ IF error' = None THEN graph' = files /\ warm' = files
                  ELSE UNCHANGED <<graph, warm>>

\* Nothing is forgotten when nothing can be assembled, but of manifests that can be
\* there is only a graph if nothing is wrong with them.
Reload ==
  IF Cached THEN graph' = files /\ error' = None /\ UNCHANGED <<manifest, warm>>
  ELSE /\ error' \in Complaint(files)
       /\ IF ~Assembled(files) THEN UNCHANGED <<graph, manifest, warm>>
          ELSE /\ manifest' = files
               /\ IF error' = None THEN graph' = files /\ warm' = files
                  ELSE graph' = None /\ UNCHANGED warm

\* labels, kind_of and direct_deps ask the graph, or else the manifests.
View == IF graph # None THEN graph ELSE manifest
Known == IF View = None THEN {} ELSE Declared(View)

\* locate: a header, a dependency that is written, or a line for a key.
Cursors(text) ==
  UNION {[target : {t}, literal : {None} \cup text.rules[t], key : {FALSE}]
           \cup [target : {t}, literal : {None}, key : {TRUE}] : t \in DOMAIN text.rules}

\* label_at
LabelAt(cursor) ==
  IF cursor.literal \in Known THEN cursor.literal
  ELSE IF cursor.target \in Known THEN cursor.target ELSE None

\* declaration: the header is looked for in the file.
Declaration(label) ==
  IF label # None /\ label \in DOMAIN files[HomeOf[label]].rules THEN {label} ELSE {}

\* keys_for and keys_in_scope
KeysFor == {"kind", "deps", "keys of its kind"}
KeysInScope(cursor) == IF cursor.target \in Known THEN KeysFor ELSE {"kind", "deps"}

\* completions: keys of the kind of the target, labels in a string of `deps`.
Completions(cursor) ==
  IF cursor.key THEN KeysInScope(cursor)
  ELSE IF cursor.literal = None THEN {} ELSE Known

References(cursor) ==
  LET label == LabelAt(cursor) IN
  IF graph = None \/ label = None THEN {}
  ELSE UNION {Declaration(l) : l \in RdepsClosure(graph, label)}

Hover(cursor) ==
  LET label == LabelAt(cursor) IN
  IF label = None THEN {}
  ELSE {[label |-> label, deps |-> DepsOf(View, label),
         closure |-> IF graph = None THEN None ELSE Cardinality(DepsClosure(graph, label))]}

Answer(method, cursor) ==
  CASE method = "completion" -> Completions(cursor)
    [] method = "definition" -> Declaration(LabelAt(cursor))
    [] method = "references" -> References(cursor)
    [] method = "hover"      -> Hover(cursor)
    [] OTHER                 -> {"method not found"}

-----------------------------------------------------------------------------
(* Server *)

\* locate_message: a label that the complaint quotes is written here.
Mentions(text, complaint) ==
  complaint.tokens \cap (DOMAIN text.rules \cup UNION {text.rules[t] : t \in DOMAIN text.rules})
    # {}

\* diagnostics: those of the document itself come first.
Diagnostics(text, complaint) ==
  IF ~text.parses THEN "own"
  ELSE IF complaint # None /\ Mentions(text, complaint) THEN complaint.kind ELSE None

\* publish: only for manifests that are open.
Published(uri, docs, complaint) ==
  IF uri \in ManifestUris \cap DOMAIN docs THEN Diagnostics(docs[uri], complaint) ELSE None

\* Mutant: a save publishes what is wrong with the document that was saved.
MutRepublished(uri) == [shown EXCEPT ![uri] = Published(uri, documents, error')]

\* republish: one save can mend or break another document.
Republished(uri) ==
  [u \in Uris |-> IF u \in DOMAIN documents THEN Published(u, documents, error') ELSE shown[u]]

With(uri, text) == [u \in DOMAIN documents \cup {uri} |-> IF u = uri THEN text ELSE documents[u]]
Without(uri) == [u \in DOMAIN documents \ {uri} |-> documents[u]]

DidOpenOrChange(message) ==
  /\ message.method \in {"didOpen", "didChange"}
  /\ documents' = With(message.uri, message.text)
  /\ shown' = [shown EXCEPT ![message.uri] = Published(message.uri, documents', error)]
  /\ UNCHANGED <<project, warm, session, stale>>

DidSave(message) ==
  /\ message.method = "didSave"
  /\ Reload /\ stale' = FALSE
  /\ shown' = Republished(message.uri)
  /\ UNCHANGED <<documents, session>>

DidClose(message) ==
  /\ message.method = "didClose"
  /\ documents' = Without(message.uri) /\ shown' = [shown EXCEPT ![message.uri] = None]
  /\ UNCHANGED <<project, warm, session, stale>>

\* text_of: the editor's copy, or else the file.
TextOf(uri) == IF uri \in DOMAIN documents THEN documents[uri] ELSE files[uri]

RequestMessage(message) ==
  /\ message.method \in Methods
  /\ \E cursor \in Cursors(TextOf(message.uri)) :
       answer' = [of |-> message.method, at |-> cursor, what |-> Answer(message.method, cursor)]
  /\ UNCHANGED <<project, warm, session, documents, shown, stale>>

EndSession(message) ==
  /\ message.method \in {"shutdown", "exit"}
  /\ session' = IF message.method = "shutdown" THEN [session EXCEPT !.shutdown = TRUE]
                ELSE [session EXCEPT !.exited = TRUE]
  /\ UNCHANGED <<project, warm, documents, shown, stale>>

Handle ==
  /\ ~session.exited /\ inbox # <<>> /\ inbox' = Tail(inbox)
  /\ LET message == Head(inbox) IN
     \/ RequestMessage(message)
     \/ /\ answer' = None
        /\ \/ DidOpenOrChange(message) \/ DidSave(message) \/ DidClose(message)
           \/ EndSession(message)
  /\ UNCHANGED <<files, buffers, turns>>

-----------------------------------------------------------------------------
(* The editor, and others *)

Message(method, uri, text) == [method |-> method, uri |-> uri, text |-> text]
Tells(method, uri, text) == inbox' = Append(inbox, Message(method, uri, text))
Turn == turns < MaxTurns /\ turns' = turns + 1 /\ ~session.exited /\ Len(inbox) < MaxUnread
Held == <<warm, session, documents, project, answer, shown>>

Open(u) ==
  /\ Turn /\ u \notin DOMAIN buffers
  /\ LET text == IF u \in ManifestUris THEN files[u] ELSE NoText IN
     buffers' = [v \in DOMAIN buffers \cup {u} |-> IF v = u THEN text ELSE buffers[v]]
  /\ Tells("didOpen", u, buffers'[u])
  /\ UNCHANGED <<Held, files, stale>>

Type(u) ==
  /\ Turn /\ u \in DOMAIN buffers \cap ManifestUris
  /\ \E text \in Texts[u] \ {buffers[u]} :
       buffers' = [buffers EXCEPT ![u] = text] /\ Tells("didChange", u, text)
  /\ UNCHANGED <<Held, files, stale>>

SaveFile(u) ==
  /\ Turn /\ u \in DOMAIN buffers \cap ManifestUris
  /\ files' = [files EXCEPT ![u] = buffers[u]] /\ Tells("didSave", u, None) /\ stale' = TRUE
  /\ UNCHANGED <<Held, buffers>>

CloseFile(u) ==
  /\ Turn /\ u \in DOMAIN buffers /\ Tells("didClose", u, None)
  /\ buffers' = [v \in DOMAIN buffers \ {u} |-> buffers[v]]
  /\ UNCHANGED <<Held, files, stale>>

Ask(u) ==
  /\ Turn /\ \E method \in Methods : Tells(method, u, None)
  /\ UNCHANGED <<Held, files, stale, buffers>>

Leave ==
  /\ Turn /\ \E method \in {"shutdown", "exit"} : Tells(method, None, None)
  /\ UNCHANGED <<Held, files, stale, buffers>>

\* Another editor; and a build, which leaves the graph of files it loads.
Elsewhere(u) ==
  /\ Turn /\ \E text \in Texts[u] \ {files[u]} : files' = [files EXCEPT ![u] = text]
  /\ stale' = TRUE /\ UNCHANGED <<Held, inbox, buffers>>

Build ==
  /\ Turn /\ Complaint(files) = {None} /\ warm' = files
  /\ UNCHANGED <<files, session, documents, project, answer, shown, inbox, stale, buffers>>

LspInit ==
  /\ files \in {f \in [ManifestUris -> UNION {Texts[u] : u \in ManifestUris}] :
                  \A u \in ManifestUris : f[u] \in Texts[u]}
  /\ warm = IF Complaint(files) = {None} THEN files ELSE None
  /\ error \in Complaint(files)
  /\ manifest = IF Assembled(files) /\ error # None THEN files ELSE None
  /\ graph = IF error = None THEN files ELSE None
  /\ inbox = <<>> /\ session = [shutdown |-> FALSE, exited |-> FALSE] /\ documents = <<>>
  /\ answer = None /\ shown = [u \in Uris |-> None] /\ buffers = <<>>
  /\ stale = FALSE /\ turns = 0

LspNext ==
  \/ Handle
  \/ \E u \in Uris : Open(u) \/ Type(u) \/ SaveFile(u) \/ CloseFile(u)
  \/ \E u \in ManifestUris : Ask(u) \/ Elsewhere(u)
  \/ Leave \/ Build

-----------------------------------------------------------------------------
(* Properties *)

\* "A stale squiggle in a file nobody touched is the failure mode to avoid"
\* (lsp/mod.rs:258): when all messages are handled, an editor shows what is wrong with
\* each of its copies, given what the server has made of the workspace, and nothing
\* for what is closed.
ShownIsCurrent ==
  command = "lsp" /\ inbox = <<>> /\ ~session.exited =>
    documents = buffers /\ \A u \in Uris : shown[u] = Published(u, buffers, error)

\* "Every answer here is the build's answer" (lsp/workspace.rs:3): unless something
\* was written after the last save, the server complains of what a build would, and
\* of a workspace that can be assembled knows the labels, and the dependents if it
\* is valid, that queries would find.
AnswersAreTheBuilds ==
  command = "lsp" /\ ~stale =>
    /\ error \in Complaint(files)
    /\ Assembled(files) =>
         /\ Known = Declared(files)
         /\ \A u \in ManifestUris : \A cursor \in Cursors(files[u]) :
              LET label == LabelAt(cursor) IN
              /\ References(cursor) =
                   IF error = None THEN RdepsClosure(files, label) ELSE {}
              /\ label = (IF cursor.literal \in Declared(files) THEN cursor.literal
                          ELSE cursor.target)

\* What an editor is shown and what it is told are the build's.
EditorIsRight == ShownIsCurrent /\ AnswersAreTheBuilds
=============================================================================
