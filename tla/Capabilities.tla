---------------------------- MODULE Capabilities ----------------------------
(***************************************************************************)
(* The catalogue of skills and shortcuts with its history (trace.rs), the  *)
(* handlers that edit it (server.rs), and its readers: the prompt of an    *)
(* agent and the hidden text of a message.                                 *)
(*                                                                         *)
(* A handler reads the record, checks the name and writes in transactions  *)
(* of their own, so any two handlers interleave between these steps; it    *)
(* may also fail or die at each of them.  A reader resolves one name after *)
(* another.  The history variable overtaken holds the requests whose       *)
(* record was changed by another one after they had read it.               *)
(***************************************************************************)
EXTENDS Sequences, FiniteSets, Integers

CONSTANTS
  Records, Titles, Contents,
  Kinds,      \* "skill", "shortcut"
  Spaced,     \* names of several words
  Editors,   \* requests of people that edit the catalogue
  Readers,    \* prompts and messages that resolve names
  Absent

Rows == [kind : Kinds, name : Titles, content : Contents, deleted : BOOLEAN]

ASSUME CapabilitiesAssumption ==
  /\ Absent \notin Records \cup Titles \cup Contents \cup Rows
  /\ Spaced \subseteq Titles

VARIABLES
  record,     \* record[c]: the row, None before it is created
  history,    \* history[c]: the rows of capability_history, in order
  request,    \* request[r]: the edit, how far it has come and the row it has read
  reader,     \* reader[q]: the kind, the names to resolve and the texts found
  overtaken   \* history: requests overtaken by another edit of their record

capabilitiesVars == <<record, history, request, reader, overtaken>>

HistoryEntry(r, action, name, content, changed) ==
  [by |-> r, action |-> action, name |-> name, content |-> content, changed |-> changed]

Used == {c \in Records : record[c] # Absent}

\* list_capabilities and list_deleted_capabilities.
Listed(kind, deleted) ==
  {c \in Used : record[c].kind = kind /\ record[c].deleted = deleted}

\* capability_name_taken: deleted records keep their name.
NameTaken(kind, name, but) ==
  \E c \in Used \ {but} : record[c].kind = kind /\ record[c].name = name

\* shortcut_name_valid: a shortcut is called by one word.
NameValid(kind, name) == kind = "shortcut" => name \notin Spaced

\* resolve_capability, at most one row by the UNIQUE of kind and name.
Resolve(kind, name) ==
  {c \in Listed(kind, FALSE) : record[c].name = name}

NoEdit == [op |-> Absent, at |-> "idle"]

\* Where request r stands, and where it goes.
AtStage(r, stage) == request[r].at = stage
Go(r, stage) == request' = [request EXCEPT ![r].at = stage]

Pending == {"insert", "name", "rename", "content", "delete", "answer"}

\* Requests on record c, other than r, that have read it and not ended.
Others(c, r) ==
  {o \in Editors \ {r} : request[o].op = "update" /\ request[o].at \in Pending
                          /\ request[o].id = c}

-----------------------------------------------------------------------------
(* Creation.                                                               *)

CreateCapability(r, kind, name, content) ==
  /\ AtStage(r, "idle") /\ NameValid(kind, name)
  /\ request' = [request EXCEPT ![r] =
       [op |-> "create", kind |-> kind, id |-> Absent, name |-> name, content |-> content,
        current |-> Absent,
        at |-> IF NameTaken(kind, name, Absent) THEN "conflict" ELSE "insert"]]
  /\ UNCHANGED <<record, history, reader, overtaken>>

\* create_capability: the record and its first entry in one transaction.
InsertCapability(r) ==
  /\ AtStage(r, "insert")
  /\ LET q == request[r] IN
     IF NameTaken(q.kind, q.name, Absent)       \* UNIQUE(kind, name)
       THEN Go(r, "error") /\ UNCHANGED <<record, history>>
       ELSE \E c \in Records \ Used :
              /\ record' = [record EXCEPT ![c] = [kind |-> q.kind, name |-> q.name,
                                                  content |-> q.content, deleted |-> FALSE]]
              /\ history' = [history EXCEPT ![c] =
                                <<HistoryEntry(r, "create", Absent, q.content, TRUE)>>]
              /\ request' = [request EXCEPT ![r].at = "ok", ![r].id = c]
  /\ UNCHANGED <<reader, overtaken>>

-----------------------------------------------------------------------------
(* Edition: the record is read once, the name and the content are compared *)
(* with what was read.                                                     *)

AfterNameElse(q, current) ==      \* faulty variant: a renaming forgets the content
  IF q.content # Absent /\ q.content # current.content /\ q.name \in {Absent, current.name}
    THEN "content" ELSE "answer"

\* The stages of an edit that are left after the name.
AfterName(q, current) ==
  IF q.content # Absent /\ q.content # current.content THEN "content" ELSE "answer"

\* The first stage of an edit.
FirstStage(q, current) ==
  IF q.name # Absent /\ q.name # current.name THEN "name" ELSE AfterName(q, current)

\* update_capability reads its record: a record of another kind is not found.
Update(r, kind, c, name, content) ==
  /\ AtStage(r, "idle")
  /\ name # Absent => NameValid(kind, name)
  /\ LET q == [op |-> "update", kind |-> kind, id |-> c, name |-> name,
               content |-> content, current |-> record[c], at |-> "missing"] IN
     request' = [request EXCEPT ![r] =
       IF c \in Used /\ record[c].kind = kind
         THEN [q EXCEPT !.at = FirstStage(q, record[c])] ELSE q]
  /\ UNCHANGED <<record, history, reader, overtaken>>

CheckNewName(r) ==
  /\ AtStage(r, "name")
  /\ LET q == request[r] IN
     Go(r, IF NameTaken(q.kind, q.name, q.id) THEN "conflict" ELSE "rename")
  /\ UNCHANGED <<record, history, reader, overtaken>>

RenameStale(r) ==                 \* faulty variant: the content read by the handler
  /\ AtStage(r, "rename")
  /\ LET q == request[r] IN
     IF NameTaken(q.kind, q.name, q.id)
       THEN Go(r, "error") /\ UNCHANGED <<record, history, overtaken>>
       ELSE /\ record' = [record EXCEPT ![q.id].name = q.name]
            /\ history' = [history EXCEPT ![q.id] = Append(@,
                 HistoryEntry(r, "rename", q.name, q.current.content,
                              record[q.id].name # q.name))]
            /\ overtaken' = overtaken \cup Others(q.id, r)
            /\ Go(r, AfterName(q, q.current))
  /\ UNCHANGED reader

\* rename_capability: the name and its entry, with the content it finds.
RenameCapability(r) ==
  /\ AtStage(r, "rename")
  /\ LET q == request[r] IN
     IF NameTaken(q.kind, q.name, q.id)
       THEN Go(r, "error") /\ UNCHANGED <<record, history, overtaken>>
       ELSE /\ record' = [record EXCEPT ![q.id].name = q.name]
            /\ history' = [history EXCEPT ![q.id] = Append(@,
                 HistoryEntry(r, "rename", q.name, record[q.id].content,
                              record[q.id].name # q.name))]
            /\ overtaken' = overtaken \cup Others(q.id, r)
            /\ Go(r, AfterName(q, q.current))
  /\ UNCHANGED reader

\* update_capability_content.
UpdateContent(r) ==
  /\ AtStage(r, "content")
  /\ LET q == request[r] IN
     /\ record' = [record EXCEPT ![q.id].content = q.content]
     /\ history' = [history EXCEPT ![q.id] = Append(@,
          HistoryEntry(r, "update", Absent, q.content, record[q.id].content # q.content))]
     /\ overtaken' = overtaken \cup Others(q.id, r)
  /\ Go(r, "answer")
  /\ UNCHANGED reader

\* The answer shows the record as it is now.
Answer(r) ==
  /\ AtStage(r, "answer")
  /\ request' = [request EXCEPT ![r].at = "ok", ![r].current = record[request[r].id]]
  /\ UNCHANGED <<record, history, reader, overtaken>>

-----------------------------------------------------------------------------
(* Deletion, which is soft.                                                *)

Delete(r, kind, c) ==
  /\ AtStage(r, "idle")
  /\ request' = [request EXCEPT ![r] =
       [op |-> "delete", kind |-> kind, id |-> c, name |-> Absent, content |-> Absent,
        current |-> Absent,
        at |-> IF c \in Used /\ record[c].kind = kind THEN "delete" ELSE "missing"]]
  /\ UNCHANGED <<record, history, reader, overtaken>>

DeleteCommit(r) ==
  /\ AtStage(r, "delete")
  /\ LET c == request[r].id IN
     IF record[c].deleted
       THEN Go(r, "missing") /\ UNCHANGED <<record, history>>
       ELSE /\ record' = [record EXCEPT ![c].deleted = TRUE]
            /\ history' = [history EXCEPT ![c] = Append(@,
                 HistoryEntry(r, "delete", Absent, record[c].content, TRUE))]
            /\ Go(r, "ok")
  /\ UNCHANGED <<reader, overtaken>>

\* The database refuses a statement or the server dies: a transaction is rolled
\* back, those committed before it stay.
Fail(r) ==
  /\ request[r].at \in Pending
  /\ Go(r, "error")
  /\ UNCHANGED <<record, history, reader, overtaken>>

-----------------------------------------------------------------------------
(* Readers.                                                                *)

\* shortcut_names of a message, or the skills of an agent: each name once.
StartReading(q, kind, names) ==
  /\ reader[q].left = <<>> /\ reader[q].kind = Absent
  /\ reader' = [reader EXCEPT ![q] =
       [kind |-> kind, left |-> names, found |-> <<>>,
        gone |-> {c \in Used : record[c].deleted}]]
  /\ UNCHANGED <<record, history, request, overtaken>>

ReadNext(q) ==
  /\ reader[q].left # <<>>
  /\ LET name == Head(reader[q].left)
         hits == Resolve(reader[q].kind, name) IN
     reader' = [reader EXCEPT
       ![q].left = Tail(@),
       ![q].found = IF hits = {} THEN @
                    ELSE LET c == CHOOSE h \in hits : TRUE IN
                         Append(@, [id |-> c, kind |-> record[c].kind, name |-> name,
                                    content |-> record[c].content])]
  /\ UNCHANGED <<record, history, request, overtaken>>

-----------------------------------------------------------------------------
InitCapabilities ==
  /\ record = [c \in Records |-> Absent]
  /\ history = [c \in Records |-> <<>>]
  /\ request = [r \in Editors |-> NoEdit]
  /\ reader = [q \in Readers |-> [kind |-> Absent, left |-> <<>>, found |-> <<>>, gone |-> {}]]
  /\ overtaken = {}

NameLists == {<<m, n>> : m, n \in Titles} \ {<<n, n>> : n \in Titles}

NextCapabilities ==
  \/ \E r \in Editors :
       \/ \E k \in Kinds, n \in Titles, t \in Contents : CreateCapability(r, k, n, t)
       \/ \E k \in Kinds, c \in Records, n \in Titles \cup {Absent}, t \in Contents \cup {Absent} :
            Update(r, k, c, n, t)
       \/ \E k \in Kinds, c \in Records : Delete(r, k, c)
       \/ InsertCapability(r) \/ CheckNewName(r) \/ RenameCapability(r)
       \/ UpdateContent(r) \/ Answer(r)
       \/ DeleteCommit(r) \/ Fail(r)
  \/ \E q \in Readers :
       \/ \E k \in Kinds, names \in NameLists : StartReading(q, k, names)
       \/ ReadNext(q)

SpecCapabilities == InitCapabilities /\ [][NextCapabilities]_capabilitiesVars

-----------------------------------------------------------------------------
(* Properties.                                                             *)

Entries == [by : Editors, action : {"create", "rename", "update", "delete"},
            name : Titles \cup {Absent}, content : Contents, changed : BOOLEAN]

Edits == [op : {"create", "update", "delete"}, kind : Kinds, id : Records \cup {Absent},
          name : Titles \cup {Absent}, content : Contents \cup {Absent},
          current : Rows \cup {Absent},
          at : Pending \cup {"ok", "conflict", "missing", "error"}]

\* Types, and the record every pending edit has read still exists.
CapabilitiesTypeOK ==
  /\ record \in [Records -> Rows \cup {Absent}]
  /\ history \in [Records -> Seq(Entries)]
  /\ request \in [Editors -> Edits \cup {NoEdit}]
  /\ \A r \in Editors : request[r].at \in {"name", "rename", "content", "answer", "delete"} =>
       request[r].id \in Used
  /\ overtaken \subseteq Editors

\* UNIQUE(kind, name) over deleted records too: two creations or renamings that both
\* found the name free never both take it.
NamesUnique ==
  \A c, d \in Used : record[c].kind = record[d].kind /\ record[c].name = record[d].name => c = d

\* Does history h tell of the row?
Tells(h, row) ==
  LET Of(action) == {i \in DOMAIN h : h[i].action = action} IN
  IF row = Absent THEN h = <<>>
  ELSE /\ Of("create") = {1}
       /\ h[Len(h)].content = row.content
       /\ \A i \in Of("rename") :
            (\A j \in Of("rename") : j <= i) => h[i].name = row.name
       /\ Cardinality(Of("delete")) = IF row.deleted THEN 1 ELSE 0

\* The history of a record tells its present: it starts with the creation, its last
\* entry shows the content, its last renaming the name, and it has one deletion if the
\* record is deleted, whatever edits met (trace.rs, one transaction per entry).
HistoryTellsRecord == \A c \in Records : Tells(history[c], record[c])

\* An edit that is refused (a name that is taken, a record that is not there or is
\* deleted already) leaves no trace in any history.
RefusedLeavesNoTrace ==
  \A c \in Records : \A i \in DOMAIN history[c] :
    request[history[c][i].by].at \notin {"conflict", "missing"}

\* update_capability writes no entry for a field that stays the same, except when
\* another edit came between its reading and its writing.
EmptyEntryOnlyIfOvertaken ==
  \A c \in Records : \A i \in DOMAIN history[c] :
    ~history[c][i].changed => history[c][i].by \in overtaken

\* An edit that nobody overtook answers with the record exactly as it asked for, in
\* both fields.
UndisturbedEditHolds ==
  \A r \in Editors \ overtaken :
    LET q == request[r] IN
    q.op = "update" /\ q.at = "ok" =>
      /\ q.name # Absent => q.current.name = q.name
      /\ q.content # Absent => q.current.content = q.content

\* The answer of an edit, its record and the history agree, whatever edits crossed it.
EditsOK == RefusedLeavesNoTrace /\ EmptyEntryOnlyIfOvertaken /\ UndisturbedEditHolds

\* A prompt or a hidden text holds no record that had been deleted before the reading
\* began, and none of the other kind.
ReadersFindTheLiving ==
  \A q \in Readers : \A i \in DOMAIN reader[q].found :
    /\ reader[q].found[i].id \notin reader[q].gone
    /\ reader[q].found[i].kind = reader[q].kind

\* The two tables tell the same, each name leads to one record, and readers that go
\* from name to name find the living ones.
CatalogueOK == CapabilitiesTypeOK /\ NamesUnique /\ HistoryTellsRecord /\ ReadersFindTheLiving
=============================================================================
