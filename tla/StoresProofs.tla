---------------------------- MODULE StoresProofs ----------------------------
(***************************************************************************)
(* Theorems about the tables of the stores, for any numbers of records,    *)
(* requests, runs and users: the catalogue of capabilities and its history *)
(* (Capabilities), the sets of agents and what a run loads of them         *)
(* (AgentSets), the accounts, roles and rights of users (Access).          *)
(*                                                                         *)
(* Each part has its invariant, one lemma per action and conjunct it can   *)
(* disturb, and at its end the theorems.                                   *)
(***************************************************************************)
EXTENDS Capabilities, AgentSets, Access,
        FiniteSetTheorems, WellFoundedInduction, SequenceTheorems, TLAPS

-----------------------------------------------------------------------------
(* The catalogue (module Capabilities).                                    *)

\* What a request that is under way knows, and that its record has its kind.
RequestsOK ==
  \A r \in Editors :
    LET q == request[r] IN
    /\ q.at = "delete" => q.op = "delete"
    /\ q.at = "insert" => q.op = "create" /\ q.name \in Titles /\ q.content \in Contents
    /\ q.at \in {"name", "rename", "content", "answer"} => q.op = "update" /\ q.current \in Rows
    /\ q.at \in {"name", "rename", "content", "answer", "delete"} =>
         q.id \in Used /\ record[q.id].kind = q.kind
    /\ q.at \in {"name", "rename"} => q.name \in Titles /\ q.name # q.current.name
    /\ q.at = "content" => q.content \in Contents /\ q.content # q.current.content

\* An edit that nobody overtook finds the record as it has read it, or as it left it.
UndisturbedSoFar ==
  \A r \in Editors \ overtaken :
    LET q == request[r] IN
    /\ q.at \in {"name", "rename"} => record[q.id].name = q.current.name
    /\ q.at \in {"name", "rename", "content"} => record[q.id].content = q.current.content
    /\ q.at \in {"content", "answer"} /\ q.name # Absent => record[q.id].name = q.name
    /\ q.at = "answer" /\ q.content # Absent => record[q.id].content = q.content

\* Only requests that are past their checks have written an entry.
WritersOK ==
  \A c \in Records : \A i \in DOMAIN history[c] :
    request[history[c][i].by].at \in {"content", "answer", "ok", "error"}

\* What was deleted when a reading began is deleted for good.
GoneStaysGone ==
  /\ reader \in [Readers -> [kind : Kinds \cup {Absent}, left : Seq(Titles),
                   found : Seq([id : Records, kind : Kinds, name : Titles, content : Contents]),
                   gone : SUBSET Records]]
  /\ \A q \in Readers : \A c \in reader[q].gone : c \in Used /\ record[c].deleted

CapabilitiesInv ==
  /\ CatalogueOK /\ EmptyEntryOnlyIfOvertaken /\ UndisturbedEditHolds
  /\ RequestsOK /\ UndisturbedSoFar /\ WritersOK /\ GoneStaysGone

LEMMA Appended ==
  ASSUME NEW S, NEW h \in Seq(S), NEW e \in S
  PROVE  /\ Append(h, e) \in Seq(S)
         /\ Len(h) \in Nat /\ DOMAIN h = 1..Len(h)
         /\ DOMAIN Append(h, e) = 1..(Len(h) + 1) /\ Len(Append(h, e)) = Len(h) + 1
         /\ \A i \in 1..Len(h) : Append(h, e)[i] = h[i]
         /\ Append(h, e)[Len(h) + 1] = e
OBVIOUS

LEMMA AppendedEach ==
  ASSUME NEW S, NEW h \in Seq(S), NEW e \in S
  PROVE  /\ Append(h, e) \in Seq(S)
         /\ \A i \in DOMAIN Append(h, e) :
              \/ Append(h, e)[i] = e
              \/ i \in DOMAIN h /\ Append(h, e)[i] = h[i]
BY Appended

\* An edit that is under way has all its fields.
LEMMA EditFields ==
  ASSUME CapabilitiesTypeOK, NEW r \in Editors, request[r].at # "idle"
  PROVE  request[r] \in Edits
BY DEF CapabilitiesTypeOK, NoEdit

\* A record that is written is a row, and no row is absent.
LEMMA RowsAreThere ==
  ASSUME CapabilitiesTypeOK
  PROVE  /\ \A c \in Used : c \in Records /\ record[c] \in Rows
         /\ \A x \in Rows : x # Absent
         /\ Absent \notin Records
BY CapabilitiesAssumption DEF CapabilitiesTypeOK, Used

-----------------------------------------------------------------------------
(* What the steps do to the tables.                                        *)

\* Record c becomes row, and its history gets entry e.
Writes(r, c, row, e) ==
  /\ c \in Used /\ row \in Rows /\ row.kind = record[c].kind
  /\ e \in Entries /\ e.by = r
  /\ record' = [record EXCEPT ![c] = row]
  /\ history' = [history EXCEPT ![c] = Append(@, e)]

LEMMA RenameWrites ==
  ASSUME CapabilitiesInv, NEW r \in Editors, RenameCapability(r)
  PROVE  \/ UNCHANGED <<record, history, overtaken>> /\ request' = [request EXCEPT ![r].at = "error"]
         \/ LET q == request[r]
                row == [record[q.id] EXCEPT !.name = q.name] IN
            /\ ~NameTaken(q.kind, q.name, q.id)
            /\ Writes(r, q.id, row, HistoryEntry(r, "rename", q.name, record[q.id].content,
                                                 record[q.id].name # q.name))
            /\ overtaken' = overtaken \cup Others(q.id, r)
            /\ request' = [request EXCEPT ![r].at = AfterName(q, q.current)]
<1>1. CASE NameTaken(request[r].kind, request[r].name, request[r].id)
  BY <1>1 DEF RenameCapability, Go
<1>2. CASE ~NameTaken(request[r].kind, request[r].name, request[r].id)
  <2> DEFINE q == request[r]
             row == [record[q.id] EXCEPT !.name = q.name]
             e == HistoryEntry(r, "rename", q.name, record[q.id].content, record[q.id].name # q.name)
  <2>1. q.at = "rename" /\ q.id \in Used /\ q.name \in Titles
    BY DEF RenameCapability, AtStage, CapabilitiesInv, RequestsOK
  <2>2. record[q.id] \in Rows
    BY <2>1, RowsAreThere DEF CapabilitiesInv, CatalogueOK
  <2>3. row \in Rows /\ row.kind = record[q.id].kind
    BY <2>1, <2>2 DEF Rows
  <2>4. e \in Entries /\ e.by = r
    BY <2>1, <2>2 DEF Entries, HistoryEntry, Rows
  <2>5. record' = [record EXCEPT ![q.id] = row] /\ history' = [history EXCEPT ![q.id] = Append(@, e)]
    BY <1>2 DEF RenameCapability
  <2>6. QED
    BY <1>2, <2>1, <2>3, <2>4, <2>5 DEF RenameCapability, Go, Writes
<1>3. QED
  BY <1>1, <1>2

LEMMA ContentWrites ==
  ASSUME CapabilitiesInv, NEW r \in Editors, UpdateContent(r)
  PROVE  LET q == request[r]
             row == [record[q.id] EXCEPT !.content = q.content] IN
         Writes(r, q.id, row, HistoryEntry(r, "update", Absent, q.content,
                                           record[q.id].content # q.content))
<1> DEFINE q == request[r]
           row == [record[q.id] EXCEPT !.content = q.content]
           e == HistoryEntry(r, "update", Absent, q.content, record[q.id].content # q.content)
<1>1. q.at = "content" /\ q.id \in Used /\ q.content \in Contents
  BY DEF UpdateContent, AtStage, CapabilitiesInv, RequestsOK
<1>2. record[q.id] \in Rows
  BY <1>1, RowsAreThere DEF CapabilitiesInv, CatalogueOK
<1>3. row \in Rows /\ row.kind = record[q.id].kind
  BY <1>1, <1>2 DEF Rows
<1>4. e \in Entries /\ e.by = r
  BY <1>1, <1>2 DEF Entries, HistoryEntry, Rows
<1>5. record' = [record EXCEPT ![q.id] = row] /\ history' = [history EXCEPT ![q.id] = Append(@, e)]
  BY DEF UpdateContent
<1>6. QED
  BY <1>1, <1>3, <1>4, <1>5 DEF Writes

LEMMA DeleteWrites ==
  ASSUME CapabilitiesInv, NEW r \in Editors, DeleteCommit(r)
  PROVE  \/ UNCHANGED <<record, history>> /\ request' = [request EXCEPT ![r].at = "missing"]
         \/ LET c == request[r].id
                row == [record[c] EXCEPT !.deleted = TRUE] IN
            /\ ~record[c].deleted
            /\ Writes(r, c, row, HistoryEntry(r, "delete", Absent, record[c].content, TRUE))
            /\ request' = [request EXCEPT ![r].at = "ok"]
<1>1. CASE record[request[r].id].deleted
  BY <1>1 DEF DeleteCommit, Go
<1>2. CASE ~record[request[r].id].deleted
  <2> DEFINE c == request[r].id
             row == [record[c] EXCEPT !.deleted = TRUE]
             e == HistoryEntry(r, "delete", Absent, record[c].content, TRUE)
  <2>1. c \in Used
    BY DEF DeleteCommit, AtStage, CapabilitiesInv, RequestsOK
  <2>2. record[c] \in Rows
    BY <2>1, RowsAreThere DEF CapabilitiesInv, CatalogueOK
  <2>3. row \in Rows /\ row.kind = record[c].kind
    BY <2>1, <2>2 DEF Rows
  <2>4. e \in Entries /\ e.by = r
    BY <2>1, <2>2 DEF Entries, HistoryEntry, Rows
  <2>5. record' = [record EXCEPT ![c] = row] /\ history' = [history EXCEPT ![c] = Append(@, e)]
    BY <1>2 DEF DeleteCommit
  <2>6. QED
    BY <1>2, <2>1, <2>3, <2>4, <2>5 DEF DeleteCommit, Go, Writes
<1>3. QED
  BY <1>1, <1>2

\* A creation that is stored has a record that was not there.
LEMMA InsertWrites ==
  ASSUME CapabilitiesInv, NEW r \in Editors, InsertCapability(r)
  PROVE  \/ UNCHANGED <<record, history>> /\ request' = [request EXCEPT ![r].at = "error"]
         \/ LET q == request[r]
                row == [kind |-> q.kind, name |-> q.name, content |-> q.content, deleted |-> FALSE]
                e == HistoryEntry(r, "create", Absent, q.content, TRUE) IN
            /\ ~NameTaken(q.kind, q.name, Absent)
            /\ \E c \in Records \ Used :
                 /\ row \in Rows /\ e \in Entries
                 /\ record' = [record EXCEPT ![c] = row]
                 /\ history' = [history EXCEPT ![c] = <<e>>]
                 /\ request' = [request EXCEPT ![r].at = "ok", ![r].id = c]
<1>1. CASE NameTaken(request[r].kind, request[r].name, Absent)
  BY <1>1 DEF InsertCapability, Go
<1>2. CASE ~NameTaken(request[r].kind, request[r].name, Absent)
  <2> DEFINE q == request[r]
             row == [kind |-> q.kind, name |-> q.name, content |-> q.content, deleted |-> FALSE]
             e == HistoryEntry(r, "create", Absent, q.content, TRUE)
  <2>1. q.at = "insert" /\ q.name \in Titles /\ q.content \in Contents
    BY DEF InsertCapability, AtStage, CapabilitiesInv, RequestsOK
  <2>2. q \in Edits
    BY <2>1, EditFields DEF CapabilitiesInv, CatalogueOK
  <2>3. row \in Rows
    BY <2>1, <2>2 DEF Rows, Edits
  <2>4. e \in Entries
    BY <2>1 DEF Entries, HistoryEntry
  <2>5. QED
    BY <1>2, <2>3, <2>4 DEF InsertCapability
<1>3. QED
  BY <1>1, <1>2

LEMMA WritesWhere ==
  ASSUME CapabilitiesInv, NEW r, NEW c, NEW row, NEW e, Writes(r, c, row, e)
  PROVE  /\ c \in Used /\ c \in Records /\ record[c] \in Rows
         /\ \A d \in Records \ {c} : record'[d] = record[d] /\ history'[d] = history[d]
         /\ record'[c] = row /\ history'[c] = Append(history[c], e)
         /\ Used' = Used
         /\ record' \in [Records -> Rows \cup {Absent}]
         /\ history' \in [Records -> Seq(Entries)]
         /\ history[c] \in Seq(Entries) /\ e \in Entries
<1>1. c \in Records /\ record[c] \in Rows /\ row # Absent /\ record[c] # Absent
  BY RowsAreThere DEF Writes, CapabilitiesInv, CatalogueOK
<1>2. /\ record \in [Records -> Rows \cup {Absent}] /\ history \in [Records -> Seq(Entries)]
  BY DEF CapabilitiesInv, CatalogueOK, CapabilitiesTypeOK
<1>3. Append(history[c], e) \in Seq(Entries)
  BY <1>1, <1>2, Appended DEF Writes
<1>4. \A d \in Records : record'[d] # Absent <=> record[d] # Absent
  BY <1>1, <1>2 DEF Writes
<1>5. QED
  BY <1>1, <1>2, <1>3, <1>4 DEF Writes, Used

\* Most steps only read the tables.
LEMMA StepKinds ==
  ASSUME [NextCapabilities]_capabilitiesVars
  PROVE  \/ UNCHANGED <<record, history, overtaken>>
         \/ \E r \in Editors : \/ InsertCapability(r) \/ RenameCapability(r)
                               \/ UpdateContent(r) \/ DeleteCommit(r)
<1>1. CASE UNCHANGED capabilitiesVars
  BY <1>1 DEF capabilitiesVars
<1>2. ASSUME NEW r \in Editors,
             \/ \E k \in Kinds, n \in Titles, t \in Contents : CreateCapability(r, k, n, t)
             \/ \E k \in Kinds, c \in Records, n \in Titles \cup {Absent}, t \in Contents \cup {Absent} :
                  Update(r, k, c, n, t)
             \/ \E k \in Kinds, c \in Records : Delete(r, k, c)
             \/ CheckNewName(r) \/ Answer(r) \/ Fail(r)
      PROVE  UNCHANGED <<record, history, overtaken>>
  BY <1>2 DEF CreateCapability, Update, Delete, CheckNewName, Answer, Fail
<1>3. ASSUME NEW q \in Readers,
             \/ \E k \in Kinds, names \in NameLists : StartReading(q, k, names)
             \/ ReadNext(q)
      PROVE  UNCHANGED <<record, history, overtaken>>
  BY <1>3 DEF StartReading, ReadNext
<1>4. QED
  BY <1>1, <1>2, <1>3, Zenon DEF NextCapabilities

-----------------------------------------------------------------------------
(* Names.                                                                  *)

LEMMA NamesStep ==
  ASSUME CapabilitiesInv, [NextCapabilities]_capabilitiesVars
  PROVE  NamesUnique'
<1>1. CASE UNCHANGED <<record, history, overtaken>>
  BY <1>1 DEF CapabilitiesInv, CatalogueOK, NamesUnique, Used
<1>2. ASSUME NEW r \in Editors, NEW c, NEW row, NEW e, Writes(r, c, row, e),
             row.name = record[c].name \/ ~NameTaken(row.kind, row.name, c)
      PROVE  NamesUnique'
  <2>1. ASSUME NEW d \in Used \ {c}, record[d].kind = row.kind, record[d].name = row.name
        PROVE  FALSE
    <3>1. NameTaken(row.kind, row.name, c)
      BY <2>1 DEF NameTaken
    <3>2. c \in Used /\ record[d].kind = record[c].kind /\ record[d].name = record[c].name
      BY <1>2, <2>1, <3>1 DEF Writes
    <3>3. QED
      BY <2>1, <3>2 DEF CapabilitiesInv, CatalogueOK, NamesUnique
  <2>2. Used \subseteq Records
    BY DEF Used
  <2>3. /\ Used' = Used /\ record'[c] = row
        /\ \A d \in Used \ {c} : record'[d] = record[d]
    BY <1>2, <2>2, WritesWhere
  <2>4. SUFFICES ASSUME NEW a \in Used, NEW b \in Used, a # b,
                        record'[a].kind = record'[b].kind, record'[a].name = record'[b].name
                 PROVE  FALSE
    BY <2>3 DEF NamesUnique
  <2>5. QED
    BY <2>1, <2>3, <2>4 DEF CapabilitiesInv, CatalogueOK, NamesUnique
<1>3. ASSUME NEW r \in Editors, InsertCapability(r)
      PROVE  NamesUnique'
  <2> DEFINE q == request[r]
             row == [kind |-> q.kind, name |-> q.name, content |-> q.content, deleted |-> FALSE]
  <2>1. CASE UNCHANGED record
    BY <2>1 DEF CapabilitiesInv, CatalogueOK, NamesUnique, Used
  <2>2. ASSUME ~NameTaken(q.kind, q.name, Absent), NEW c \in Records \ Used,
               record' = [record EXCEPT ![c] = row]
        PROVE  NamesUnique'
    <3>1. \A d \in Used : d # c /\ ~(record[d].kind = q.kind /\ record[d].name = q.name)
      BY <2>2, RowsAreThere DEF NameTaken, CapabilitiesInv, CatalogueOK
    <3>2. /\ \A d \in Records \ {c} : record'[d] = record[d]
          /\ record'[c].kind = q.kind /\ record'[c].name = q.name
      BY <2>2 DEF CapabilitiesInv, CatalogueOK, CapabilitiesTypeOK
    <3>3. Used' \subseteq Used \cup {c} /\ Used \subseteq Records
      BY <3>2 DEF Used
    <3>4. QED
      BY <3>1, <3>2, <3>3 DEF CapabilitiesInv, CatalogueOK, NamesUnique
  <2>3. QED
    BY <1>3, <2>1, <2>2, InsertWrites
<1>4. ASSUME NEW r \in Editors, RenameCapability(r)
      PROVE  NamesUnique'
  <2> DEFINE q == request[r]
             row == [record[q.id] EXCEPT !.name = q.name]
             e == HistoryEntry(r, "rename", q.name, record[q.id].content, record[q.id].name # q.name)
  <2>1. CASE UNCHANGED record
    BY <2>1 DEF CapabilitiesInv, CatalogueOK, NamesUnique, Used
  <2>2. CASE ~NameTaken(q.kind, q.name, q.id) /\ Writes(r, q.id, row, e)
    <3>1. record[q.id].kind = q.kind /\ record[q.id] \in Rows
      BY <1>4, <2>2, WritesWhere DEF RenameCapability, AtStage, CapabilitiesInv, RequestsOK
    <3>2. row.kind = q.kind /\ row.name = q.name
      BY <3>1 DEF Rows
    <3> HIDE DEF row, e
    <3>3. QED
      BY <1>2, <2>2, <3>2
  <2>3. QED
    BY <1>4, <2>1, <2>2, RenameWrites
<1>5. ASSUME NEW r \in Editors, UpdateContent(r)
      PROVE  NamesUnique'
  <2> DEFINE q == request[r]
             row == [record[q.id] EXCEPT !.content = q.content]
             e == HistoryEntry(r, "update", Absent, q.content, record[q.id].content # q.content)
  <2>1. Writes(r, q.id, row, e)
    BY <1>5, ContentWrites
  <2>2. row.name = record[q.id].name
    BY <2>1, WritesWhere DEF Rows
  <2> HIDE DEF row, e
  <2>3. QED
    BY <1>2, <2>1, <2>2
<1>6. ASSUME NEW r \in Editors, DeleteCommit(r)
      PROVE  NamesUnique'
  <2> DEFINE c == request[r].id
             row == [record[c] EXCEPT !.deleted = TRUE]
             e == HistoryEntry(r, "delete", Absent, record[c].content, TRUE)
  <2>1. CASE UNCHANGED record
    BY <2>1 DEF CapabilitiesInv, CatalogueOK, NamesUnique, Used
  <2>2. CASE Writes(r, c, row, e)
    <3>1. row.name = record[c].name
      BY <2>2, WritesWhere DEF Rows
    <3> HIDE DEF row, e
    <3>2. QED
      BY <1>2, <2>2, <3>1
  <2>3. QED
    BY <1>6, <2>1, <2>2, DeleteWrites
<1>7. QED
  BY <1>1, <1>3, <1>4, <1>5, <1>6, StepKinds

-----------------------------------------------------------------------------
(* History.                                                                *)

\* An entry that agrees with the row it comes with keeps the history true.
LEMMA HistoryAfter ==
  ASSUME CapabilitiesInv, NEW r, NEW c, NEW row, NEW e, Writes(r, c, row, e),
         e.action \in {"rename", "update", "delete"}, e.content = row.content,
         IF e.action = "rename" THEN e.name = row.name ELSE row.name = record[c].name,
         IF e.action = "delete" THEN row.deleted /\ ~record[c].deleted
                                ELSE row.deleted = record[c].deleted
  PROVE  HistoryTellsRecord'
<1> DEFINE h == history[c]
           n == Len(h)
           Of(action) == {i \in DOMAIN h : h[i].action = action}
           OfNew(action) == {i \in DOMAIN history'[c] : history'[c][i].action = action}
<1>1. /\ c \in Used /\ c \in Records /\ record[c] \in Rows /\ row \in Rows
      /\ \A d \in Records \ {c} : record'[d] = record[d] /\ history'[d] = history[d]
      /\ record'[c] = row /\ row # Absent /\ record[c] # Absent
  BY WritesWhere, RowsAreThere DEF Writes, CapabilitiesInv, CatalogueOK
<1>2. /\ n \in Nat /\ DOMAIN h = 1..n
      /\ DOMAIN history'[c] = 1..(n + 1) /\ Len(history'[c]) = n + 1
      /\ \A i \in 1..n : history'[c][i] = h[i]
      /\ history'[c][n + 1] = e
  <2>1. h \in Seq(Entries) /\ e \in Entries /\ history'[c] = Append(h, e)
    BY WritesWhere
  <2> HIDE DEF h
  <2>2. QED
    BY <2>1, Appended
<1>3. /\ Of("create") = {1} /\ h[n].content = record[c].content
      /\ \A i \in Of("rename") : (\A j \in Of("rename") : j <= i) => h[i].name = record[c].name
      /\ Cardinality(Of("delete")) = IF record[c].deleted THEN 1 ELSE 0
  BY <1>1, ZenonT(40) DEF CapabilitiesInv, CatalogueOK, HistoryTellsRecord, Tells
<1>4. \A action : OfNew(action) = IF action = e.action THEN Of(action) \cup {n + 1} ELSE Of(action)
  BY <1>2
<1>5. OfNew("create") = {1}
  BY <1>3, <1>4
<1>6. history'[c][n + 1].content = row.content
  BY <1>2
<1>7. ASSUME NEW i \in OfNew("rename"), \A j \in OfNew("rename") : j <= i
      PROVE  history'[c][i].name = row.name
  <2>1. CASE e.action = "rename"
    <3>1. n + 1 \in OfNew("rename") /\ i \in 1..(n + 1)
      BY <1>2, <1>4, <2>1
    <3>2. i = n + 1
      BY <1>2, <1>7, <3>1
    <3>3. QED
      BY <1>2, <2>1, <3>2
  <2>2. CASE e.action # "rename"
    <3>1. OfNew("rename") = Of("rename")
      BY <1>4, <2>2
    <3>2. h[i].name = record[c].name /\ history'[c][i] = h[i]
      BY <1>2, <1>3, <1>7, <3>1
    <3>3. QED
      BY <2>2, <3>2
  <2>3. QED
    BY <2>1, <2>2
<1>8. Cardinality(OfNew("delete")) = IF row.deleted THEN 1 ELSE 0
  <2>1. CASE e.action = "delete"
    <3>1. IsFiniteSet(Of("delete")) /\ n + 1 \notin Of("delete")
      <4>1. Of("delete") \subseteq 1..n
        BY <1>2
      <4>2. n \in Int /\ IsFiniteSet(1..n)
        BY <1>2, FS_Interval
      <4>3. n + 1 \notin 1..n
        BY <1>2
      <4> HIDE DEF Of, n
      <4>4. QED
        BY <4>1, <4>2, <4>3, FS_Subset
    <3>2. OfNew("delete") = Of("delete") \cup {n + 1} /\ Cardinality(Of("delete")) = 0
      BY <1>3, <1>4, <2>1
    <3> HIDE DEF Of, OfNew
    <3>3. Cardinality(OfNew("delete")) = 1
      BY <3>1, <3>2, FS_AddElement
    <3>4. QED
      BY <2>1, <3>3
  <2>2. CASE e.action # "delete"
    BY <1>3, <1>4, <2>2
  <2>3. QED
    BY <2>1, <2>2
<1>9. QED
  <2>1. Tells(history'[c], row)
    BY <1>1, <1>2, <1>5, <1>6, <1>7, <1>8 DEF Tells
  <2>2. QED
    BY <1>1, <2>1 DEF CapabilitiesInv, CatalogueOK, HistoryTellsRecord

LEMMA HistoryStep ==
  ASSUME CapabilitiesInv, [NextCapabilities]_capabilitiesVars
  PROVE  HistoryTellsRecord'
<1>0. ASSUME UNCHANGED <<record, history>>
      PROVE  HistoryTellsRecord'
  BY <1>0 DEF CapabilitiesInv, CatalogueOK, HistoryTellsRecord
<1>1. ASSUME NEW r \in Editors, InsertCapability(r)
      PROVE  HistoryTellsRecord'
  <2> DEFINE q == request[r]
             row == [kind |-> q.kind, name |-> q.name, content |-> q.content, deleted |-> FALSE]
             e == HistoryEntry(r, "create", Absent, q.content, TRUE)
  <2>1. ASSUME NEW c \in Records \ Used, row \in Rows,
               record' = [record EXCEPT ![c] = row], history' = [history EXCEPT ![c] = <<e>>]
        PROVE  HistoryTellsRecord'
    <3>1. /\ \A d \in Records \ {c} : record'[d] = record[d] /\ history'[d] = history[d]
          /\ record'[c] = row /\ row # Absent /\ history'[c] = <<e>>
      BY <2>1, RowsAreThere DEF CapabilitiesInv, CatalogueOK, CapabilitiesTypeOK
    <3>2. /\ row.content = q.content /\ row.deleted = FALSE
          /\ e.action = "create" /\ e.content = q.content
      BY DEF HistoryEntry
    <3> HIDE DEF row, e
    <3>3. /\ DOMAIN <<e>> = {1} /\ Len(<<e>>) = 1 /\ <<e>>[1] = e
      OBVIOUS
    <3>4. /\ {i \in DOMAIN <<e>> : <<e>>[i].action = "create"} = {1}
          /\ {i \in DOMAIN <<e>> : <<e>>[i].action = "rename"} = {}
          /\ {i \in DOMAIN <<e>> : <<e>>[i].action = "delete"} = {}
      BY <3>2, <3>3
    <3>5. Tells(<<e>>, row)
      BY <3>1, <3>2, <3>3, <3>4, FS_EmptySet DEF Tells
    <3>6. QED
      BY <3>1, <3>5 DEF CapabilitiesInv, CatalogueOK, HistoryTellsRecord
  <2>2. QED
    BY <1>0, <1>1, <2>1, InsertWrites
<1>2. ASSUME NEW r \in Editors, RenameCapability(r)
      PROVE  HistoryTellsRecord'
  <2> DEFINE q == request[r]
             row == [record[q.id] EXCEPT !.name = q.name]
             e == HistoryEntry(r, "rename", q.name, record[q.id].content, record[q.id].name # q.name)
  <2>1. ASSUME Writes(r, q.id, row, e)
        PROVE  HistoryTellsRecord'
    <3>1. record[q.id] \in Rows
      BY <2>1, WritesWhere
    <3>2. /\ e.action = "rename" /\ e.name = q.name /\ e.content = record[q.id].content
          /\ row.name = q.name /\ row.content = record[q.id].content
          /\ row.deleted = record[q.id].deleted
      BY <3>1 DEF HistoryEntry, Rows
    <3> HIDE DEF row, e
    <3>3. QED
      BY <2>1, <3>2, HistoryAfter
  <2>2. QED
    BY <1>0, <1>2, <2>1, RenameWrites
<1>3. ASSUME NEW r \in Editors, UpdateContent(r)
      PROVE  HistoryTellsRecord'
  <2> DEFINE q == request[r]
             row == [record[q.id] EXCEPT !.content = q.content]
             e == HistoryEntry(r, "update", Absent, q.content, record[q.id].content # q.content)
  <2>1. Writes(r, q.id, row, e)
    BY <1>3, ContentWrites
  <2>2. record[q.id] \in Rows
    BY <2>1, WritesWhere
  <2>3. /\ e.action = "update" /\ e.content = q.content
        /\ row.name = record[q.id].name /\ row.content = q.content
        /\ row.deleted = record[q.id].deleted
    BY <2>2 DEF HistoryEntry, Rows
  <2> HIDE DEF row, e
  <2>4. QED
    BY <2>1, <2>3, HistoryAfter
<1>4. ASSUME NEW r \in Editors, DeleteCommit(r)
      PROVE  HistoryTellsRecord'
  <2> DEFINE c == request[r].id
             row == [record[c] EXCEPT !.deleted = TRUE]
             e == HistoryEntry(r, "delete", Absent, record[c].content, TRUE)
  <2>1. ASSUME Writes(r, c, row, e), ~record[c].deleted
        PROVE  HistoryTellsRecord'
    <3>1. record[c] \in Rows
      BY <2>1, WritesWhere
    <3>2. /\ e.action = "delete" /\ e.content = record[c].content
          /\ row.name = record[c].name /\ row.content = record[c].content /\ row.deleted
      BY <3>1 DEF HistoryEntry, Rows
    <3> HIDE DEF row, e
    <3>3. QED
      BY <2>1, <3>2, HistoryAfter
  <2>2. QED
    BY <1>0, <1>4, <2>1, DeleteWrites
<1>5. QED
  BY <1>0, <1>1, <1>2, <1>3, <1>4, StepKinds

-----------------------------------------------------------------------------
(* Types and what the requests know.                                       *)

LEMMA InsertUsed ==
  ASSUME CapabilitiesInv, NEW c \in Records \ Used, NEW row \in Rows, NEW e \in Entries,
         record' = [record EXCEPT ![c] = row], history' = [history EXCEPT ![c] = <<e>>]
  PROVE  /\ Used' = Used \cup {c}
         /\ record' \in [Records -> Rows \cup {Absent}]
         /\ history' \in [Records -> Seq(Entries)]
         /\ \A d \in Used : record'[d] = record[d]
<1>1. row # Absent /\ c \in Records
  BY RowsAreThere DEF CapabilitiesInv, CatalogueOK
<1>2. <<e>> \in Seq(Entries)
  OBVIOUS
<1>3. QED
  BY <1>1, <1>2 DEF CapabilitiesInv, CatalogueOK, CapabilitiesTypeOK, Used

\* No row disappears, and none changes its kind or is alive again.
LEMMA RowsStay ==
  ASSUME CapabilitiesInv, [NextCapabilities]_capabilitiesVars
  PROVE  /\ record' \in [Records -> Rows \cup {Absent}]
         /\ history' \in [Records -> Seq(Entries)]
         /\ Used \subseteq Used' /\ Used' \subseteq Records
         /\ \A c \in Used : /\ record'[c].kind = record[c].kind
                            /\ record[c].deleted => record'[c].deleted
<1>0. Used' \subseteq Records
  BY DEF Used
<1>1. ASSUME UNCHANGED <<record, history>>
      PROVE  /\ record' \in [Records -> Rows \cup {Absent}]
             /\ history' \in [Records -> Seq(Entries)]
             /\ Used' = Used /\ \A c \in Used : record'[c] = record[c]
  BY <1>1 DEF CapabilitiesInv, CatalogueOK, CapabilitiesTypeOK, Used
<1>2. ASSUME NEW r, NEW c, NEW row, NEW e, Writes(r, c, row, e),
             record[c].deleted => row.deleted
      PROVE  /\ record' \in [Records -> Rows \cup {Absent}]
             /\ history' \in [Records -> Seq(Entries)]
             /\ Used' = Used
             /\ \A d \in Used : /\ record'[d].kind = record[d].kind
                                /\ record[d].deleted => record'[d].deleted
  <2>1. Used \subseteq Records
    BY DEF Used
  <2>2. row.kind = record[c].kind
    BY <1>2 DEF Writes
  <2>3. /\ record' \in [Records -> Rows \cup {Absent}] /\ history' \in [Records -> Seq(Entries)]
        /\ Used' = Used /\ record'[c] = row
        /\ \A d \in Records \ {c} : record'[d] = record[d]
    BY <1>2, WritesWhere
  <2>4. ASSUME NEW d \in Used
        PROVE  record'[d].kind = record[d].kind /\ (record[d].deleted => record'[d].deleted)
    <3>1. CASE d = c
      BY <1>2, <2>2, <2>3, <3>1
    <3>2. CASE d # c
      <4>1. record'[d] = record[d]
        BY <2>1, <2>3, <3>2
      <4> QED
        BY <4>1
    <3> QED
      BY <3>1, <3>2
  <2>5. QED
    BY <2>3, <2>4
<1>3. ASSUME NEW r \in Editors, InsertCapability(r)
      PROVE  /\ record' \in [Records -> Rows \cup {Absent}]
             /\ history' \in [Records -> Seq(Entries)]
             /\ Used \subseteq Used' /\ \A d \in Used : record'[d] = record[d]
  <2>1. CASE UNCHANGED <<record, history>>
    BY <1>1, <2>1
  <2>2. CASE ~UNCHANGED <<record, history>>
    <3> DEFINE q == request[r]
               row == [kind |-> q.kind, name |-> q.name, content |-> q.content, deleted |-> FALSE]
               e == HistoryEntry(r, "create", Absent, q.content, TRUE)
    <3>1. PICK c \in Records \ Used :
            /\ row \in Rows /\ e \in Entries
            /\ record' = [record EXCEPT ![c] = row] /\ history' = [history EXCEPT ![c] = <<e>>]
      BY <1>3, <2>2, InsertWrites
    <3> HIDE DEF row, e
    <3>2. QED
      BY <3>1, InsertUsed
  <2>3. QED
    BY <2>1, <2>2
<1>4. ASSUME NEW r \in Editors, RenameCapability(r), ~UNCHANGED <<record, history>>
      PROVE  \E c, row, e : Writes(r, c, row, e) /\ (record[c].deleted => row.deleted)
  <2> DEFINE c == request[r].id
             row == [record[c] EXCEPT !.name = request[r].name]
             e == HistoryEntry(r, "rename", request[r].name, record[c].content,
                               record[c].name # request[r].name)
  <2>1. Writes(r, c, row, e)
    BY <1>4, RenameWrites
  <2>2. row.deleted = record[c].deleted
    BY <2>1, WritesWhere DEF Rows
  <2> HIDE DEF row, e
  <2>3. QED
    BY <2>1, <2>2
<1>5. ASSUME NEW r \in Editors, UpdateContent(r)
      PROVE  \E c, row, e : Writes(r, c, row, e) /\ (record[c].deleted => row.deleted)
  <2> DEFINE c == request[r].id
             row == [record[c] EXCEPT !.content = request[r].content]
             e == HistoryEntry(r, "update", Absent, request[r].content,
                               record[c].content # request[r].content)
  <2>1. Writes(r, c, row, e)
    BY <1>5, ContentWrites
  <2>2. row.deleted = record[c].deleted
    BY <2>1, WritesWhere DEF Rows
  <2> HIDE DEF row, e
  <2>3. QED
    BY <2>1, <2>2
<1>6. ASSUME NEW r \in Editors, DeleteCommit(r), ~UNCHANGED <<record, history>>
      PROVE  \E c, row, e : Writes(r, c, row, e) /\ (record[c].deleted => row.deleted)
  <2> DEFINE c == request[r].id
             row == [record[c] EXCEPT !.deleted = TRUE]
             e == HistoryEntry(r, "delete", Absent, record[c].content, TRUE)
  <2>1. Writes(r, c, row, e)
    BY <1>6, DeleteWrites
  <2>2. row.deleted
    BY <2>1, WritesWhere DEF Rows
  <2> HIDE DEF row, e
  <2>3. QED
    BY <2>1, <2>2
<1>7. CASE UNCHANGED <<record, history>>
  BY <1>0, <1>1, <1>7
<1>8. CASE ~UNCHANGED <<record, history>>
  BY <1>0, <1>2, <1>3, <1>4, <1>5, <1>6, <1>8, StepKinds
<1>9. QED
  BY <1>7, <1>8

LEMMA GoType ==
  ASSUME CapabilitiesInv, NEW r \in Editors, request[r].at # "idle",
         NEW stage \in Pending \cup {"ok", "conflict", "missing", "error"}
  PROVE  /\ [request EXCEPT ![r].at = stage] \in [Editors -> Edits \cup {NoEdit}]
         /\ request[r] \in Edits
<1>1. request[r] \in Edits /\ request \in [Editors -> Edits \cup {NoEdit}]
  BY EditFields DEF CapabilitiesInv, CatalogueOK, CapabilitiesTypeOK
<1>2. [request[r] EXCEPT !.at = stage] \in Edits
  BY <1>1 DEF Edits
<1>3. QED
  BY <1>1, <1>2

LEMMA TypeStep ==
  ASSUME CapabilitiesInv, [NextCapabilities]_capabilitiesVars
  PROVE  request' \in [Editors -> Edits \cup {NoEdit}] /\ overtaken' \subseteq Editors
<1>0. /\ request \in [Editors -> Edits \cup {NoEdit}] /\ overtaken \subseteq Editors
      /\ record \in [Records -> Rows \cup {Absent}]
  BY DEF CapabilitiesInv, CatalogueOK, CapabilitiesTypeOK
<1>1. \A c, r : Others(c, r) \subseteq Editors
  BY DEF Others
<1>2. ASSUME NEW r \in Editors, NEW k \in Kinds, NEW n \in Titles, NEW t \in Contents,
             CreateCapability(r, k, n, t)
      PROVE  request' \in [Editors -> Edits \cup {NoEdit}] /\ overtaken' = overtaken
  BY <1>0, <1>2 DEF CreateCapability, Edits, Pending
<1>3. ASSUME NEW r \in Editors, NEW k \in Kinds, NEW c \in Records,
             NEW n \in Titles \cup {Absent}, NEW t \in Contents \cup {Absent}, Update(r, k, c, n, t)
      PROVE  request' \in [Editors -> Edits \cup {NoEdit}] /\ overtaken' = overtaken
  <2> DEFINE q == [op |-> "update", kind |-> k, id |-> c, name |-> n, content |-> t,
                   current |-> record[c], at |-> "missing"]
  <2>1. q \in Edits /\ [q EXCEPT !.at = FirstStage(q, record[c])] \in Edits
    <3>1. FirstStage(q, record[c]) \in Pending
      BY DEF FirstStage, AfterName, Pending
    <3>2. q \in Edits
      BY <1>0 DEF Edits
    <3>3. QED
      BY <3>1, <3>2 DEF Edits
  <2>2. request' = [request EXCEPT ![r] = IF c \in Used /\ record[c].kind = k
                      THEN [q EXCEPT !.at = FirstStage(q, record[c])] ELSE q]
    BY <1>3 DEF Update
  <2>3. overtaken' = overtaken
    BY <1>3 DEF Update
  <2> HIDE DEF q
  <2>4. QED
    BY <1>0, <2>1, <2>2, <2>3
<1>4. ASSUME NEW r \in Editors, NEW k \in Kinds, NEW c \in Records, Delete(r, k, c)
      PROVE  request' \in [Editors -> Edits \cup {NoEdit}] /\ overtaken' = overtaken
  BY <1>0, <1>4 DEF Delete, Edits, Pending
<1>5. ASSUME NEW r \in Editors, InsertCapability(r)
      PROVE  request' \in [Editors -> Edits \cup {NoEdit}] /\ overtaken' = overtaken
  <2>1. request[r].at = "insert" /\ overtaken' = overtaken
    BY <1>5 DEF InsertCapability, AtStage
  <2>2. request[r] \in Edits /\ [request EXCEPT ![r].at = "error"] \in [Editors -> Edits \cup {NoEdit}]
    BY <2>1, GoType
  <2>3. ASSUME NEW c \in Records
        PROVE  [request EXCEPT ![r].at = "ok", ![r].id = c] \in [Editors -> Edits \cup {NoEdit}]
    <3>1. [request[r] EXCEPT !.at = "ok", !.id = c] \in Edits
      BY <2>2 DEF Edits
    <3>2. QED
      BY <1>0, <3>1
  <2>4. \/ request' = [request EXCEPT ![r].at = "error"]
        \/ \E c \in Records : request' = [request EXCEPT ![r].at = "ok", ![r].id = c]
    BY <1>5 DEF InsertCapability, Go
  <2>5. QED
    BY <2>1, <2>2, <2>3, <2>4
<1>6. ASSUME NEW r \in Editors, CheckNewName(r)
      PROVE  request' \in [Editors -> Edits \cup {NoEdit}] /\ overtaken' = overtaken
  BY <1>6, GoType DEF CheckNewName, AtStage, Go, Pending
<1>7. ASSUME NEW r \in Editors, RenameCapability(r)
      PROVE  request' \in [Editors -> Edits \cup {NoEdit}] /\ overtaken' \subseteq Editors
  <2>1. request[r].at # "idle"
    BY <1>7 DEF RenameCapability, AtStage
  <2>2. AfterName(request[r], request[r].current) \in Pending
    BY DEF AfterName, Pending
  <2>3. /\ overtaken' = overtaken \/ overtaken' = overtaken \cup Others(request[r].id, r)
        /\ \/ request' = [request EXCEPT ![r].at = "error"]
           \/ request' = [request EXCEPT ![r].at = AfterName(request[r], request[r].current)]
    BY <1>7 DEF RenameCapability, Go
  <2>4. overtaken' \subseteq Editors
    BY <1>0, <1>1, <2>3
  <2>5. [request EXCEPT ![r].at = "error"] \in [Editors -> Edits \cup {NoEdit}]
    BY <2>1, GoType
  <2>6. [request EXCEPT ![r].at = AfterName(request[r], request[r].current)]
          \in [Editors -> Edits \cup {NoEdit}]
    BY <2>1, <2>2, GoType
  <2>7. QED
    BY <2>3, <2>4, <2>5, <2>6
<1>8. ASSUME NEW r \in Editors, UpdateContent(r)
      PROVE  request' \in [Editors -> Edits \cup {NoEdit}] /\ overtaken' \subseteq Editors
  BY <1>0, <1>1, <1>8, GoType DEF UpdateContent, AtStage, Go, Pending
<1>9. ASSUME NEW r \in Editors, Answer(r)
      PROVE  request' \in [Editors -> Edits \cup {NoEdit}] /\ overtaken' = overtaken
  <2>1. request[r].at = "answer" /\ request[r].id \in Used
    BY <1>9 DEF Answer, AtStage, CapabilitiesInv, RequestsOK
  <2>2. request[r] \in Edits /\ record[request[r].id] \in Rows
    BY <2>1, GoType, RowsAreThere DEF CapabilitiesInv, CatalogueOK
  <2>3. [request[r] EXCEPT !.at = "ok", !.current = record[request[r].id]] \in Edits
    BY <2>2 DEF Edits
  <2>4. QED
    BY <1>0, <1>9, <2>3 DEF Answer
<1>10. ASSUME NEW r \in Editors, DeleteCommit(r)
      PROVE  request' \in [Editors -> Edits \cup {NoEdit}] /\ overtaken' = overtaken
  <2>1. request[r].at # "idle" /\ overtaken' = overtaken
    BY <1>10 DEF DeleteCommit, AtStage
  <2>2. \/ request' = [request EXCEPT ![r].at = "missing"]
        \/ request' = [request EXCEPT ![r].at = "ok"]
    BY <1>10 DEF DeleteCommit, Go
  <2>3. /\ [request EXCEPT ![r].at = "missing"] \in [Editors -> Edits \cup {NoEdit}]
        /\ [request EXCEPT ![r].at = "ok"] \in [Editors -> Edits \cup {NoEdit}]
    BY <2>1, GoType
  <2>4. QED
    BY <2>1, <2>2, <2>3
<1>11. ASSUME NEW r \in Editors, Fail(r)
      PROVE  request' \in [Editors -> Edits \cup {NoEdit}] /\ overtaken' = overtaken
  BY <1>11, GoType DEF Fail, Go, Pending
<1>12. ASSUME NEW q \in Readers,
              (\E k \in Kinds, names \in NameLists : StartReading(q, k, names)) \/ ReadNext(q)
       PROVE  request' = request /\ overtaken' = overtaken
  BY <1>12 DEF StartReading, ReadNext
<1>13. CASE UNCHANGED capabilitiesVars
  BY <1>0, <1>13 DEF capabilitiesVars
<1>14. QED
  BY <1>0, <1>2, <1>3, <1>4, <1>5, <1>6, <1>7, <1>8, <1>9, <1>10, <1>11, <1>12, <1>13
     DEF NextCapabilities

\* How the request of a step moves on; the other requests stay as they are.
LEMMA RequestsStep ==
  ASSUME CapabilitiesInv, [NextCapabilities]_capabilitiesVars
  PROVE  RequestsOK'
<1>0. /\ request \in [Editors -> Edits \cup {NoEdit}]
      /\ Used \subseteq Used' /\ Used \subseteq Records
      /\ \A c \in Used : record'[c].kind = record[c].kind
      /\ \A c \in Used : record[c] \in Rows
  BY RowsStay, RowsAreThere DEF CapabilitiesInv, CatalogueOK, CapabilitiesTypeOK
<1> DEFINE OK(q) ==
      /\ q.at = "insert" => q.op = "create" /\ q.name \in Titles /\ q.content \in Contents
      /\ q.at = "delete" => q.op = "delete"
      /\ q.at \in {"name", "rename", "content", "answer"} => q.op = "update" /\ q.current \in Rows
      /\ q.at \in {"name", "rename", "content", "answer", "delete"} =>
           q.id \in Used /\ record[q.id].kind = q.kind
      /\ q.at \in {"name", "rename"} => q.name \in Titles /\ q.name # q.current.name
      /\ q.at = "content" => q.content \in Contents /\ q.content # q.current.content
<1>1. \A r \in Editors : OK(request[r])
  BY DEF CapabilitiesInv, RequestsOK
<1>2. ASSUME NEW r \in Editors, NEW q, OK(q), request' = [request EXCEPT ![r] = q]
      PROVE  RequestsOK'
  <2>1. \A o \in Editors : OK(request'[o])
    BY <1>0, <1>1, <1>2
  <2>2. \A o \in Editors : OK(request[o])'
    BY <1>0, <2>1
  <2>3. QED
    BY <2>2 DEF RequestsOK
<1>3. ASSUME request' = request
      PROVE  RequestsOK'
  <2>1. \A o \in Editors : OK(request[o])'
    BY <1>0, <1>1, <1>3
  <2>2. QED
    BY <2>1 DEF RequestsOK
<1>4. \A r \in Editors : request[r].at # "idle" => request[r] \in Edits
  BY EditFields DEF CapabilitiesInv, CatalogueOK
\* An ended request knows nothing.
<1>5. ASSUME NEW r \in Editors, request[r].at # "idle",
             NEW stage \in {"ok", "conflict", "missing", "error"}
      PROVE  OK([request[r] EXCEPT !.at = stage])
  <2>1. [request[r] EXCEPT !.at = stage].at = stage
    BY <1>4, <1>5 DEF Edits
  <2>2. QED
    BY <2>1
<1>6. ASSUME NEW r \in Editors, NEW k \in Kinds, NEW n \in Titles, NEW t \in Contents,
             CreateCapability(r, k, n, t)
      PROVE  RequestsOK'
  <2> DEFINE q == [op |-> "create", kind |-> k, id |-> Absent, name |-> n, content |-> t,
                   current |-> Absent,
                   at |-> IF NameTaken(k, n, Absent) THEN "conflict" ELSE "insert"]
  <2>1. OK(q)
    OBVIOUS
  <2>2. request' = [request EXCEPT ![r] = q]
    BY <1>6 DEF CreateCapability
  <2> HIDE DEF q, OK
  <2>3. QED
    BY <1>2, <2>1, <2>2
<1>7. ASSUME NEW r \in Editors, NEW k \in Kinds, NEW c \in Records,
             NEW n \in Titles \cup {Absent}, NEW t \in Contents \cup {Absent}, Update(r, k, c, n, t)
      PROVE  RequestsOK'
  <2> DEFINE q == [op |-> "update", kind |-> k, id |-> c, name |-> n, content |-> t,
                   current |-> record[c], at |-> "missing"]
             new == IF c \in Used /\ record[c].kind = k
                      THEN [q EXCEPT !.at = FirstStage(q, record[c])] ELSE q
  <2>1. ASSUME c \in Used /\ record[c].kind = k
        PROVE  OK(new)
    <3>1. FirstStage(q, record[c]) \in {"name", "content", "answer"}
      BY DEF FirstStage, AfterName
    <3>2. FirstStage(q, record[c]) = "name" => n \in Titles /\ n # record[c].name
      BY DEF FirstStage, AfterName
    <3>3. FirstStage(q, record[c]) = "content" => t \in Contents /\ t # record[c].content
      BY DEF FirstStage, AfterName
    <3>4. QED
      BY <1>0, <2>1, <3>1, <3>2, <3>3
  <2>2. ASSUME ~(c \in Used /\ record[c].kind = k)
        PROVE  OK(new)
    BY <2>2
  <2>3. OK(new)
    BY <2>1, <2>2
  <2>4. request' = [request EXCEPT ![r] = new]
    BY <1>7 DEF Update
  <2> HIDE DEF new, OK
  <2>5. QED
    BY <1>2, <2>3, <2>4
<1>8. ASSUME NEW r \in Editors, NEW k \in Kinds, NEW c \in Records, Delete(r, k, c)
      PROVE  RequestsOK'
  <2> DEFINE q == [op |-> "delete", kind |-> k, id |-> c, name |-> Absent, content |-> Absent,
                   current |-> Absent,
                   at |-> IF c \in Used /\ record[c].kind = k THEN "delete" ELSE "missing"]
  <2>1. OK(q)
    OBVIOUS
  <2>2. request' = [request EXCEPT ![r] = q]
    BY <1>8 DEF Delete
  <2> HIDE DEF q, OK
  <2>3. QED
    BY <1>2, <2>1, <2>2
\* Requests that end.
<1>9. ASSUME NEW r \in Editors, InsertCapability(r) \/ DeleteCommit(r) \/ UpdateContent(r)
                                  \/ Answer(r) \/ Fail(r) \/ CheckNewName(r) \/ RenameCapability(r)
      PROVE  RequestsOK'
  <2> DEFINE q == request[r]
  <2>1. q.at # "idle" /\ q \in Edits
    BY <1>4, <1>9 DEF InsertCapability, DeleteCommit, UpdateContent, Answer, Fail, CheckNewName,
                      RenameCapability, AtStage, Pending
  <2>2. ASSUME NEW stage \in {"ok", "conflict", "missing", "error"},
               request' = [request EXCEPT ![r].at = stage]
        PROVE  RequestsOK'
    <3>1. OK([q EXCEPT !.at = stage])
      BY <1>5, <2>1
    <3> HIDE DEF OK
    <3>2. QED
      BY <1>2, <2>2, <3>1
  <2>3. CASE InsertCapability(r)
    <3>1. ASSUME NEW c \in Records, request' = [request EXCEPT ![r].at = "ok", ![r].id = c]
          PROVE  RequestsOK'
      <4>1. [q EXCEPT !.at = "ok", !.id = c].at = "ok"
        BY <2>1 DEF Edits
      <4>2. OK([q EXCEPT !.at = "ok", !.id = c])
        BY <4>1
      <4> HIDE DEF OK
      <4>3. QED
        BY <1>2, <3>1, <4>2
    <3>2. QED
      BY <2>2, <2>3, <3>1 DEF InsertCapability, Go
  <2>4. CASE DeleteCommit(r)
    BY <2>2, <2>4 DEF DeleteCommit, Go
  <2>5. CASE UpdateContent(r)
    <3>1. q.at = "content" /\ OK(q)
      BY <1>1, <2>5 DEF UpdateContent, AtStage
    <3>2. OK([q EXCEPT !.at = "answer"])
      BY <2>1, <3>1 DEF Edits
    <3>3. request' = [request EXCEPT ![r] = [q EXCEPT !.at = "answer"]]
      BY <2>5 DEF UpdateContent, Go
    <3> HIDE DEF OK
    <3>4. QED
      BY <1>2, <3>2, <3>3
  <2>6. CASE Answer(r)
    <3> DEFINE new == [q EXCEPT !.at = "ok", !.current = record[q.id]]
    <3>1. new.at = "ok"
      BY <2>1 DEF Edits
    <3>2. OK(new)
      BY <3>1
    <3>3. request' = [request EXCEPT ![r] = new]
      BY <2>6 DEF Answer
    <3> HIDE DEF OK, new
    <3>4. QED
      BY <1>2, <3>2, <3>3
  <2>7. CASE Fail(r)
    BY <2>2, <2>7 DEF Fail, Go
  <2>8. CASE CheckNewName(r)
    <3>1. q.at = "name" /\ OK(q)
      BY <1>1, <2>8 DEF CheckNewName, AtStage
    <3>2. OK([q EXCEPT !.at = "rename"])
      BY <2>1, <3>1 DEF Edits
    <3>3. \/ request' = [request EXCEPT ![r].at = "conflict"]
          \/ request' = [request EXCEPT ![r] = [q EXCEPT !.at = "rename"]]
      BY <2>8 DEF CheckNewName, Go
    <3> HIDE DEF OK
    <3>4. QED
      BY <1>2, <2>2, <3>2, <3>3
  <2>9. CASE RenameCapability(r)
    <3> DEFINE new == [q EXCEPT !.at = AfterName(q, q.current)]
    <3>1. q.at = "rename" /\ OK(q)
      BY <1>1, <2>9 DEF RenameCapability, AtStage
    <3>2. \/ AfterName(q, q.current) = "content" /\ q.content \in Contents
               /\ q.content # q.current.content
          \/ AfterName(q, q.current) = "answer"
      BY <2>1 DEF AfterName, Edits
    <3>3. OK(new)
      BY <2>1, <3>1, <3>2 DEF Edits
    <3>4. \/ request' = [request EXCEPT ![r].at = "error"]
          \/ request' = [request EXCEPT ![r] = new]
      BY <2>9 DEF RenameCapability, Go
    <3> HIDE DEF OK, new
    <3>5. QED
      BY <1>2, <2>2, <3>3, <3>4
  <2>10. QED
    BY <1>9, <2>3, <2>4, <2>5, <2>6, <2>7, <2>8, <2>9
<1>10. ASSUME NEW q \in Readers,
              (\E k \in Kinds, names \in NameLists : StartReading(q, k, names)) \/ ReadNext(q)
       PROVE  RequestsOK'
  <2>1. request' = request
    BY <1>10 DEF StartReading, ReadNext
  <2> HIDE DEF OK
  <2>2. QED
    BY <1>3, <2>1
<1>11. CASE UNCHANGED capabilitiesVars
  BY <1>3, <1>11 DEF capabilitiesVars
<1> HIDE DEF OK
<1>12. QED
  BY <1>6, <1>7, <1>8, <1>9, <1>10, <1>11, Zenon DEF NextCapabilities

-----------------------------------------------------------------------------
(* Who writes what.                                                        *)

LEMMA EntriesAfter ==
  ASSUME CapabilitiesInv, NEW r, NEW c, NEW row, NEW e, Writes(r, c, row, e),
         NEW d \in Records, NEW i \in DOMAIN history'[d]
  PROVE  \/ i \in DOMAIN history[d] /\ history'[d][i] = history[d][i]
         \/ history'[d][i] = e
<1>1. /\ c \in Records /\ history[c] \in Seq(Entries) /\ e \in Entries
      /\ history'[c] = Append(history[c], e)
      /\ d # c => history'[d] = history[d]
  BY WritesWhere
<1>2. CASE d = c
  <2>1. \A j \in DOMAIN history'[c] :
          history'[c][j] = e \/ (j \in DOMAIN history[c] /\ history'[c][j] = history[c][j])
    BY <1>1, AppendedEach
  <2>2. QED
    BY <1>2, <2>1
<1>3. QED
  BY <1>1, <1>2

\* A request that is past its checks never gets back before them, and those that are
\* overtaken remain so.
LEMMA StagesLast ==
  ASSUME CapabilitiesInv, [NextCapabilities]_capabilitiesVars, NEW o \in Editors
  PROVE  /\ request[o].at \in {"content", "answer", "ok", "error"} =>
              request'[o].at \in {"content", "answer", "ok", "error"}
         /\ o \in overtaken => o \in overtaken'
<1>0. request \in [Editors -> Edits \cup {NoEdit}]
  BY DEF CapabilitiesInv, CatalogueOK, CapabilitiesTypeOK
<1> DEFINE Last == {"content", "answer", "ok", "error"}
           Keeps == /\ request[o].at \in Last => request'[o].at \in Last
                    /\ o \in overtaken => o \in overtaken'
<1>1. ASSUME NEW r \in Editors, NEW stage, request[r].at # "idle",
             request' = [request EXCEPT ![r].at = stage], stage \in Last \/ request[r].at \notin Last
      PROVE  request[o].at \in Last => request'[o].at \in Last
  <2>1. request[r] \in Edits
    BY <1>1, EditFields DEF CapabilitiesInv, CatalogueOK
  <2>2. request'[r].at = stage
    BY <1>0, <1>1, <2>1 DEF Edits
  <2>3. o # r => request'[o] = request[o]
    BY <1>0, <1>1
  <2>4. QED
    BY <1>1, <2>2, <2>3
<1>2. ASSUME NEW r \in Editors,
             \/ \E k \in Kinds, n \in Titles, t \in Contents : CreateCapability(r, k, n, t)
             \/ \E k \in Kinds, c \in Records, n \in Titles \cup {Absent}, t \in Contents \cup {Absent} :
                  Update(r, k, c, n, t)
             \/ \E k \in Kinds, c \in Records : Delete(r, k, c)
      PROVE  Keeps
  <2>1. request[r].at = "idle" /\ overtaken' = overtaken
    BY <1>2, ZenonT(40) DEF CreateCapability, Update, Delete, AtStage
  <2>e. \E now : request' = [request EXCEPT ![r] = now]
    <3>1. CASE \E k \in Kinds, n \in Titles, t \in Contents : CreateCapability(r, k, n, t)
      BY <3>1 DEF CreateCapability
    <3>2. CASE \E k \in Kinds, c \in Records, n \in Titles \cup {Absent},
                  t \in Contents \cup {Absent} : Update(r, k, c, n, t)
      <4>1. PICK k \in Kinds, c \in Records, n \in Titles \cup {Absent},
                 t \in Contents \cup {Absent} : Update(r, k, c, n, t)
        BY <3>2
      <4> DEFINE q == [op |-> "update", kind |-> k, id |-> c, name |-> n,
                       content |-> t, current |-> record[c], at |-> "missing"]
      <4>2. request' = [request EXCEPT ![r] =
                          IF c \in Used /\ record[c].kind = k
                            THEN [q EXCEPT !.at = FirstStage(q, record[c])] ELSE q]
        BY <4>1 DEF Update
      <4> HIDE DEF q
      <4> QED
        BY <4>2
    <3>3. CASE \E k \in Kinds, c \in Records : Delete(r, k, c)
      BY <3>3 DEF Delete
    <3> QED
      BY <1>2, <3>1, <3>2, <3>3
  <2>2. \A x \in Editors : x # r => request'[x] = request[x]
    BY <1>0, <2>e
  <2>3. request[o].at \in Last => request'[o].at \in Last
    <3>1. CASE o = r
      BY <2>1, <3>1
    <3>2. CASE o # r
      <4>1. request'[o] = request[o]
        BY <2>2, <3>2
      <4> QED
        BY <4>1
    <3> QED
      BY <3>1, <3>2
  <2>4. QED
    BY <2>1, <2>3
<1>3. ASSUME NEW r \in Editors, InsertCapability(r)
      PROVE  Keeps
  <2>1. request[r].at = "insert" /\ overtaken' = overtaken
    BY <1>3 DEF InsertCapability, AtStage
  <2>2. \A x \in Editors : x # r => request'[x] = request[x]
    BY <1>0, <1>3 DEF InsertCapability, Go
  <2>3. QED
    BY <2>1, <2>2
<1>4. ASSUME NEW r \in Editors, CheckNewName(r)
      PROVE  Keeps
  BY <1>1, <1>4 DEF CheckNewName, AtStage, Go
<1>5. ASSUME NEW r \in Editors, RenameCapability(r)
      PROVE  Keeps
  <2>1. request[r].at = "rename" /\ overtaken \subseteq overtaken'
    BY <1>5 DEF RenameCapability, AtStage
  <2>2. \/ request' = [request EXCEPT ![r].at = "error"]
        \/ request' = [request EXCEPT ![r].at = AfterName(request[r], request[r].current)]
    BY <1>5 DEF RenameCapability, Go
  <2>3. QED
    BY <1>1, <2>1, <2>2
<1>6. ASSUME NEW r \in Editors, UpdateContent(r)
      PROVE  Keeps
  BY <1>1, <1>6 DEF UpdateContent, AtStage, Go
<1>7. ASSUME NEW r \in Editors, Answer(r)
      PROVE  Keeps
  <2>1. request[r] \in Edits /\ overtaken' = overtaken
    BY <1>7, EditFields DEF Answer, AtStage, CapabilitiesInv, CatalogueOK
  <2>2. request'[r].at = "ok"
    BY <1>0, <1>7, <2>1 DEF Answer, Edits
  <2>3. o # r => request'[o] = request[o]
    BY <1>0, <1>7 DEF Answer
  <2>4. QED
    BY <2>1, <2>2, <2>3
<1>8. ASSUME NEW r \in Editors, DeleteCommit(r)
      PROVE  Keeps
  <2>1. request[r].at = "delete" /\ overtaken' = overtaken
    BY <1>8 DEF DeleteCommit, AtStage
  <2>2. \/ request' = [request EXCEPT ![r].at = "missing"]
        \/ request' = [request EXCEPT ![r].at = "ok"]
    BY <1>8 DEF DeleteCommit, Go
  <2>3. QED
    BY <1>1, <2>1, <2>2
<1>9. ASSUME NEW r \in Editors, Fail(r)
      PROVE  Keeps
  BY <1>1, <1>9 DEF Fail, Go, Pending
<1>10. ASSUME NEW q \in Readers,
              (\E k \in Kinds, names \in NameLists : StartReading(q, k, names)) \/ ReadNext(q)
       PROVE  Keeps
  BY <1>10 DEF StartReading, ReadNext
<1>11. ASSUME UNCHANGED capabilitiesVars
       PROVE  Keeps
  BY <1>11 DEF capabilitiesVars
<1> HIDE DEF Keeps
<1>12. Keeps
  BY <1>2, <1>3, <1>4, <1>5, <1>6, <1>7, <1>8, <1>9, <1>10, <1>11, Zenon DEF NextCapabilities
<1>13. QED
  BY <1>12 DEF Keeps

\* A new entry is written by a request that is past its checks, and it says that nothing
\* changed only if the request was overtaken.
LEMMA NewEntries ==
  ASSUME CapabilitiesInv, [NextCapabilities]_capabilitiesVars,
         NEW d \in Records, NEW i \in DOMAIN history'[d]
  PROVE  \/ i \in DOMAIN history[d] /\ history'[d][i] = history[d][i]
         \/ /\ request'[history'[d][i].by].at \in {"content", "answer", "ok", "error"}
            /\ ~history'[d][i].changed => history'[d][i].by \in overtaken'
<1> DEFINE Old == i \in DOMAIN history[d] /\ history'[d][i] = history[d][i]
           New == /\ request'[history'[d][i].by].at \in {"content", "answer", "ok", "error"}
                  /\ ~history'[d][i].changed => history'[d][i].by \in overtaken'
<1>0. /\ request \in [Editors -> Edits \cup {NoEdit}]
      /\ history \in [Records -> Seq(Entries)]
  BY DEF CapabilitiesInv, CatalogueOK, CapabilitiesTypeOK
<1>1. ASSUME UNCHANGED history
      PROVE  Old
  BY <1>1
<1>2. ASSUME NEW r \in Editors, InsertCapability(r), ~UNCHANGED history
      PROVE  Old \/ New
  <2> DEFINE q == request[r]
             e == HistoryEntry(r, "create", Absent, q.content, TRUE)
  <2>1. PICK c \in Records : /\ history' = [history EXCEPT ![c] = <<e>>]
                             /\ request' = [request EXCEPT ![r].at = "ok", ![r].id = c]
    BY <1>2, InsertWrites
  <2>2. q \in Edits
    BY <1>2, EditFields DEF InsertCapability, AtStage, CapabilitiesInv, CatalogueOK
  <2>3. request'[r].at = "ok"
    BY <1>0, <2>1, <2>2 DEF Edits
  <2>4. e.by = r /\ e.changed
    BY DEF HistoryEntry
  <2> HIDE DEF e
  <2>5. CASE d = c
    <3>1. history'[d] = <<e>> /\ i = 1
      BY <1>0, <2>1, <2>5
    <3>2. QED
      BY <2>3, <2>4, <3>1
  <2>6. CASE d # c
    BY <1>0, <2>1, <2>6
  <2>7. QED
    BY <2>5, <2>6
<1>3. ASSUME NEW r \in Editors, RenameCapability(r), ~UNCHANGED history
      PROVE  Old \/ New
  <2> DEFINE q == request[r]
             row == [record[q.id] EXCEPT !.name = q.name]
             e == HistoryEntry(r, "rename", q.name, record[q.id].content, record[q.id].name # q.name)
  <2>1. /\ Writes(r, q.id, row, e)
        /\ overtaken' = overtaken \cup Others(q.id, r)
        /\ request' = [request EXCEPT ![r].at = AfterName(q, q.current)]
    BY <1>3, RenameWrites
  <2>2. q \in Edits /\ q.at = "rename"
    BY <1>3, EditFields DEF RenameCapability, AtStage, CapabilitiesInv, CatalogueOK
  <2>3. request'[r].at \in {"content", "answer"}
    BY <1>0, <2>1, <2>2 DEF AfterName, Edits
  <2>4. r \notin overtaken => record[q.id].name # q.name
    BY <2>2 DEF CapabilitiesInv, UndisturbedSoFar, RequestsOK
  <2>5. e.by = r /\ e.changed = (record[q.id].name # q.name)
    BY DEF HistoryEntry
  <2> HIDE DEF row, e
  <2>6. Old \/ history'[d][i] = e
    BY <2>1, EntriesAfter
  <2>7. QED
    BY <2>1, <2>3, <2>4, <2>5, <2>6
<1>4. ASSUME NEW r \in Editors, UpdateContent(r)
      PROVE  Old \/ New
  <2> DEFINE q == request[r]
             row == [record[q.id] EXCEPT !.content = q.content]
             e == HistoryEntry(r, "update", Absent, q.content, record[q.id].content # q.content)
  <2>1. /\ Writes(r, q.id, row, e)
        /\ overtaken \subseteq overtaken'
        /\ request' = [request EXCEPT ![r].at = "answer"]
    BY <1>4, ContentWrites DEF UpdateContent, Go
  <2>2. q \in Edits /\ q.at = "content"
    BY <1>4, EditFields DEF UpdateContent, AtStage, CapabilitiesInv, CatalogueOK
  <2>3. request'[r].at = "answer"
    BY <1>0, <2>1, <2>2 DEF Edits
  <2>4. r \notin overtaken => record[q.id].content # q.content
    BY <2>2 DEF CapabilitiesInv, UndisturbedSoFar, RequestsOK
  <2>5. e.by = r /\ e.changed = (record[q.id].content # q.content)
    BY DEF HistoryEntry
  <2> HIDE DEF row, e
  <2>6. Old \/ history'[d][i] = e
    BY <2>1, EntriesAfter
  <2>7. QED
    BY <2>1, <2>3, <2>4, <2>5, <2>6
<1>5. ASSUME NEW r \in Editors, DeleteCommit(r), ~UNCHANGED history
      PROVE  Old \/ New
  <2> DEFINE c == request[r].id
             row == [record[c] EXCEPT !.deleted = TRUE]
             e == HistoryEntry(r, "delete", Absent, record[c].content, TRUE)
  <2>1. /\ Writes(r, c, row, e)
        /\ request' = [request EXCEPT ![r].at = "ok"]
    BY <1>5, DeleteWrites
  <2>2. request[r] \in Edits
    BY <1>5, EditFields DEF DeleteCommit, AtStage, CapabilitiesInv, CatalogueOK
  <2>3. request'[r].at = "ok"
    BY <1>0, <2>1, <2>2 DEF Edits
  <2>4. e.by = r /\ e.changed
    BY DEF HistoryEntry
  <2> HIDE DEF row, e
  <2>5. Old \/ history'[d][i] = e
    BY <2>1, EntriesAfter
  <2>6. QED
    BY <2>3, <2>4, <2>5
<1> HIDE DEF Old, New
<1>6. Old \/ New
  BY <1>1, <1>2, <1>3, <1>4, <1>5, StepKinds
<1>7. QED
  BY <1>6 DEF Old, New

LEMMA WritersStep ==
  ASSUME CapabilitiesInv, [NextCapabilities]_capabilitiesVars
  PROVE  WritersOK' /\ EmptyEntryOnlyIfOvertaken'
<1>1. SUFFICES ASSUME NEW d \in Records, NEW i \in DOMAIN history'[d]
               PROVE  /\ request'[history'[d][i].by].at \in {"content", "answer", "ok", "error"}
                      /\ ~history'[d][i].changed => history'[d][i].by \in overtaken'
  BY DEF WritersOK, EmptyEntryOnlyIfOvertaken
<1>2. CASE i \in DOMAIN history[d] /\ history'[d][i] = history[d][i]
  <2>1. history[d][i].by \in Editors
    <3>1. history[d] \in Seq(Entries)
      BY DEF CapabilitiesInv, CatalogueOK, CapabilitiesTypeOK
    <3>2. history[d][i] \in Entries
      BY <1>2, <3>1
    <3>3. QED
      BY <3>2 DEF Entries
  <2>2. /\ request[history[d][i].by].at \in {"content", "answer", "ok", "error"}
        /\ ~history[d][i].changed => history[d][i].by \in overtaken
    BY <1>2 DEF CapabilitiesInv, WritersOK, EmptyEntryOnlyIfOvertaken
  <2>3. QED
    BY <1>2, <2>1, <2>2, StagesLast
<1>3. QED
  BY <1>2, NewEntries

-----------------------------------------------------------------------------
(* Edits that nobody overtakes.                                            *)

LEMMA UndisturbedStep ==
  ASSUME CapabilitiesInv, [NextCapabilities]_capabilitiesVars
  PROVE  UndisturbedSoFar' /\ UndisturbedEditHolds'
<1> DEFINE OK(q, cat) ==
      /\ q.at \in {"name", "rename"} => cat[q.id].name = q.current.name
      /\ q.at \in {"name", "rename", "content"} => cat[q.id].content = q.current.content
      /\ q.at \in {"content", "answer"} /\ q.name # Absent => cat[q.id].name = q.name
      /\ q.at = "answer" /\ q.content # Absent => cat[q.id].content = q.content
      /\ q.op = "update" /\ q.at = "ok" =>
           /\ q.name # Absent => q.current.name = q.name
           /\ q.content # Absent => q.current.content = q.content
<1>1. \A x \in Editors \ overtaken : OK(request[x], record)
  BY DEF CapabilitiesInv, UndisturbedSoFar, UndisturbedEditHolds
<1>2. SUFFICES ASSUME NEW o \in Editors \ overtaken'
               PROVE  OK(request'[o], record')
  BY DEF UndisturbedSoFar, UndisturbedEditHolds
<1>3. o \in Editors /\ o \notin overtaken /\ OK(request[o], record)
  BY <1>1, StagesLast
<1>4. /\ request \in [Editors -> Edits \cup {NoEdit}]
      /\ request[o].at # "idle" => request[o] \in Edits
      /\ request[o].at \in {"name", "rename", "content", "answer"} =>
           request[o].id \in Used /\ request[o].op = "update"
      /\ \A c \in Used : record[c] \in Rows
  BY EditFields, RowsAreThere
     DEF CapabilitiesInv, CatalogueOK, CapabilitiesTypeOK, RequestsOK
<1>5. ASSUME request'[o] = request[o],
             request[o].at \in {"name", "rename", "content", "answer"} =>
               /\ record'[request[o].id].name = record[request[o].id].name
               /\ record'[request[o].id].content = record[request[o].id].content
      PROVE  OK(request'[o], record')
  BY <1>3, <1>5
<1>6. ASSUME NEW stage \in {"conflict", "missing", "error"}, request[o].at # "idle",
             request' = [request EXCEPT ![o].at = stage]
      PROVE  OK(request'[o], record')
  <2>1. request'[o].at = stage
    BY <1>3, <1>4, <1>6 DEF Edits
  <2>2. QED
    BY <2>1
<1>7. ASSUME NEW r \in Editors, NEW k \in Kinds, NEW n \in Titles, NEW t \in Contents,
             CreateCapability(r, k, n, t)
      PROVE  OK(request'[o], record')
  <2>1. record' = record /\ (o # r => request'[o] = request[o])
    BY <1>4, <1>7 DEF CreateCapability
  <2>2. o = r => request'[o].at \in {"conflict", "insert"}
    BY <1>4, <1>7 DEF CreateCapability
  <2>3. QED
    BY <1>5, <2>1, <2>2
<1>8. ASSUME NEW r \in Editors, NEW k \in Kinds, NEW c \in Records,
             NEW n \in Titles \cup {Absent}, NEW t \in Contents \cup {Absent}, Update(r, k, c, n, t)
      PROVE  OK(request'[o], record')
  <2> DEFINE q == [op |-> "update", kind |-> k, id |-> c, name |-> n, content |-> t,
                   current |-> record[c], at |-> "missing"]
             new == IF c \in Used /\ record[c].kind = k
                      THEN [q EXCEPT !.at = FirstStage(q, record[c])] ELSE q
  <2>1. OK(new, record)
    <3>1. CASE c \in Used /\ record[c].kind = k
      <4>1. /\ new.id = c /\ new.current = record[c] /\ new.name = n /\ new.content = t
            /\ new.at = FirstStage(q, record[c])
        BY <3>1
      <4>2. FirstStage(q, record[c]) \in {"name", "content", "answer"}
        BY DEF FirstStage, AfterName
      <4>3. FirstStage(q, record[c]) # "name" => n \in {Absent, record[c].name}
        BY DEF FirstStage, AfterName
      <4>4. FirstStage(q, record[c]) = "answer" => t \in {Absent, record[c].content}
        BY DEF FirstStage, AfterName
      <4> HIDE DEF new, q
      <4>5. QED
        BY <4>1, <4>2, <4>3, <4>4
    <3>2. CASE ~(c \in Used /\ record[c].kind = k)
      <4>1. new.at = "missing"
        BY <3>2
      <4>2. QED
        BY <4>1
    <3>3. QED
      BY <3>1, <3>2
  <2>2. request' = [request EXCEPT ![r] = new] /\ record' = record
    BY <1>8 DEF Update
  <2> HIDE DEF new
  <2>3. CASE o = r
    BY <1>4, <2>1, <2>2, <2>3
  <2>4. CASE o # r
    BY <1>4, <1>5, <2>2, <2>4
  <2>5. QED
    BY <2>3, <2>4
<1>9. ASSUME NEW r \in Editors, NEW k \in Kinds, NEW c \in Records, Delete(r, k, c)
      PROVE  OK(request'[o], record')
  <2>1. record' = record /\ (o # r => request'[o] = request[o])
    BY <1>4, <1>9 DEF Delete
  <2>2. o = r => request'[o].at \in {"delete", "missing"}
    BY <1>4, <1>9 DEF Delete
  <2>3. QED
    BY <1>5, <2>1, <2>2
<1>10. ASSUME NEW r \in Editors, InsertCapability(r)
       PROVE  OK(request'[o], record')
  <2> DEFINE q == request[r]
             row == [kind |-> q.kind, name |-> q.name, content |-> q.content, deleted |-> FALSE]
             e == HistoryEntry(r, "create", Absent, q.content, TRUE)
  <2>1. q.at = "insert" /\ q.op = "create" /\ q \in Edits
    BY <1>10, EditFields DEF InsertCapability, AtStage, CapabilitiesInv, CatalogueOK, RequestsOK
  <2>2. CASE UNCHANGED <<record, history>> /\ request' = [request EXCEPT ![r].at = "error"]
    BY <1>4, <1>5, <1>6, <2>1, <2>2
  <2>3. ASSUME NEW c \in Records \ Used, row \in Rows, e \in Entries,
               record' = [record EXCEPT ![c] = row], history' = [history EXCEPT ![c] = <<e>>],
               request' = [request EXCEPT ![r].at = "ok", ![r].id = c]
        PROVE  OK(request'[o], record')
    <3> HIDE DEF row, e
    <3>1. \A d \in Used : record'[d] = record[d]
      BY <2>3, InsertUsed
    <3>2. CASE o = r
      <4>1. request'[o].op = "create" /\ request'[o].at = "ok"
        BY <1>4, <2>1, <2>3, <3>2 DEF Edits
      <4>2. QED
        BY <4>1
    <3>3. CASE o # r
      <4>1. request'[o] = request[o]
        BY <1>4, <2>3, <3>3
      <4>2. QED
        BY <1>4, <1>5, <3>1, <4>1
    <3>4. QED
      BY <3>2, <3>3
  <2>4. QED
    BY <1>10, <2>2, <2>3, InsertWrites
<1>11. ASSUME NEW r \in Editors, CheckNewName(r)
       PROVE  OK(request'[o], record')
  <2>1. request[r].at = "name" /\ record' = record
    BY <1>11 DEF CheckNewName, AtStage
  <2>2. \/ request' = [request EXCEPT ![r].at = "conflict"]
        \/ request' = [request EXCEPT ![r].at = "rename"]
    BY <1>11 DEF CheckNewName, Go
  <2>3. CASE o # r
    BY <1>4, <1>5, <2>1, <2>2, <2>3
  <2>4. CASE o = r /\ request' = [request EXCEPT ![r].at = "conflict"]
    BY <1>6, <2>1, <2>4
  <2>5. CASE o = r /\ request' = [request EXCEPT ![r].at = "rename"]
    <3>1. /\ request'[o].at = "rename" /\ request'[o].id = request[o].id
          /\ request'[o].current = request[o].current
      BY <1>4, <2>1, <2>5 DEF Edits
    <3>2. QED
      BY <1>3, <2>1, <2>5, <3>1
  <2>6. QED
    BY <2>2, <2>3, <2>4, <2>5
<1>12. ASSUME NEW r \in Editors, RenameCapability(r)
       PROVE  OK(request'[o], record')
  <2> DEFINE q == request[r]
             row == [record[q.id] EXCEPT !.name = q.name]
             e == HistoryEntry(r, "rename", q.name, record[q.id].content, record[q.id].name # q.name)
  <2>1. q.at = "rename"
    BY <1>12 DEF RenameCapability, AtStage
  <2>2. CASE UNCHANGED record /\ request' = [request EXCEPT ![r].at = "error"]
    <3>1. CASE o = r
      BY <1>6, <2>1, <2>2, <3>1
    <3>2. CASE o # r
      BY <1>4, <1>5, <2>2, <3>2
    <3>3. QED
      BY <3>1, <3>2
  <2>3. ASSUME Writes(r, q.id, row, e), overtaken' = overtaken \cup Others(q.id, r),
               request' = [request EXCEPT ![r].at = AfterName(q, q.current)]
        PROVE  OK(request'[o], record')
    <3>1. /\ q.id \in Used /\ record[q.id] \in Rows /\ record'[q.id] = row
          /\ \A d \in Used \ {q.id} : record'[d] = record[d]
      <4>1. Used \subseteq Records
        BY DEF Used
      <4>2. QED
        BY <2>3, <4>1, WritesWhere
    <3>2. row.name = q.name /\ row.content = record[q.id].content
      BY <3>1 DEF Rows
    <3> HIDE DEF row, e
    <3>3. CASE o = r
      <4>1. /\ request'[o].at = AfterName(q, q.current) /\ request'[o].id = q.id
            /\ request'[o].name = q.name /\ request'[o].content = q.content
            /\ request'[o].current = q.current
        BY <1>4, <2>1, <2>3, <3>3 DEF Edits
      <4>2. record[q.id].content = q.current.content
        BY <1>3, <2>1, <3>3
      <4>3. \/ AfterName(q, q.current) = "content"
            \/ AfterName(q, q.current) = "answer" /\ q.content \in {Absent, q.current.content}
        BY DEF AfterName
      <4>4. QED
        BY <3>1, <3>2, <4>1, <4>2, <4>3
    <3>4. CASE o # r
      <4>1. request'[o] = request[o]
        BY <1>4, <2>3, <3>4
      <4>2. request[o].at \in {"name", "rename", "content", "answer"} => request[o].id # q.id
        BY <1>4, <2>3, <3>4 DEF Others, Pending
      <4>3. QED
        BY <1>4, <1>5, <3>1, <4>1, <4>2
    <3>5. QED
      BY <3>3, <3>4
  <2>4. QED
    BY <1>12, <2>2, <2>3, RenameWrites
<1>13. ASSUME NEW r \in Editors, UpdateContent(r)
       PROVE  OK(request'[o], record')
  <2> DEFINE q == request[r]
             row == [record[q.id] EXCEPT !.content = q.content]
             e == HistoryEntry(r, "update", Absent, q.content, record[q.id].content # q.content)
  <2>1. q.at = "content" /\ overtaken' = overtaken \cup Others(q.id, r)
    BY <1>13 DEF UpdateContent, AtStage
  <2>2. Writes(r, q.id, row, e) /\ request' = [request EXCEPT ![r].at = "answer"]
    BY <1>13, ContentWrites DEF UpdateContent, Go
  <2>3. /\ q.id \in Used /\ record[q.id] \in Rows /\ record'[q.id] = row
        /\ \A d \in Used \ {q.id} : record'[d] = record[d]
    <3>1. Used \subseteq Records
      BY DEF Used
    <3>2. QED
      BY <2>2, <3>1, WritesWhere
  <2>4. row.content = q.content /\ row.name = record[q.id].name
    BY <2>3 DEF Rows
  <2> HIDE DEF row, e
  <2>5. CASE o = r
    <3>1. /\ request'[o].at = "answer" /\ request'[o].id = q.id
          /\ request'[o].name = q.name /\ request'[o].content = q.content
      BY <1>4, <2>1, <2>2, <2>5 DEF Edits
    <3>2. QED
      BY <1>3, <2>1, <2>3, <2>4, <2>5, <3>1
  <2>6. CASE o # r
    <3>1. request'[o] = request[o]
      BY <1>4, <2>2, <2>6
    <3>2. request[o].at \in {"name", "rename", "content", "answer"} => request[o].id # q.id
      BY <1>4, <2>1, <2>6 DEF Others, Pending
    <3>3. QED
      BY <1>4, <1>5, <2>3, <3>1, <3>2
  <2>7. QED
    BY <2>5, <2>6
<1>14. ASSUME NEW r \in Editors, Answer(r)
       PROVE  OK(request'[o], record')
  <2> DEFINE q == request[r]
  <2>1. q.at = "answer" /\ record' = record
        /\ request' = [request EXCEPT ![r].at = "ok", ![r].current = record[q.id]]
    BY <1>14 DEF Answer, AtStage
  <2>2. CASE o = r
    <3>1. /\ request'[o].at = "ok" /\ request'[o].current = record[q.id]
          /\ request'[o].name = q.name /\ request'[o].content = q.content
      BY <1>4, <2>1, <2>2 DEF Edits
    <3>2. QED
      BY <1>3, <2>1, <2>2, <3>1
  <2>3. CASE o # r
    BY <1>4, <1>5, <2>1, <2>3
  <2>4. QED
    BY <2>2, <2>3
<1>15. ASSUME NEW r \in Editors, DeleteCommit(r)
       PROVE  OK(request'[o], record')
  <2> DEFINE c == request[r].id
             row == [record[c] EXCEPT !.deleted = TRUE]
             e == HistoryEntry(r, "delete", Absent, record[c].content, TRUE)
  <2>1. request[r].at = "delete" /\ request[r].op = "delete"
    BY <1>15 DEF DeleteCommit, AtStage, CapabilitiesInv, RequestsOK
  <2>2. \/ request' = [request EXCEPT ![r].at = "missing"]
        \/ request' = [request EXCEPT ![r].at = "ok"]
    BY <1>15 DEF DeleteCommit, Go
  <2>3. \A d \in Used : /\ record'[d].name = record[d].name
                        /\ record'[d].content = record[d].content
    <3>1. CASE UNCHANGED record
      BY <3>1
    <3>2. CASE Writes(r, c, row, e)
      <4>0. Used \subseteq Records
        BY DEF Used
      <4>1. /\ record[c] \in Rows /\ record'[c] = row
            /\ \A d \in Used \ {c} : record'[d] = record[d]
        <5> HIDE DEF row, e
        <5>1. QED
          BY <3>2, <4>0, WritesWhere
      <4>2. row.name = record[c].name /\ row.content = record[c].content
        BY <4>1 DEF Rows
      <4> HIDE DEF row
      <4>3. QED
        BY <4>1, <4>2
    <3>3. QED
      BY <1>15, <3>1, <3>2, DeleteWrites
  <2>4. CASE o = r
    <3>1. request'[o].at \in {"missing", "ok"} /\ request'[o].op = "delete"
      BY <1>4, <2>1, <2>2, <2>4 DEF Edits
    <3>2. QED
      BY <3>1
  <2>5. CASE o # r
    BY <1>4, <1>5, <2>2, <2>3, <2>5
  <2>6. QED
    BY <2>4, <2>5
<1>16. ASSUME NEW r \in Editors, Fail(r)
       PROVE  OK(request'[o], record')
  <2>1. /\ request[r].at # "idle" /\ record' = record
        /\ request' = [request EXCEPT ![r].at = "error"]
    BY <1>16 DEF Fail, Go, Pending
  <2>2. QED
    BY <1>4, <1>5, <1>6, <2>1
<1>17. ASSUME NEW q \in Readers,
              (\E k \in Kinds, names \in NameLists : StartReading(q, k, names)) \/ ReadNext(q)
       PROVE  OK(request'[o], record')
  <2>1. request' = request /\ record' = record
    BY <1>17 DEF StartReading, ReadNext
  <2>2. QED
    BY <1>5, <2>1
<1>18. ASSUME UNCHANGED capabilitiesVars
       PROVE  OK(request'[o], record')
  BY <1>5, <1>18 DEF capabilitiesVars
<1> HIDE DEF OK
<1>19. QED
  BY <1>7, <1>8, <1>9, <1>10, <1>11, <1>12, <1>13, <1>14, <1>15, <1>16, <1>17, <1>18, Zenon
     DEF NextCapabilities

-----------------------------------------------------------------------------
(* Readers.                                                                *)

LEMMA ReadersStep ==
  ASSUME CapabilitiesInv, [NextCapabilities]_capabilitiesVars
  PROVE  GoneStaysGone' /\ ReadersFindTheLiving'
<1> DEFINE Found == [id : Records, kind : Kinds, name : Titles, content : Contents]
           Reader == [kind : Kinds \cup {Absent}, left : Seq(Titles), found : Seq(Found),
                      gone : SUBSET Records]
           Good(x) == \A i \in DOMAIN x.found : x.found[i].id \notin x.gone
                                                /\ x.found[i].kind = x.kind
<1>1. /\ reader \in [Readers -> Reader]
      /\ \A q \in Readers : Good(reader[q])
      /\ \A q \in Readers : \A c \in reader[q].gone : c \in Used /\ record[c].deleted
  BY DEF CapabilitiesInv, CatalogueOK, GoneStaysGone, ReadersFindTheLiving
<1>2. \A c \in Used : c \in Used' /\ (record[c].deleted => record'[c].deleted)
  BY RowsStay
<1>3. ASSUME /\ reader' \in [Readers -> Reader]
             /\ \A q \in Readers : Good(reader'[q])
             /\ \A q \in Readers : \A c \in reader'[q].gone : c \in Used /\ record[c].deleted
      PROVE  GoneStaysGone' /\ ReadersFindTheLiving'
  <2>1. \A q \in Readers : \A c \in reader'[q].gone : c \in Used' /\ record'[c].deleted
    BY <1>2, <1>3
  <2>2. QED
    BY <1>3, <2>1 DEF GoneStaysGone, ReadersFindTheLiving
<1>4. ASSUME reader' = reader
      PROVE  GoneStaysGone' /\ ReadersFindTheLiving'
  BY <1>1, <1>3, <1>4
<1>5. ASSUME NEW q \in Readers, NEW k \in Kinds, NEW names \in NameLists, StartReading(q, k, names)
      PROVE  GoneStaysGone' /\ ReadersFindTheLiving'
  <2> DEFINE new == [kind |-> k, left |-> names, found |-> <<>>,
                     gone |-> {c \in Used : record[c].deleted}]
  <2>1. reader' = [reader EXCEPT ![q] = new]
    BY <1>5 DEF StartReading
  <2>2. names \in Seq(Titles) /\ <<>> \in Seq(Found)
    <3>1. PICK m \in Titles, n \in Titles : names = <<m, n>>
      BY DEF NameLists
    <3>2. QED
      BY <3>1
  <2>3. new.gone \subseteq Records /\ \A c \in new.gone : c \in Used /\ record[c].deleted
    BY DEF Used
  <2>4. new \in Reader
    BY <2>2, <2>3
  <2>5. Good(new)
    OBVIOUS
  <2> HIDE DEF new, Good, Reader
  <2>6. \A x \in Readers : reader'[x] = IF x = q THEN new ELSE reader[x]
    BY <1>1, <2>1
  <2>7. reader' \in [Readers -> Reader]
    BY <1>1, <2>1, <2>4
  <2>8. QED
    BY <1>1, <1>3, <2>3, <2>5, <2>6, <2>7
<1>6. ASSUME NEW q \in Readers, ReadNext(q)
      PROVE  GoneStaysGone' /\ ReadersFindTheLiving'
  <2> DEFINE old == reader[q]
             title == Head(old.left)
             hits == Resolve(old.kind, title)
             c == CHOOSE h \in hits : TRUE
             hit == [id |-> c, kind |-> record[c].kind, name |-> title,
                     content |-> record[c].content]
             found == IF hits = {} THEN old.found ELSE Append(old.found, hit)
             new == [old EXCEPT !.left = Tail(@), !.found = found]
  <2>1. reader' = [reader EXCEPT ![q] = new]
    BY <1>1, <1>6 DEF ReadNext
  <2>2. old \in Reader /\ old.left # <<>> /\ Good(old)
    BY <1>1, <1>6 DEF ReadNext
  <2>3. title \in Titles /\ Tail(old.left) \in Seq(Titles)
    BY <2>2
  <2>4. hits # {} => /\ c \in Used /\ c \in Records /\ record[c] \in Rows
                     /\ record[c].kind = old.kind /\ ~record[c].deleted
    <3>1. hits # {} => c \in hits
      OBVIOUS
    <3>2. c \in hits => /\ c \in Used /\ record[c].kind = old.kind /\ record[c].deleted = FALSE
      BY SMTT(40) DEF Resolve, Listed
    <3> HIDE DEF c, hits
    <3>3. QED
      BY <3>1, <3>2, RowsAreThere DEF CapabilitiesInv, CatalogueOK
  <2>5. hits # {} => hit \in Found /\ hit.id = c /\ hit.kind = old.kind
    BY <2>3, <2>4 DEF Rows
  <2>6. hits # {} => c \notin old.gone
    BY <1>1, <2>4
  <2> HIDE DEF hit, c, hits, title
  <2>7. /\ found \in Seq(Found)
        /\ \A i \in DOMAIN found : found[i].id \notin old.gone /\ found[i].kind = old.kind
    <3>1. CASE hits = {}
      BY <2>2, <3>1
    <3>2. CASE hits # {}
      <4>1. old.found \in Seq(Found) /\ hit \in Found /\ found = Append(old.found, hit)
        BY <2>2, <2>5, <3>2
      <4>2. /\ found \in Seq(Found)
            /\ \A i \in DOMAIN found :
                 \/ found[i] = hit
                 \/ i \in DOMAIN old.found /\ found[i] = old.found[i]
        <5> HIDE DEF Found, found
        <5>1. QED
          BY <4>1, AppendedEach
      <4>3. QED
        BY <2>2, <2>5, <2>6, <3>2, <4>2
    <3>3. QED
      BY <3>1, <3>2
  <2> HIDE DEF found
  <2>8. /\ new \in Reader /\ new.gone = old.gone /\ new.kind = old.kind
        /\ new.found = found
    BY <2>2, <2>3, <2>7
  <2>9. Good(new)
    BY <2>7, <2>8
  <2> HIDE DEF new, Good, Reader
  <2>10. \A x \in Readers : reader'[x] = IF x = q THEN new ELSE reader[x]
    BY <1>1, <2>1
  <2>11. reader' \in [Readers -> Reader]
    BY <1>1, <2>1, <2>8
  <2>12. QED
    BY <1>1, <1>3, <2>8, <2>9, <2>10, <2>11
<1>7. ASSUME NEW r \in Editors,
             \/ \E k \in Kinds, n \in Titles, t \in Contents : CreateCapability(r, k, n, t)
             \/ \E k \in Kinds, c \in Records, n \in Titles \cup {Absent}, t \in Contents \cup {Absent} :
                  Update(r, k, c, n, t)
             \/ \E k \in Kinds, c \in Records : Delete(r, k, c)
             \/ InsertCapability(r) \/ CheckNewName(r) \/ RenameCapability(r)
             \/ UpdateContent(r) \/ Answer(r) \/ DeleteCommit(r) \/ Fail(r)
      PROVE  reader' = reader
  BY <1>7, ZenonT(40)
     DEF CreateCapability, Update, Delete, InsertCapability, CheckNewName, RenameCapability,
         UpdateContent, Answer, DeleteCommit, Fail
<1>8. ASSUME UNCHANGED capabilitiesVars
      PROVE  reader' = reader
  BY <1>8 DEF capabilitiesVars
<1>9. QED
  BY <1>4, <1>5, <1>6, <1>7, <1>8, Zenon DEF NextCapabilities

-----------------------------------------------------------------------------
(* The theorems.                                                           *)

LEMMA CapabilitiesInit ==
  ASSUME InitCapabilities
  PROVE  CapabilitiesInv
<1>1. Used = {}
  BY DEF InitCapabilities, Used
<1>2. CapabilitiesTypeOK
  BY <1>1 DEF InitCapabilities, CapabilitiesTypeOK, NoEdit
<1>3. NamesUnique /\ HistoryTellsRecord
  BY <1>1 DEF InitCapabilities, NamesUnique, HistoryTellsRecord, Tells
<1>4. GoneStaysGone /\ ReadersFindTheLiving
  BY DEF InitCapabilities, GoneStaysGone, ReadersFindTheLiving
<1>5. EmptyEntryOnlyIfOvertaken /\ WritersOK
  BY DEF InitCapabilities, EmptyEntryOnlyIfOvertaken, WritersOK
<1>6. UndisturbedEditHolds /\ RequestsOK /\ UndisturbedSoFar
  BY DEF InitCapabilities, UndisturbedEditHolds, RequestsOK, UndisturbedSoFar, NoEdit
<1>7. QED
  BY <1>2, <1>3, <1>4, <1>5, <1>6 DEF CapabilitiesInv, CatalogueOK

LEMMA CapabilitiesStep ==
  ASSUME CapabilitiesInv, [NextCapabilities]_capabilitiesVars
  PROVE  CapabilitiesInv'
<1>1. CapabilitiesTypeOK'
  BY RowsStay, TypeStep, RequestsStep DEF CapabilitiesTypeOK, RequestsOK
<1>2. QED
  BY <1>1, NamesStep, HistoryStep, RequestsStep, WritersStep, UndisturbedStep, ReadersStep
     DEF CapabilitiesInv, CatalogueOK

\* The catalogue, its history and the requests and readings under way agree with each other
\* (the strengthening of CatalogueOK and EditsOK that is inductive).
THEOREM CapabilitiesInvariant == SpecCapabilities => []CapabilitiesInv
BY CapabilitiesInit, CapabilitiesStep, PTL DEF SpecCapabilities

\* Whatever edits cross and wherever they fail, names are unique, the history of a record
\* tells its present and a reader finds only what is alive (trace.rs, the transactions of
\* capabilities and capability_history), for any number of records, requests and readers.
THEOREM CatalogueOKCorrect == SpecCapabilities => []CatalogueOK
<1>1. CapabilitiesInv => CatalogueOK
  BY DEF CapabilitiesInv
<1>2. QED
  BY <1>1, CapabilitiesInvariant, PTL

\* A refused edit leaves no trace, an entry that changes nothing needs an edit that came
\* in between, and an edit nobody overtook is answered with what it asked for
\* (update_capability in server.rs).
THEOREM EditsOKCorrect == SpecCapabilities => []EditsOK
<1>1. CapabilitiesInv => EditsOK
  <2>1. CapabilitiesInv => RefusedLeavesNoTrace
    BY DEF CapabilitiesInv, WritersOK, RefusedLeavesNoTrace
  <2>2. QED
    BY <2>1 DEF CapabilitiesInv, EditsOK
<1>2. QED
  BY <1>1, CapabilitiesInvariant, PTL

-----------------------------------------------------------------------------
(* Sets of agents and their runs (module AgentSets).                       *)

\* The tables agree with each other: rows that were ever inserted name servers that are
\* there, and connections where the foreign key is declared, ids are given in order, and a
\* server that is gone has no name.
TablesOK ==
  /\ agent \in [AgentIds -> AgentRows \cup {None}]
  /\ attached \in [Projects -> Sets \cup {None}]
  /\ \E n \in 0..MaxAgents : Born = 1..n
  /\ \A i \in Born : /\ migrated \/ agent[i].llm \in llms \cup {None}
                     /\ \A e \in agent[i].skills \cup agent[i].servers : name[e] # None
  /\ UniqueIn(Skills) /\ UniqueIn(Servers)
  /\ \A e \in Servers \cap deleted : name[e] = None

LoadTypes ==
  [at : {"idle", "rows", "none", "skills", "servers", "prompt", "default", "tools", "done"},
   set : Sets \cup {None}, id : AgentIds \cup {None},
   row : [llm : Llms \cup {None}, skills : SUBSET Skills, servers : SUBSET Servers],
   skills : SUBSET Skills, servers : SUBSET Servers, left : SUBSET Names, asked : SUBSET Names,
   prompt : SUBSET (Names \X Skills), tools : SUBSET (Names \X Servers),
   config : Llms \cup {None}, stale : SUBSET Names, steady : BOOLEAN, late : SUBSET Llms]

Early == {"idle", "rows", "none"}

\* What a run has read of its row.
GivenOK(l) ==
  /\ l.at \in Early => l.row = NoRow /\ l.prompt = {} /\ l.tools = {}
  /\ l.at \in Early \cup {"skills"} => l.skills = {} /\ l.left = {}
  /\ l.at \in Early \cup {"skills", "servers"} => l.servers = {} /\ l.asked = {}
  /\ l.at \notin Early => /\ l.id \in Born /\ agent[l.id].skills = l.row.skills
                          /\ agent[l.id].servers \subseteq l.row.servers
                          /\ l.row.servers \ deleted \subseteq agent[l.id].servers
  /\ l.skills \subseteq l.row.skills /\ l.servers \subseteq l.row.servers
  /\ l.at \notin Early \cup {"skills"} /\ l.id \in rows => l.skills = l.row.skills
  /\ l.at \notin Early \cup {"skills", "servers"} /\ l.id \in rows =>
       l.row.servers \ deleted \subseteq l.servers

\* What the names mean that it has kept.
NamesOK(l) ==
  /\ \A e \in l.skills : name[e] # None
  /\ \A e \in l.servers : name[e] # None \/ e \in deleted
  /\ \A n \in l.left \ l.stale : \E e \in l.skills : name[e] = n
  /\ \A n \in l.asked \ l.stale : \E e \in l.servers : name[e] = n
  /\ \A x \in l.prompt : x[2] \in l.skills \/ x[1] \in l.stale
  /\ \A x \in l.tools : x[2] \in l.servers \/ x[1] \in l.stale
  /\ l.stale = {} => \A e \in l.skills \ deleted :
       name[e] \in l.left \/ \E x \in l.prompt : x[2] = e
  /\ l.stale = {} => \A e \in l.servers \ deleted :
       IF l.at = "done" THEN \E x \in l.tools : x[2] = e ELSE name[e] \in l.asked
  /\ l.at \in {"default", "tools", "done"} => l.left = {}

\* What it knows of its connection.
ConfigOK(l) ==
  /\ l.at = "default" =>
       /\ l.config = None /\ l.row.llm \notin l.late =>
            l.row.llm \notin llms /\ (l.steady => dflt # None)
       /\ l.config # None => l.config = l.row.llm
  /\ l.at \in {"tools", "done"} /\ l.row.llm \notin l.late =>
       /\ l.config = None => ~l.steady
       /\ l.row.llm \in llms => l.config = l.row.llm

LoadOK(l) == l \in LoadTypes /\ GivenOK(l) /\ NamesOK(l) /\ ConfigOK(l)

LoadsOK == DOMAIN load = Loads /\ \A q \in Loads : LoadOK(load[q])

\* A transaction has inserted what the tables accept.
DraftOK ==
  /\ draft \in [set : Sets, spec : Specs, done : Nat] \cup {None}
  /\ draft # None /\ ~migrated =>
       \A k \in 1..draft.done : draft.spec[k].llm \in llms \cup {None}

SavedOK == DOMAIN saved = Sets /\ SetsAreWhole /\ DraftOK

AgentSetsInv == AgentSetsTypeOK /\ TablesOK /\ ParentsInSet /\ SavedOK /\ LoadsOK

\* m is l, but for what has happened meanwhile.
SameReads(l, m) ==
  /\ m.at = l.at /\ m.id = l.id /\ m.row = l.row /\ m.skills = l.skills /\ m.servers = l.servers
  /\ m.left = l.left /\ m.asked = l.asked /\ m.prompt = l.prompt /\ m.tools = l.tools
  /\ m.config = l.config /\ l.stale \subseteq m.stale /\ l.late \subseteq m.late

\* What an administrative request may do to what runs have read: skills of an agent stay,
\* its servers go only when they are deleted, and every name that is taken from an entry and
\* every connection that comes is marked in every run.
AdminKeeps ==
  /\ \A i \in Born : /\ i \in Born' /\ agent'[i].skills = agent[i].skills
                     /\ agent'[i].servers \subseteq agent[i].servers
                     /\ agent[i].servers \ deleted' \subseteq agent'[i].servers
  /\ rows' \cap Born \subseteq rows
  /\ deleted \subseteq deleted'
  /\ \A d \in llms' \ llms : \A q \in Loads : d \in load'[q].late
  /\ \A e \in Skills \cup Servers : name[e] # None =>
       /\ name'[e] = name[e] \/ \A q \in Loads : {name[e], name'[e]} \ {None} \subseteq load'[q].stale
       /\ name'[e] # None \/ e \in Servers \cap deleted'
  /\ DOMAIN load' = Loads
  /\ \A q \in Loads :
       /\ load'[q] \in LoadTypes /\ SameReads(load[q], load'[q])
       /\ load'[q].steady =>
            load[q].steady /\ (dflt # None => dflt' # None \/ load[q].row.llm \in llms')

\* Whatever a request does within these limits, what the runs have read stays right.
LEMMA LoadKept ==
  ASSUME AgentSetsInv, AdminKeeps PROVE LoadsOK'
<1> SUFFICES ASSUME NEW q \in Loads PROVE LoadOK(load[q])'
  BY DEF LoadsOK, AdminKeeps
<1> DEFINE l == load[q]
<1> DEFINE m == load'[q]
<1>1. l \in LoadTypes /\ GivenOK(l) /\ NamesOK(l) /\ ConfigOK(l)
  BY DEF AgentSetsInv, LoadsOK, LoadOK
<1>2. m \in LoadTypes /\ (m.steady => l.steady /\ (dflt # None => dflt' # None \/ l.row.llm \in llms'))
  BY DEF AdminKeeps
<1>4. /\ m.at = l.at /\ m.id = l.id /\ m.row = l.row /\ m.skills = l.skills /\ m.servers = l.servers
      /\ m.left = l.left /\ m.asked = l.asked /\ m.prompt = l.prompt /\ m.tools = l.tools
      /\ m.config = l.config /\ l.stale \subseteq m.stale /\ l.late \subseteq m.late
  BY DEF AdminKeeps, SameReads
<1>5. /\ l.row.llm \in Llms \cup {None} /\ l.row.servers \subseteq Servers
      /\ l.skills \subseteq Skills /\ l.servers \subseteq Servers
      /\ l.left \subseteq Names /\ l.asked \subseteq Names
  BY <1>1 DEF LoadTypes
<1>n. None \notin Llms /\ None \notin Names
  BY AgentSetsAssumption
<1>e. /\ deleted \subseteq deleted'
      /\ \A e \in Skills \cup Servers : name[e] # None =>
           /\ name'[e] = name[e] \/ {name[e], name'[e]} \ {None} \subseteq m.stale
           /\ name'[e] # None \/ e \in Servers \cap deleted'
  BY DEF AdminKeeps
<1>d. Skills \cap Servers = {}
  BY AgentSetsAssumption
<1>m. m = load'[q]
  OBVIOUS
<1>6. GivenOK(load[q])'
  <2>1. l.at \notin Early => /\ l.id \in Born' /\ agent'[l.id].skills = l.row.skills
                             /\ agent'[l.id].servers \subseteq l.row.servers
                             /\ l.row.servers \ deleted' \subseteq agent'[l.id].servers
    BY <1>1, <1>e DEF GivenOK, AdminKeeps
  <2>2. l.at \notin Early /\ l.id \in rows' => l.id \in rows
    BY <1>1 DEF GivenOK, AdminKeeps
  <2>3. l.at \notin Early /\ l.id \in rows' /\ l.at \notin {"skills"} => l.skills = l.row.skills
    BY <1>1, <2>2 DEF GivenOK
  <2>4. l.at \notin Early /\ l.id \in rows' /\ l.at \notin {"skills", "servers"} =>
          l.row.servers \ deleted' \subseteq l.servers
    BY <1>1, <2>2, <1>e DEF GivenOK
  <2> QED
    BY <1>1, <1>4, <2>1, <2>3, <2>4 DEF GivenOK
<1>7. NamesOK(load[q])'
  <2>1. \A e \in l.skills : name'[e] # None
    BY <1>1, <1>5, <1>e, <1>d DEF NamesOK
  <2>2. \A e \in l.servers : name'[e] # None \/ e \in deleted'
    BY <1>1, <1>5, <1>e DEF NamesOK
  <2>3. \A n \in l.left \ m.stale : \E e \in l.skills : name'[e] = n
    <3> SUFFICES ASSUME NEW n \in l.left \ m.stale PROVE \E e \in l.skills : name'[e] = n
      OBVIOUS
    <3>1. PICK e \in l.skills : name[e] = n
      BY <1>1, <1>4 DEF NamesOK
    <3> QED
      BY <3>1, <1>e, <1>5, <1>n
  <2>4. \A n \in l.asked \ m.stale : \E e \in l.servers : name'[e] = n
    <3> SUFFICES ASSUME NEW n \in l.asked \ m.stale PROVE \E e \in l.servers : name'[e] = n
      OBVIOUS
    <3>1. PICK e \in l.servers : name[e] = n
      BY <1>1, <1>4 DEF NamesOK
    <3> QED
      BY <3>1, <1>e, <1>5, <1>n
  <2>5. \A x \in l.prompt : x[2] \in l.skills \/ x[1] \in m.stale
    BY <1>1, <1>4 DEF NamesOK
  <2>6. \A x \in l.tools : x[2] \in l.servers \/ x[1] \in m.stale
    BY <1>1, <1>4 DEF NamesOK
  <2>7. m.stale = {} => \A e \in l.skills \ deleted' :
          name'[e] \in l.left \/ \E x \in l.prompt : x[2] = e
    <3> SUFFICES ASSUME m.stale = {}, NEW e \in l.skills \ deleted'
                 PROVE  name'[e] \in l.left \/ \E x \in l.prompt : x[2] = e
      OBVIOUS
    <3>1. l.stale = {} /\ e \in l.skills \ deleted /\ e \in Skills /\ name[e] # None
      BY <1>4, <1>e, <1>5, <1>1 DEF NamesOK
    <3>2. name'[e] = name[e]
      BY <3>1, <1>e
    <3> QED
      BY <3>1, <3>2, <1>1 DEF NamesOK
  <2>8. m.stale = {} => \A e \in l.servers \ deleted' :
          IF l.at = "done" THEN \E x \in l.tools : x[2] = e ELSE name'[e] \in l.asked
    <3> SUFFICES ASSUME m.stale = {}, NEW e \in l.servers \ deleted'
                 PROVE  IF l.at = "done" THEN \E x \in l.tools : x[2] = e ELSE name'[e] \in l.asked
      OBVIOUS
    <3>1. l.stale = {} /\ e \in l.servers \ deleted /\ e \in Servers /\ name[e] # None
      BY <1>4, <1>e, <1>5, <1>1 DEF NamesOK
    <3>2. name'[e] = name[e]
      BY <3>1, <1>e
    <3> QED
      BY <3>1, <3>2, <1>1 DEF NamesOK
  <2>9. l.at \in {"default", "tools", "done"} => l.left = {}
    BY <1>1 DEF NamesOK
  <2> HIDE DEF l, m
  <2> QED
    BY <1>m, <1>4, <2>1, <2>2, <2>3, <2>4, <2>5, <2>6, <2>7, <2>8, <2>9 DEF NamesOK
<1>8. ConfigOK(load[q])'
  <2>1. l.row.llm \in llms' /\ l.row.llm \notin m.late => l.row.llm \in llms
    BY DEF AdminKeeps
  <2>2. l.row.llm \notin m.late => l.row.llm \notin l.late
    BY <1>4
  <2> HIDE DEF l, m
  <2> QED
    BY <1>m, <1>1, <1>2, <1>4, <2>1, <2>2 DEF ConfigOK
<1> QED
  BY <1>2, <1>6, <1>7, <1>8 DEF LoadOK, LoadTypes

\* A step of a run leaves the tables alone; what counts is what it has read now.
LEMMA RunKept ==
  ASSUME AgentSetsInv, NEW q \in Loads, NEW now, LoadOK(now), AdvanceLoad(q, now)
  PROVE  AgentSetsInv'
<1>1. UNCHANGED <<agent, rows, sets, projects, attached, name, deleted, llm, dflt, migrated, draft,
                  saved, changes>>
  BY DEF AdvanceLoad, tables
<1>2. LoadsOK'
  <2>1. DOMAIN load' = Loads /\ \A p \in Loads : load'[p] = IF p = q THEN now ELSE load[p]
    BY DEF AdvanceLoad, AgentSetsInv, LoadsOK
  <2>2. \A p \in Loads : LoadOK(load'[p])
    BY <2>1 DEF AgentSetsInv, LoadsOK
  <2>3. \A p \in Loads : LoadOK(load[p])'
    BY <2>2, <1>1 DEF LoadOK, LoadTypes, GivenOK, NamesOK, ConfigOK, Born, llms
  <2> QED
    BY <2>1, <2>3 DEF LoadsOK
<1>3. AgentSetsTypeOK' /\ TablesOK' /\ ParentsInSet'
  BY <1>1 DEF AgentSetsInv, AgentSetsTypeOK, TablesOK, ParentsInSet, Born, llms, UniqueIn
<1>4. SavedOK'
  BY <1>1 DEF AgentSetsInv, SavedOK, SetsAreWhole, DraftOK, Members, llms
<1> QED
  BY <1>2, <1>3, <1>4 DEF AgentSetsInv

\* Requests that leave the names, the parents and the members of the sets alone.
LEMMA SavedKept ==
  ASSUME AgentSetsInv, UNCHANGED <<saved, migrated>>, draft' = None, sets' \subseteq sets,
         \A s \in sets' : \A i : i \in rows' /\ agent'[i].set = s <=> i \in rows /\ agent[i].set = s,
         \A i \in rows : /\ agent'[i].name = agent[i].name /\ agent'[i].listens = agent[i].listens
                         /\ agent'[i].parent = agent[i].parent
  PROVE  SavedOK'
<1>1. \A s \in sets' : Members(s)' = Members(s)
  BY DEF Members
<1>2. DraftOK'
  BY DEF DraftOK
<1>3. SetsAreWhole'
  <2> SUFFICES ASSUME NEW s \in sets'
               PROVE  LET spec == saved[s].spec
                          id(k) == saved[s].from + k IN
                      /\ Members(s)' = {id(k) : k \in DOMAIN spec}
                      /\ \A k \in DOMAIN spec :
                           /\ agent'[id(k)].name = spec[k].name /\ agent'[id(k)].listens = spec[k].listens
                           /\ LET parent == agent'[id(k)].parent IN
                              IF \E j \in 1..k - 1 : spec[j].name = spec[k].parent
                                THEN parent # None /\ agent'[parent].name = spec[k].parent
                                ELSE parent = None
    BY DEF SetsAreWhole
  <2> DEFINE spec == saved[s].spec
  <2> DEFINE id(k) == saved[s].from + k
  <2>1. /\ Members(s) = {id(k) : k \in DOMAIN spec}
        /\ \A k \in DOMAIN spec :
             /\ agent[id(k)].name = spec[k].name /\ agent[id(k)].listens = spec[k].listens
             /\ LET parent == agent[id(k)].parent IN
                IF \E j \in 1..k - 1 : spec[j].name = spec[k].parent
                  THEN parent # None /\ agent[parent].name = spec[k].parent
                  ELSE parent = None
    BY DEF AgentSetsInv, SavedOK, SetsAreWhole
  <2>2. \A k \in DOMAIN spec : id(k) \in rows
    BY <2>1 DEF Members
  <2>3. \A i \in rows : agent[i].parent # None => agent[i].parent \in rows
    BY DEF AgentSetsInv, ParentsInSet
  <2>4. Members(s)' = {id(k) : k \in DOMAIN spec}
    BY <1>1, <2>1
  <2>5. ASSUME NEW k \in DOMAIN spec
        PROVE  /\ agent'[id(k)].name = spec[k].name /\ agent'[id(k)].listens = spec[k].listens
               /\ LET parent == agent'[id(k)].parent IN
                  IF \E j \in 1..k - 1 : spec[j].name = spec[k].parent
                    THEN parent # None /\ agent'[parent].name = spec[k].parent
                    ELSE parent = None
    <3> DEFINE i == id(k)
    <3>1. i \in rows /\ agent'[i].parent = agent[i].parent
          /\ agent'[i].name = agent[i].name /\ agent'[i].listens = agent[i].listens
      BY <2>2
    <3>2. agent[i].parent # None => agent'[agent[i].parent].name = agent[agent[i].parent].name
      BY <3>1, <2>3
    <3>3. /\ agent[i].name = spec[k].name /\ agent[i].listens = spec[k].listens
          /\ LET parent == agent[i].parent IN
             IF \E j \in 1..k - 1 : spec[j].name = spec[k].parent
               THEN parent # None /\ agent[parent].name = spec[k].parent
               ELSE parent = None
      BY <2>1
    <3> HIDE DEF i, spec
    <3>4. /\ agent'[i].name = spec[k].name /\ agent'[i].listens = spec[k].listens
          /\ LET parent == agent'[i].parent IN
             IF \E j \in 1..k - 1 : spec[j].name = spec[k].parent
               THEN parent # None /\ agent'[parent].name = spec[k].parent
               ELSE parent = None
      BY <3>1, <3>2, <3>3
    <3> QED
      BY <3>4 DEF i, spec
  <2> QED
    BY <2>4, <2>5
<1>4. DOMAIN saved' = Sets
  BY DEF AgentSetsInv, SavedOK
<1> QED
  BY <1>2, <1>3, <1>4 DEF SavedOK

\* Requests that leave the catalogues, the connections and the loads alone.
LEMMA SameLoads ==
  ASSUME AgentSetsInv, UNCHANGED <<name, deleted, llm, dflt, load>>,
         rows' \cap Born \subseteq rows, \A i \in Born : agent'[i] = agent[i]
  PROVE  AdminKeeps
<1>1. \A i \in Born : i \in Born'
  BY DEF Born
<1>2. \A q \in Loads : load[q] \in LoadTypes
  BY DEF AgentSetsInv, LoadsOK, LoadOK
<1>5. \A q \in Loads : SameReads(load[q], load'[q])
  BY DEF SameReads
<1>6. \A e \in Skills \cup Servers : name[e] # None => name'[e] # None
  OBVIOUS
<1>7. LoadTypes' = LoadTypes
  BY DEF LoadTypes
<1>8. DOMAIN load' = Loads /\ llms' = llms
  BY DEF AgentSetsInv, LoadsOK, llms
<1> QED
  BY <1>1, <1>2, <1>5, <1>6, <1>8 DEF AdminKeeps

\* Saving a set: ids go on, and the agents of the spec are a forest of their own.
LEMMA InsertKeeps ==
  ASSUME AgentSetsInv, NEW s \in Sets, NEW spec \in Specs,
         ~migrated => \A k \in DOMAIN spec : spec[k].llm \in llms \cup {None},
         InsertAgents(s, spec, Members(s)), sets' = sets \cup {s},
         saved' = [saved EXCEPT ![s] = [spec |-> spec, from |-> NewId(0)]], draft' = None,
         UNCHANGED <<projects, attached, name, deleted, llm, dflt, migrated, changes, load>>
  PROVE  AgentSetsInv'
<1>1. PICK n \in 0..MaxAgents : Born = 1..n
  BY DEF AgentSetsInv, TablesOK
<1>2. Cardinality(Born) = n
  <2>1. Cardinality(1..n) = n
    BY <1>1, FS_Interval
  <2> QED
    BY <1>1, <2>1
<1>3. PICK len \in Nat : DOMAIN spec = 1..len
  BY AgentSetsAssumption
<1>4. \A k \in DOMAIN spec : spec[k] \in AgentSpecs
  BY AgentSetsAssumption
<1> DEFINE new == {NewId(k) : k \in DOMAIN spec}
<1>5. \A k \in DOMAIN spec : NewId(k) = n + k /\ k \in Nat
  BY <1>2, <1>3 DEF NewId
<1>6. new \subseteq AgentIds /\ rows' = (rows \ Members(s)) \cup new
  BY DEF InsertAgents
<1>7. new = (n + 1)..(n + len)
  <2>1. new = {n + k : k \in 1..len}
    BY <1>3, <1>5
  <2>2. \A i \in (n + 1)..(n + len) : i - n \in 1..len /\ i = n + (i - n)
    BY <1>3, <1>1
  <2>3. \A k \in 1..len : n + k \in (n + 1)..(n + len)
    BY <1>3, <1>1
  <2> HIDE DEF new
  <2> QED
    BY <2>1, <2>2, <2>3
<1>8. new \cap Born = {}
  BY <1>7, <1>1, <1>3
<1>9. \A i \in AgentIds \ new : agent'[i] = agent[i]
  BY DEF InsertAgents
<1>10. \A k \in DOMAIN spec : agent'[NewId(k)] = Row(s, spec, k)
  <2> SUFFICES ASSUME NEW k \in DOMAIN spec PROVE agent'[NewId(k)] = Row(s, spec, k)
    OBVIOUS
  <2>1. \A j \in DOMAIN spec : NewId(j) = NewId(k) => j = k
    BY <1>5, <1>1
  <2>2. (CHOOSE j \in DOMAIN spec : NewId(j) = NewId(k)) = k
    BY <2>1
  <2>3. NewId(k) \in new
    OBVIOUS
  <2>4. agent'[NewId(k)] = Row(s, spec, CHOOSE j \in DOMAIN spec : NewId(j) = NewId(k))
    BY <1>6, <2>3 DEF InsertAgents
  <2> QED
    BY <2>2, <2>4
<1>11. \A k \in DOMAIN spec :
         \/ Parent(spec, k) = None
         \/ \E j \in DOMAIN spec : j < k /\ Parent(spec, k) = NewId(j)
  <2> SUFFICES ASSUME NEW k \in DOMAIN spec, Parent(spec, k) # None
               PROVE  \E j \in DOMAIN spec : j < k /\ Parent(spec, k) = NewId(j)
    OBVIOUS
  <2> DEFINE earlier == {j \in 1..k - 1 : spec[j].name = spec[k].parent}
  <2>1. earlier # {} /\ Parent(spec, k) = NewId(CHOOSE j \in earlier : TRUE)
    BY DEF Parent
  <2>2. (CHOOSE j \in earlier : TRUE) \in earlier
    BY <2>1
  <2>3. \A j \in earlier : j \in DOMAIN spec /\ j < k
    BY <1>3
  <2> HIDE DEF earlier
  <2> QED
    BY <2>1, <2>2, <2>3
<1>12. \A k \in DOMAIN spec : Row(s, spec, k) \in AgentRows
  <2> SUFFICES ASSUME NEW k \in DOMAIN spec PROVE Row(s, spec, k) \in AgentRows
    OBVIOUS
  <2>1. Parent(spec, k) \in AgentIds \cup {None}
    BY <1>11, <1>6
  <2>2. Linked(Skills, {spec[k].skills[j] : j \in DOMAIN spec[k].skills}) \subseteq Skills
        /\ Linked(Servers, spec[k].servers) \subseteq Servers
    BY DEF Linked
  <2> QED
    BY <1>4, <2>1, <2>2 DEF Row, AgentRows, AgentSpecs
<1>13. None \notin AgentRows /\ None \notin Names
  BY AgentSetsAssumption
<1>14. Born' = Born \cup new
  <2>1. \A i \in new : agent'[i] \in AgentRows
    BY <1>10, <1>12
  <2> HIDE DEF new
  <2> QED
    BY <2>1, <1>13, <1>6, <1>9, <1>8 DEF Born
<1>15. Born' = 1..n + len /\ n + len \in 0..MaxAgents
  <2>1. Born' = 1..n + len
    BY <1>14, <1>7, <1>1, <1>3
  <2>2. Born' \subseteq 1..MaxAgents
    BY DEF Born, AgentIds
  <2>3. n + len = 0 \/ n + len \in Born'
    BY <2>1, <1>1, <1>3
  <2> QED
    BY <2>1, <2>2, <2>3, <1>1, <1>3, AgentSetsAssumption
<1>16. \A k \in DOMAIN spec : LET r == Row(s, spec, k) IN
         /\ r.set = s /\ r.parent = Parent(spec, k) /\ (migrated \/ r.llm \in llms \cup {None})
         /\ \A e \in r.skills \cup r.servers : name[e] # None
  <2> SUFFICES ASSUME NEW k \in DOMAIN spec
               PROVE  LET r == Row(s, spec, k) IN
                      /\ r.set = s /\ r.parent = Parent(spec, k) /\ (migrated \/ r.llm \in llms \cup {None})
                      /\ \A e \in r.skills \cup r.servers : name[e] # None
    OBVIOUS
  <2>1. migrated \/ spec[k].llm \in llms \cup {None}
    OBVIOUS
  <2>2. {spec[k].skills[j] : j \in DOMAIN spec[k].skills} \subseteq Names
    <3>1. spec[k].skills \in Seq(Names)
      BY <1>4 DEF AgentSpecs
    <3> QED
      BY <3>1
  <2>3. spec[k].servers \subseteq Names
    BY <1>4 DEF AgentSpecs
  <2>4. \A e \in Linked(Skills, {spec[k].skills[j] : j \in DOMAIN spec[k].skills}) : name[e] # None
    BY <2>2, <1>13 DEF Linked
  <2>5. \A e \in Linked(Servers, spec[k].servers) : name[e] # None
    BY <2>3, <1>13 DEF Linked
  <2> QED
    BY <2>1, <2>4, <2>5 DEF Row
<1>17. \A i \in new : \E k \in DOMAIN spec : i = NewId(k)
  OBVIOUS
<1> DEFINE mine == Members(s)
<1>18. rows \subseteq Born /\ mine \subseteq rows /\ \A i \in rows : i \notin mine <=> agent[i].set # s
  BY DEF AgentSetsInv, AgentSetsTypeOK, Members
<1>19. rows' = (rows \ mine) \cup new
  BY <1>6
<1> HIDE DEF new, mine
<1>20. Born \subseteq AgentIds /\ \A i \in Born : i \notin new /\ agent'[i] = agent[i]
  BY <1>8, <1>9 DEF Born
<1>21. llms' = llms
  BY DEF llms
<1>22. \A i \in Born' : /\ migrated \/ agent'[i].llm \in llms \cup {None}
                        /\ \A e \in agent'[i].skills \cup agent'[i].servers : name[e] # None
  BY <1>10, <1>14, <1>16, <1>17, <1>20 DEF AgentSetsInv, TablesOK
<1>23. \A i \in rows' : i \in Born' /\ agent'[i].set \in sets'
  BY <1>10, <1>14, <1>16, <1>17, <1>18, <1>19, <1>20 DEF AgentSetsInv, AgentSetsTypeOK
<1>24. AgentSetsTypeOK'
  <2>1. sets' \subseteq Sets
    BY DEF AgentSetsInv, AgentSetsTypeOK
  <2>2. \A p \in Projects : attached[p] # None => p \in projects /\ attached[p] \in sets'
    BY DEF AgentSetsInv, AgentSetsTypeOK
  <2>3. \A i \in rows' : \A e \in agent'[i].servers : name[e] # None
    BY <1>22, <1>23
  <2>4. \A i \in rows' : migrated \/ agent'[i].llm \in llms' \cup {None}
    BY <1>22, <1>23, <1>21
  <2> QED
    BY <2>1, <2>2, <2>3, <2>4, <1>21, <1>23 DEF AgentSetsInv, AgentSetsTypeOK
<1>25. TablesOK'
  <2>1. agent' \in [AgentIds -> AgentRows \cup {None}]
    <3>1. \A i \in AgentIds : agent'[i] \in AgentRows \cup {None}
      BY <1>9, <1>10, <1>12, <1>17 DEF AgentSetsInv, TablesOK
    <3>2. agent' = [i \in AgentIds |-> agent'[i]]
      BY DEF InsertAgents
    <3> QED
      BY <3>1, <3>2
  <2> QED
    BY <2>1, <1>15, <1>21, <1>22 DEF AgentSetsInv, TablesOK, UniqueIn
<1>26. ParentsInSet'
  <2> SUFFICES ASSUME NEW i \in rows', agent'[i].parent # None
               PROVE  /\ agent'[i].parent \in rows' /\ agent'[i].parent < i
                      /\ agent'[agent'[i].parent].set = agent'[i].set
    BY DEF ParentsInSet
  <2>1. CASE i \in new
    <3>1. PICK k \in DOMAIN spec : i = NewId(k)
      BY <2>1, <1>17
    <3>2. agent'[i].set = s /\ agent'[i].parent = Parent(spec, k)
      BY <3>1, <1>10, <1>16
    <3>3. PICK j \in DOMAIN spec : j < k /\ Parent(spec, k) = NewId(j)
      BY <3>2, <1>11
    <3>4. agent'[NewId(j)].set = s
      BY <1>10, <1>16
    <3>5. NewId(j) \in new /\ NewId(j) < i
      BY <3>1, <3>3, <1>5, <1>1, <1>7, <1>3
    <3> QED
      BY <3>2, <3>3, <3>4, <3>5, <1>19
  <2>2. CASE i \notin new
    <3>1. i \in rows /\ i \notin mine /\ i \in Born /\ agent'[i] = agent[i] /\ agent[i].set # s
      BY <2>2, <1>18, <1>19, <1>20
    <3>2. agent[i].parent \in rows /\ agent[i].parent < i /\ agent[agent[i].parent].set = agent[i].set
      BY <3>1 DEF AgentSetsInv, ParentsInSet
    <3>3. agent[i].parent \in Born /\ agent[i].parent \notin mine
      BY <3>1, <3>2, <1>18
    <3> QED
      BY <3>1, <3>2, <3>3, <1>19, <1>20
  <2> QED
    BY <2>1, <2>2
<1>27. LoadsOK'
  <2>1. rows' \cap Born \subseteq rows
    BY <1>19, <1>8
  <2> QED
    BY <2>1, <1>20, SameLoads, LoadKept
<1>28. SavedOK'
  <2>1. DOMAIN saved' = Sets /\ saved'[s] = [spec |-> spec, from |-> n]
        /\ \A o \in Sets : o # s => saved'[o] = saved[o]
    <3>1. NewId(0) = n
      BY <1>1, <1>2 DEF NewId
    <3> QED
      BY <3>1 DEF AgentSetsInv, SavedOK
  <2>2. \A k \in DOMAIN spec : LET r == Row(s, spec, k) IN
          r.set = s /\ r.name = spec[k].name /\ r.listens = spec[k].listens /\ r.parent = Parent(spec, k)
    BY DEF Row
  <2>3. \A i \in new : agent'[i].set = s
    BY <1>10, <1>17, <2>2
  <2>4. \A i \in rows' : agent'[i].set = s <=> i \in new
    BY <1>18, <1>19, <1>20, <2>3
  <2>5. SetsAreWhole'
    <3> SUFFICES ASSUME NEW o \in sets'
                 PROVE  LET sp == saved'[o].spec
                            id(k) == saved'[o].from + k IN
                        /\ Members(o)' = {id(k) : k \in DOMAIN sp}
                        /\ \A k \in DOMAIN sp :
                             /\ agent'[id(k)].name = sp[k].name /\ agent'[id(k)].listens = sp[k].listens
                             /\ LET parent == agent'[id(k)].parent IN
                                IF \E j \in 1..k - 1 : sp[j].name = sp[k].parent
                                  THEN parent # None /\ agent'[parent].name = sp[k].parent
                                  ELSE parent = None
      BY DEF SetsAreWhole
    <3>1. CASE o = s
      <4>1. saved'[o].spec = spec /\ saved'[o].from = n
        BY <3>1, <2>1
      <4>2. Members(s)' = new
        BY <2>4, <1>19 DEF Members
      <4>3. new = {n + k : k \in DOMAIN spec}
        BY <1>5 DEF new
      <4>4. ASSUME NEW k \in DOMAIN spec
            PROVE  /\ agent'[n + k].name = spec[k].name /\ agent'[n + k].listens = spec[k].listens
                   /\ IF \E j \in 1..k - 1 : spec[j].name = spec[k].parent
                        THEN /\ agent'[n + k].parent # None
                             /\ agent'[agent'[n + k].parent].name = spec[k].parent
                        ELSE agent'[n + k].parent = None
        <5> DEFINE earlier == {j \in 1..k - 1 : spec[j].name = spec[k].parent}
        <5>1. agent'[n + k] = Row(s, spec, k)
          BY <1>5, <1>10
        <5>2. agent'[n + k].parent = IF earlier = {} THEN None ELSE NewId(CHOOSE j \in earlier : TRUE)
          BY <5>1, <2>2 DEF Parent
        <5>3. earlier # {} => (CHOOSE j \in earlier : TRUE) \in earlier
          OBVIOUS
        <5>4. \A j \in earlier : /\ j \in DOMAIN spec /\ spec[j].name = spec[k].parent
                                /\ NewId(j) \in AgentIds /\ agent'[NewId(j)].name = spec[j].name
          <6>1. \A j \in earlier : j \in DOMAIN spec /\ spec[j].name = spec[k].parent
            BY <1>3
          <6>2. \A j \in DOMAIN spec : NewId(j) \in AgentIds
            BY <1>6 DEF new
          <6> QED
            BY <6>1, <6>2, <1>10, <2>2
        <5>5. \A i \in AgentIds : i # None
          BY AgentSetsAssumption DEF AgentIds
        <5> HIDE DEF earlier
        <5>6. IF earlier # {}
                THEN /\ agent'[n + k].parent # None
                     /\ agent'[agent'[n + k].parent].name = spec[k].parent
                ELSE agent'[n + k].parent = None
          BY <5>2, <5>3, <5>4, <5>5
        <5> QED
          BY <5>1, <5>6, <2>2 DEF earlier
      <4> QED
        BY <4>1, <4>2, <4>3, <4>4, <3>1
    <3>2. CASE o # s
      <4> DEFINE sp == saved[o].spec
      <4> DEFINE id(k) == saved[o].from + k
      <4>1. o \in sets /\ o \in Sets /\ saved'[o] = saved[o]
        BY <3>2, <2>1 DEF AgentSetsInv, AgentSetsTypeOK
      <4>2. \A i : i \in rows' /\ agent'[i].set = o <=> i \in rows /\ agent[i].set = o
        BY <3>2, <2>3, <1>18, <1>19, <1>20
      <4>3. Members(o)' = Members(o)
        BY <4>2 DEF Members
      <4>4. /\ Members(o) = {id(k) : k \in DOMAIN sp}
            /\ \A k \in DOMAIN sp :
                 /\ agent[id(k)].name = sp[k].name /\ agent[id(k)].listens = sp[k].listens
                 /\ LET parent == agent[id(k)].parent IN
                    IF \E j \in 1..k - 1 : sp[j].name = sp[k].parent
                      THEN parent # None /\ agent[parent].name = sp[k].parent
                      ELSE parent = None
        BY <4>1 DEF AgentSetsInv, SavedOK, SetsAreWhole
      <4>5. \A k \in DOMAIN sp : id(k) \in rows
        BY <4>4 DEF Members
      <4>6. \A i \in rows : agent[i].parent # None => agent[i].parent \in rows
        BY DEF AgentSetsInv, ParentsInSet
      <4>7. \A i \in rows : agent'[i] = agent[i]
        BY <1>18, <1>20
      <4>8. ASSUME NEW k \in DOMAIN sp
            PROVE  /\ agent'[id(k)].name = sp[k].name /\ agent'[id(k)].listens = sp[k].listens
                   /\ LET parent == agent'[id(k)].parent IN
                      IF \E j \in 1..k - 1 : sp[j].name = sp[k].parent
                        THEN parent # None /\ agent'[parent].name = sp[k].parent
                        ELSE parent = None
        <5> DEFINE i == id(k)
        <5>1. i \in rows /\ agent'[i] = agent[i]
              /\ (agent[i].parent # None => agent'[agent[i].parent] = agent[agent[i].parent])
          BY <4>5, <4>6, <4>7
        <5>2. /\ agent[i].name = sp[k].name /\ agent[i].listens = sp[k].listens
              /\ LET parent == agent[i].parent IN
                 IF \E j \in 1..k - 1 : sp[j].name = sp[k].parent
                   THEN parent # None /\ agent[parent].name = sp[k].parent
                   ELSE parent = None
          BY <4>4
        <5> HIDE DEF i, sp
        <5>3. /\ agent'[i].name = sp[k].name /\ agent'[i].listens = sp[k].listens
              /\ LET parent == agent'[i].parent IN
                 IF \E j \in 1..k - 1 : sp[j].name = sp[k].parent
                   THEN parent # None /\ agent'[parent].name = sp[k].parent
                   ELSE parent = None
          BY <5>1, <5>2
        <5> QED
          BY <5>3 DEF i, sp
      <4> QED
        BY <4>1, <4>3, <4>4, <4>8
    <3> QED
      BY <3>1, <3>2
  <2> QED
    BY <2>1, <2>5 DEF SavedOK, DraftOK
<1> QED
  BY <1>24, <1>25, <1>26, <1>27, <1>28 DEF AgentSetsInv

\* The agents of a set and its attachments go with it.
LEMMA DeleteSetKeeps ==
  ASSUME AgentSetsInv, NEW s \in Sets, DeleteSet(s) PROVE AgentSetsInv'
<1>1. UNCHANGED <<agent, projects, name, deleted, llm, dflt, migrated, saved, load>>
      /\ sets' = sets \ {s} /\ draft' = None
      /\ rows' = rows \ Members(s)
      /\ attached' = [p \in Projects |-> IF attached[p] = s THEN None ELSE attached[p]]
  BY DEF DeleteSet, Request
<1>2. \A i \in rows' : i \in rows /\ agent[i].set # s
  BY <1>1 DEF Members
<1>3. \A i \in rows : agent[i].set # s => i \in rows'
  BY <1>1 DEF Members
<1>4. LoadsOK'
  BY <1>1, <1>2, SameLoads, LoadKept
<1>5. changes' \in 0..MaxChanges
  BY AgentSetsAssumption DEF DeleteSet, Request, AgentSetsInv, AgentSetsTypeOK
<1>6. llms' = llms /\ Born' = Born
  BY <1>1 DEF llms, Born
<1>7. AgentSetsTypeOK'
  BY <1>1, <1>2, <1>5, <1>6 DEF AgentSetsInv, AgentSetsTypeOK
<1>8. TablesOK'
  BY <1>1, <1>6 DEF AgentSetsInv, TablesOK, UniqueIn
<1>9. ParentsInSet'
  BY <1>1, <1>2, <1>3 DEF AgentSetsInv, ParentsInSet
<1>10. SavedOK'
  BY <1>1, <1>2, <1>3, SavedKept
<1> QED
  BY <1>4, <1>7, <1>8, <1>9, <1>10 DEF AgentSetsInv

\* Requests about projects and their attachments.
LEMMA ProjectsKeep ==
  ASSUME AgentSetsInv, attached' \in [Projects -> Sets \cup {None}], projects' \subseteq Projects,
         \A p \in Projects : attached'[p] # None => p \in projects' /\ attached'[p] \in sets,
         Request, draft' = None,
         UNCHANGED <<agent, rows, sets, name, deleted, llm, dflt, migrated, saved, load>>
  PROVE  AgentSetsInv'
<1>1. LoadsOK'
  BY SameLoads, LoadKept
<1>2. changes' \in 0..MaxChanges
  BY AgentSetsAssumption DEF Request, AgentSetsInv, AgentSetsTypeOK
<1>3. llms' = llms /\ Born' = Born
  BY DEF llms, Born
<1>4. AgentSetsTypeOK' /\ TablesOK' /\ ParentsInSet'
  BY <1>2, <1>3 DEF AgentSetsInv, AgentSetsTypeOK, TablesOK, UniqueIn, ParentsInSet
<1>5. SavedOK'
  BY SavedKept
<1> QED
  BY <1>1, <1>4, <1>5 DEF AgentSetsInv

LEMMA ProjectStepKeeps ==
  ASSUME AgentSetsInv, NEW p \in Projects,
         \/ CreateProject(p)
         \/ DeleteProject(p)
         \/ \E s \in Sets : AttachSet(p, s)
  PROVE  AgentSetsInv'
<1>t. /\ projects \subseteq Projects /\ attached \in [Projects -> Sets \cup {None}]
      /\ \A o \in Projects : attached[o] # None => o \in projects /\ attached[o] \in sets
  BY DEF AgentSetsInv, AgentSetsTypeOK, TablesOK
<1>1. CASE CreateProject(p)
  BY <1>t, <1>1, ProjectsKeep DEF CreateProject, Request
<1>2. CASE DeleteProject(p)
  BY <1>t, <1>2, ProjectsKeep DEF DeleteProject, Request
<1>3. CASE \E s \in Sets : AttachSet(p, s)
  <2>1. PICK s \in Sets : AttachSet(p, s)
    BY <1>3
  <2>2. /\ attached' = [attached EXCEPT ![p] = s] /\ p \in projects /\ s \in sets
        /\ Request /\ draft' = None
        /\ UNCHANGED <<agent, rows, sets, projects, name, deleted, llm, dflt, migrated, saved, load>>
    BY <2>1 DEF AttachSet, Request
  <2> QED
    BY <1>t, <2>2, ProjectsKeep
<1> QED
  BY <1>1, <1>2, <1>3

\* A saving begins, goes on and is rolled back: the tables are as before.
LEMMA DraftKeeps ==
  ASSUME AgentSetsInv, UNCHANGED <<tables, dflt, load>>, changes' \in 0..MaxChanges, DraftOK',
         draft' # None =>
           draft'.set \in Sets /\ draft'.spec \in Specs /\ draft'.done \in 0..Len(draft'.spec)
  PROVE  AgentSetsInv'
<1>1. UNCHANGED <<agent, rows, sets, projects, attached, name, deleted, llm, migrated, saved>>
  BY DEF tables
<1>2. llms' = llms /\ Born' = Born
  BY <1>1 DEF llms, Born
<1>3. LoadsOK'
  BY <1>1, SameLoads, LoadKept
<1>4. AgentSetsTypeOK' /\ TablesOK' /\ ParentsInSet'
  BY <1>1, <1>2 DEF AgentSetsInv, AgentSetsTypeOK, TablesOK, UniqueIn, ParentsInSet
<1>5. SavedOK'
  BY <1>1 DEF AgentSetsInv, SavedOK, SetsAreWhole, Members
<1> QED
  BY <1>3, <1>4, <1>5 DEF AgentSetsInv

LEMMA BeginKeeps ==
  ASSUME AgentSetsInv, NEW s \in Sets, NEW spec \in Specs, CreateSet(s, spec) \/ UpdateSet(s, spec)
  PROVE  AgentSetsInv'
<1>1. /\ draft' = [set |-> s, spec |-> spec, done |-> 0] /\ Request
      /\ UNCHANGED <<tables, dflt, load>>
  BY DEF CreateSet, UpdateSet, Begin, tables
<1>2. changes' \in 0..MaxChanges
  BY <1>1, AgentSetsAssumption DEF Request, AgentSetsInv, AgentSetsTypeOK
<1>3. spec \in Seq(AgentSpecs)
  BY AgentSetsAssumption
<1>4. 0 \in 0..Len(spec)
  BY <1>3
<1>5. DraftOK'
  BY <1>1 DEF DraftOK, tables
<1> QED
  BY <1>1, <1>2, <1>4, <1>5, DraftKeeps

LEMMA InsertAgentKeeps ==
  ASSUME AgentSetsInv, InsertAgent \/ Rollback PROVE AgentSetsInv'
<1>1. UNCHANGED <<tables, dflt, changes, load>> /\ draft # None
  BY DEF InsertAgent, Rollback
<1>2. changes' \in 0..MaxChanges
  BY <1>1 DEF AgentSetsInv, AgentSetsTypeOK
<1>3. CASE Rollback
  <2>1. draft' = None
    BY <1>3 DEF Rollback
  <2> QED
    BY <1>1, <1>2, <2>1, DraftKeeps DEF DraftOK
<1>4. CASE InsertAgent
  <2> DEFINE k == draft.done + 1
  <2>1. /\ k \in DOMAIN draft.spec /\ Accepted(draft.spec, k)
        /\ draft' = [draft EXCEPT !.done = @ + 1]
    BY <1>4 DEF InsertAgent
  <2>2. draft \in [set : Sets, spec : Specs, done : Nat]
    BY <1>1 DEF AgentSetsInv, SavedOK, DraftOK
  <2>3. draft' \in [set : Sets, spec : Specs, done : Nat]
        /\ draft'.set = draft.set /\ draft'.spec = draft.spec /\ draft'.done = k
    BY <2>1, <2>2
  <2>4. draft.spec \in Seq(AgentSpecs) /\ draft.done \in Nat
    BY <2>2, AgentSetsAssumption
  <2>5. k \in 0..Len(draft.spec)
    BY <2>1, <2>4
  <2>6. ~migrated => draft.spec[k].llm \in llms \cup {None}
    BY <2>1 DEF Accepted
  <2>7. ~migrated => \A j \in 1..k : draft.spec[j].llm \in llms \cup {None}
    <3>1. \A j \in 1..k : j = k \/ j \in 1..draft.done
      BY <2>4
    <3> QED
      BY <1>1, <2>6, <3>1 DEF AgentSetsInv, SavedOK, DraftOK
  <2>8. llms' = llms /\ migrated' = migrated
    BY <1>1 DEF llms, tables
  <2> HIDE DEF k
  <2>9. DraftOK'
    BY <2>3, <2>7, <2>8 DEF DraftOK
  <2> QED
    BY <1>1, <1>2, <2>2, <2>3, <2>5, <2>9, DraftKeeps
<1> QED
  BY <1>3, <1>4

LEMMA CommitSetKeeps ==
  ASSUME AgentSetsInv, CommitSet PROVE AgentSetsInv'
<1>1. draft # None /\ draft.set \in Sets /\ draft.spec \in Specs /\ draft.done = Len(draft.spec)
  BY DEF CommitSet, AgentSetsInv, AgentSetsTypeOK
<1>2. DOMAIN draft.spec = 1..draft.done
  BY <1>1, AgentSetsAssumption
<1>3. ~migrated => \A k \in DOMAIN draft.spec : draft.spec[k].llm \in llms \cup {None}
  BY <1>1, <1>2 DEF AgentSetsInv, SavedOK, DraftOK
<1> QED
  BY <1>1, <1>3, InsertKeeps DEF CommitSet

\* Marking names in the runs, and watching their connections, changes nothing else.
LEMMA ForgetLoads ==
  ASSUME AgentSetsInv, NEW names \in SUBSET (Names \cup {None}), Forget(names)
  PROVE  /\ DOMAIN load' = Loads
         /\ \A q \in Loads :
              /\ load'[q] \in LoadTypes /\ names \ {None} \subseteq load'[q].stale
              /\ SameReads(load[q], load'[q])
              /\ load'[q].steady = load[q].steady
<1> SUFFICES ASSUME NEW q \in Loads
             PROVE  /\ load'[q] \in LoadTypes /\ names \ {None} \subseteq load'[q].stale
                    /\ SameReads(load[q], load'[q])
                    /\ load'[q].steady = load[q].steady
  BY DEF Forget
<1> DEFINE old == names \ {None}
<1>1. load'[q] = [load[q] EXCEPT !.stale = @ \cup old]
  BY DEF Forget
<1>2. load[q] \in LoadTypes
  BY DEF AgentSetsInv, LoadsOK, LoadOK
<1>3. old \in SUBSET Names
  OBVIOUS
<1> HIDE DEF old
<1>5. load[q].steady \in BOOLEAN /\ load[q].stale \subseteq Names
  BY <1>2 DEF LoadTypes
<1>6. load'[q] \in LoadTypes
  <2>1. load[q].stale \cup old \in SUBSET Names
    BY <1>3, <1>5
  <2> QED
    BY <1>1, <1>2, <2>1 DEF LoadTypes
<1>7. old \subseteq load'[q].stale /\ load'[q].steady = load[q].steady
  BY <1>1, <1>2 DEF LoadTypes
<1>8. SameReads(load[q], load'[q])
  BY <1>1, <1>2 DEF LoadTypes, SameReads
<1> QED
  BY <1>6, <1>7, <1>8 DEF old

LEMMA WatchLoads ==
  ASSUME AgentSetsInv, NEW there, NEW default, Watch(there, default)
  PROVE  /\ DOMAIN load' = Loads
         /\ \A q \in Loads :
              /\ load'[q] \in LoadTypes /\ SameReads(load[q], load'[q])
              /\ load'[q].steady => load[q].steady /\ (load[q].row.llm \in there \/ default # None)
<1> SUFFICES ASSUME NEW q \in Loads
             PROVE  /\ load'[q] \in LoadTypes /\ SameReads(load[q], load'[q])
                    /\ load'[q].steady =>
                         load[q].steady /\ (load[q].row.llm \in there \/ default # None)
  BY DEF Watch
<1> DEFINE ok == load[q].steady /\ (load[q].row.llm \in there \/ default # None)
<1>1. load'[q] = [load[q] EXCEPT !.steady = ok]
  BY DEF Watch
<1>2. load[q] \in LoadTypes
  BY DEF AgentSetsInv, LoadsOK, LoadOK
<1>3. ok \in BOOLEAN
  OBVIOUS
<1> HIDE DEF ok
<1>5. load'[q] \in LoadTypes /\ load'[q].steady = ok
  BY <1>1, <1>2, <1>3 DEF LoadTypes
<1>6. SameReads(load[q], load'[q])
  BY <1>1, <1>2 DEF LoadTypes, SameReads
<1> QED
  BY <1>5, <1>6 DEF ok

\* A name is given or changed.
LEMMA NameEntryKeeps ==
  ASSUME AgentSetsInv, NEW entries \in {Skills, Servers}, NEW e, NEW n \in Names,
         NameEntry(entries, e, n)
  PROVE  AgentSetsInv'
<1>1. /\ e \in entries /\ name[e] # n /\ Request /\ draft' = None
      /\ name' = [name EXCEPT ![e] = n]
      /\ NameFree(entries, n) /\ (e \in Servers => e \notin deleted)
      /\ Forget(IF name[e] # None THEN {name[e], n} ELSE {})
      /\ UNCHANGED <<agent, rows, sets, projects, attached, deleted, llm, dflt, migrated, saved>>
  BY DEF NameEntry, Request
<1>2. /\ name \in [Skills \cup Servers -> Names \cup {None}] /\ e \in Skills \cup Servers
      /\ Skills \cap Servers = {} /\ None \notin Names
  BY <1>1, AgentSetsAssumption DEF AgentSetsInv, AgentSetsTypeOK
<1>3. changes' \in 0..MaxChanges
  BY <1>1, AgentSetsAssumption DEF Request, AgentSetsInv, AgentSetsTypeOK
<1>4. llms' = llms /\ Born' = Born
  BY <1>1 DEF llms, Born
<1>5. \A f \in Skills \cup Servers : name'[f] = IF f = e THEN n ELSE name[f]
  BY <1>1, <1>2
<1>6. name' \in [Skills \cup Servers -> Names \cup {None}]
  BY <1>1, <1>2
<1>7. \A f \in Skills \cup Servers : name[f] # None => name'[f] # None
  BY <1>2, <1>5
<1>8. \A f \in entries : name[f] # n
  BY <1>1 DEF NameFree
<1>9. UniqueIn(Skills)' /\ UniqueIn(Servers)'
  <2> SUFFICES ASSUME NEW some \in {Skills, Servers}, NEW f \in some, NEW g \in some,
                      name'[f] = name'[g], name'[f] # None
               PROVE  f = g
    BY DEF UniqueIn
  <2>1. f \in Skills \cup Servers /\ g \in Skills \cup Servers
    OBVIOUS
  <2>2. name[f] = name[g] /\ name[f] # None => f = g
    BY DEF AgentSetsInv, TablesOK, UniqueIn
  <2>3. e \in some => some = entries
    BY <1>1, <1>2
  <2> QED
    BY <1>5, <1>8, <2>1, <2>2, <2>3
<1>10. AgentSetsTypeOK'
  <2>1. \A i \in rows : \A f \in agent[i].servers : name'[f] # None
    <3> SUFFICES ASSUME NEW i \in rows, NEW f \in agent[i].servers PROVE name'[f] # None
      OBVIOUS
    <3>1. name[f] # None /\ agent[i] \in AgentRows
      BY DEF AgentSetsInv, AgentSetsTypeOK, TablesOK, Born
    <3> QED
      BY <3>1, <1>7 DEF AgentRows
  <2> QED
    BY <1>1, <1>3, <1>4, <1>6, <2>1 DEF AgentSetsInv, AgentSetsTypeOK
<1>11. TablesOK'
  <2>1. \A i \in Born : \A f \in agent[i].skills \cup agent[i].servers : name'[f] # None
    <3> SUFFICES ASSUME NEW i \in Born, NEW f \in agent[i].skills \cup agent[i].servers
                 PROVE  name'[f] # None
      OBVIOUS
    <3>1. name[f] # None /\ agent[i] \in AgentRows
      BY DEF AgentSetsInv, TablesOK, Born
    <3> QED
      BY <3>1, <1>7 DEF AgentRows
  <2>2. \A f \in Servers \cap deleted : name'[f] = None
    <3> SUFFICES ASSUME NEW f \in Servers \cap deleted PROVE name'[f] = None
      OBVIOUS
    <3>1. name[f] = None
      BY DEF AgentSetsInv, TablesOK
    <3> QED
      BY <3>1, <1>1, <1>5
  <2> QED
    BY <1>1, <1>4, <1>9, <2>1, <2>2 DEF AgentSetsInv, TablesOK
<1>12. ParentsInSet'
  BY <1>1 DEF AgentSetsInv, ParentsInSet
<1>14. SavedOK'
  BY <1>1, SavedKept
<1>13. LoadsOK'
  <2> DEFINE names == IF name[e] # None THEN {name[e], n} ELSE {}
  <2>1. names \in SUBSET (Names \cup {None}) /\ Forget(names)
    BY <1>1, <1>2
  <2>2. \A f \in Skills \cup Servers : name[f] # None =>
          name'[f] = name[f] \/ {name[f], name'[f]} \subseteq names
    BY <1>5
  <2> HIDE DEF names
  <2>3. /\ DOMAIN load' = Loads
        /\ \A q \in Loads :
             /\ load'[q] \in LoadTypes /\ names \ {None} \subseteq load'[q].stale
             /\ SameReads(load[q], load'[q])
             /\ load'[q].steady = load[q].steady
    BY <2>1, ForgetLoads
  <2>4. \A f \in Skills \cup Servers : name[f] # None =>
          /\ name'[f] = name[f] \/ \A q \in Loads : {name[f], name'[f]} \ {None} \subseteq load'[q].stale
          /\ name'[f] # None
    BY <1>7, <2>2, <2>3
  <2>5. AdminKeeps
    BY <1>1, <1>4, <2>3, <2>4 DEF AdminKeeps
  <2> QED
    BY <2>5, LoadKept
<1> QED
  BY <1>10, <1>11, <1>12, <1>13, <1>14 DEF AgentSetsInv

\* A skill is deleted softly: its row and its links stay.
LEMMA DeleteSkillKeeps ==
  ASSUME AgentSetsInv, NEW e \in Skills, DeleteSkill(e) PROVE AgentSetsInv'
<1>1. /\ Request /\ draft' = None /\ deleted' = deleted \cup {e}
      /\ UNCHANGED <<agent, rows, sets, projects, attached, name, llm, dflt, migrated, saved, load>>
  BY DEF DeleteSkill, Request
<1>2. changes' \in 0..MaxChanges
  BY <1>1, AgentSetsAssumption DEF Request, AgentSetsInv, AgentSetsTypeOK
<1>3. llms' = llms /\ Born' = Born
  BY <1>1 DEF llms, Born
<1>4. Servers \cap deleted' = Servers \cap deleted
  BY <1>1, AgentSetsAssumption
<1>5. deleted' \subseteq Skills \cup Servers
  BY <1>1 DEF AgentSetsInv, AgentSetsTypeOK
<1>6. AgentSetsTypeOK' /\ TablesOK' /\ ParentsInSet'
  BY <1>1, <1>2, <1>3, <1>4, <1>5 DEF AgentSetsInv, AgentSetsTypeOK, TablesOK, UniqueIn, ParentsInSet
<1>7. \A q \in Loads : load[q] \in LoadTypes
  BY DEF AgentSetsInv, LoadsOK, LoadOK
<1>8. AdminKeeps
  <2>3. \A q \in Loads : SameReads(load[q], load'[q])
    BY <1>1 DEF SameReads
  <2>4. DOMAIN load' = Loads
    BY <1>1 DEF AgentSetsInv, LoadsOK
  <2>5. \A i \in Born : agent[i].servers \ deleted' \subseteq agent'[i].servers
    BY <1>1
  <2> QED
    BY <1>1, <1>3, <1>7, <2>3, <2>4, <2>5 DEF AdminKeeps
<1>9. SavedOK'
  BY <1>1, SavedKept
<1> QED
  BY <1>6, <1>8, <1>9, LoadKept DEF AgentSetsInv

\* A server is deleted with its links, and its name is free.
LEMMA DeleteServerKeeps ==
  ASSUME AgentSetsInv, NEW e \in Servers, DeleteServer(e) PROVE AgentSetsInv'
<1>1. /\ Request /\ draft' = None
      /\ name' = [name EXCEPT ![e] = None]
      /\ deleted' = deleted \cup {e}
      /\ agent' = [i \in AgentIds |-> IF agent[i] = None THEN None
                                      ELSE [agent[i] EXCEPT !.servers = @ \ {e}]]
      /\ Forget({name[e]})
      /\ UNCHANGED <<rows, sets, projects, attached, llm, dflt, migrated, saved>>
  BY DEF DeleteServer, Request
<1>2. /\ name \in [Skills \cup Servers -> Names \cup {None}] /\ e \notin Skills
      /\ agent \in [AgentIds -> AgentRows \cup {None}]
      /\ None \notin AgentRows /\ None \notin Names
  BY AgentSetsAssumption DEF AgentSetsInv, AgentSetsTypeOK, TablesOK
<1>3. \A f \in Skills \cup Servers : name'[f] = IF f = e THEN None ELSE name[f]
  BY <1>1, <1>2
<1>4. name' \in [Skills \cup Servers -> Names \cup {None}]
  BY <1>1, <1>2
<1>5. changes' \in 0..MaxChanges
  BY <1>1, AgentSetsAssumption DEF Request, AgentSetsInv, AgentSetsTypeOK
<1>6. \A i \in Born : /\ agent[i] \in AgentRows /\ i \in AgentIds
                      /\ agent'[i] = [agent[i] EXCEPT !.servers = @ \ {e}]
  BY <1>1, <1>2 DEF Born
<1>7. \A i \in Born : /\ agent'[i] \in AgentRows
                      /\ agent'[i].set = agent[i].set /\ agent'[i].parent = agent[i].parent
                      /\ agent'[i].name = agent[i].name /\ agent'[i].listens = agent[i].listens
                      /\ agent'[i].llm = agent[i].llm /\ agent'[i].skills = agent[i].skills
                      /\ agent'[i].servers = agent[i].servers \ {e}
                      /\ agent[i].skills \subseteq Skills /\ agent[i].servers \subseteq Servers
  <2> SUFFICES ASSUME NEW i \in Born
               PROVE  /\ agent'[i] \in AgentRows
                      /\ agent'[i].set = agent[i].set /\ agent'[i].parent = agent[i].parent
                      /\ agent'[i].name = agent[i].name /\ agent'[i].listens = agent[i].listens
                      /\ agent'[i].llm = agent[i].llm /\ agent'[i].skills = agent[i].skills
                      /\ agent'[i].servers = agent[i].servers \ {e}
                      /\ agent[i].skills \subseteq Skills /\ agent[i].servers \subseteq Servers
    OBVIOUS
  <2>1. agent[i] \in AgentRows /\ agent'[i] = [agent[i] EXCEPT !.servers = @ \ {e}]
    BY <1>6
  <2>2. agent[i].servers \subseteq Servers /\ agent[i].skills \subseteq Skills
    BY <2>1 DEF AgentRows
  <2>3. agent[i].servers \ {e} \in SUBSET Servers
    BY <2>2
  <2> QED
    BY <2>1, <2>2, <2>3 DEF AgentRows
<1>8. \A i \in AgentIds : i \notin Born => agent'[i] = None
  BY <1>1 DEF Born
<1>9. Born' = Born
  <2>1. \A i \in Born : agent'[i] # None
    BY <1>7, <1>2
  <2> QED
    BY <1>8, <2>1 DEF Born
<1>10. llms' = llms /\ rows \subseteq Born
  BY <1>1 DEF llms, AgentSetsInv, AgentSetsTypeOK
<1>11. AgentSetsTypeOK'
  <2>1. \A i \in rows : \A f \in agent'[i].servers : name'[f] # None
    BY <1>3, <1>7, <1>10 DEF AgentSetsInv, AgentSetsTypeOK
  <2>2. deleted' \subseteq Skills \cup Servers
    BY <1>1 DEF AgentSetsInv, AgentSetsTypeOK
  <2>3. \A i \in rows : agent'[i].set \in sets /\ (migrated \/ agent'[i].llm \in llms \cup {None})
    BY <1>7, <1>10 DEF AgentSetsInv, AgentSetsTypeOK
  <2> QED
    BY <1>1, <1>4, <1>5, <1>9, <1>10, <2>1, <2>2, <2>3 DEF AgentSetsInv, AgentSetsTypeOK
<1>12. TablesOK'
  <2>1. agent' \in [AgentIds -> AgentRows \cup {None}]
    <3>1. \A i \in AgentIds : agent'[i] \in AgentRows \cup {None}
      BY <1>7, <1>8
    <3> QED
      BY <1>1, <3>1
  <2>2. \A i \in Born : \A f \in agent'[i].skills \cup agent'[i].servers : name'[f] # None
    BY <1>2, <1>3, <1>7 DEF AgentSetsInv, TablesOK
  <2>3. \A i \in Born : migrated \/ agent'[i].llm \in llms \cup {None}
    BY <1>7 DEF AgentSetsInv, TablesOK
  <2>4. \A f \in Servers \cap deleted' : name'[f] = None
    <3> SUFFICES ASSUME NEW f \in Servers, f \in deleted' PROVE name'[f] = None
      OBVIOUS
    <3>1. f = e \/ f \in deleted
      BY <1>1
    <3>2. f \in deleted => name[f] = None
      BY DEF AgentSetsInv, TablesOK
    <3> QED
      BY <3>1, <3>2, <1>3
  <2>5. UniqueIn(Skills)' /\ UniqueIn(Servers)'
    BY <1>3 DEF AgentSetsInv, TablesOK, UniqueIn
  <2> QED
    BY <1>1, <1>9, <1>10, <2>1, <2>2, <2>3, <2>4, <2>5 DEF AgentSetsInv, TablesOK
<1>13. ParentsInSet'
  <2>0. rows' = rows /\ \A i \in rows : agent'[i].parent = agent[i].parent
    BY <1>1, <1>7, <1>10
  <2> SUFFICES ASSUME NEW i \in rows, agent[i].parent # None
               PROVE  /\ agent[i].parent \in rows /\ agent[i].parent < i
                      /\ agent'[agent[i].parent].set = agent'[i].set
    BY <2>0 DEF ParentsInSet
  <2>1. agent[i].parent \in rows /\ agent[i].parent < i /\ agent[agent[i].parent].set = agent[i].set
    BY DEF AgentSetsInv, ParentsInSet
  <2> QED
    BY <2>1, <1>7, <1>10
<1>14. AdminKeeps
  <2>1. {name[e]} \in SUBSET (Names \cup {None})
    BY <1>2
  <2>2. /\ DOMAIN load' = Loads
        /\ \A q \in Loads :
             /\ load'[q] \in LoadTypes /\ {name[e]} \ {None} \subseteq load'[q].stale
             /\ SameReads(load[q], load'[q])
             /\ load'[q].steady = load[q].steady
    BY <1>1, <2>1, ForgetLoads
  <2>3. \A f \in Skills \cup Servers : name[f] # None =>
          /\ name'[f] = name[f] \/ \A q \in Loads : {name[f], name'[f]} \ {None} \subseteq load'[q].stale
          /\ name'[f] # None \/ f \in Servers \cap deleted'
    BY <1>1, <1>3, <2>2
  <2>4. \A i \in Born : agent[i].servers \ deleted' \subseteq agent'[i].servers
    <3> SUFFICES ASSUME NEW i \in Born, e \in agent[i].servers PROVE e \in deleted'
      BY <1>7
    <3>1. name[e] # None
      BY DEF AgentSetsInv, TablesOK
    <3> QED
      BY <3>1, <1>1
  <2>5. \A i \in Born : /\ i \in Born' /\ agent'[i].skills = agent[i].skills
                        /\ agent'[i].servers \subseteq agent[i].servers
    BY <1>7, <1>9
  <2>6. rows' \cap Born \subseteq rows /\ deleted \subseteq deleted'
    BY <1>1
  <2>7. \A q \in Loads : load'[q].steady =>
          load[q].steady /\ (dflt # None => dflt' # None \/ load[q].row.llm \in llms')
    BY <1>1, <2>2
  <2> QED
    BY <1>1, <1>10, <2>2, <2>3, <2>4, <2>5, <2>6, <2>7 DEF AdminKeeps
<1>15. SavedOK'
  BY <1>1, <1>7, <1>10, SavedKept
<1> QED
  BY <1>11, <1>12, <1>13, <1>14, <1>15, LoadKept DEF AgentSetsInv

\* Requests about connections.
LEMMA LlmKeeps ==
  ASSUME AgentSetsInv, NEW d \in Llms, CreateLlm(d) \/ DeleteLlm(d) PROVE AgentSetsInv'
<1>t. /\ llm \in [Llms -> {"new", "there", "gone"}] /\ dflt \in llms \cup {None}
      /\ agent \in [AgentIds -> AgentRows \cup {None}]
      /\ None \notin AgentRows /\ None \notin Llms
      /\ \A q \in Loads : load[q] \in LoadTypes
      /\ rows \subseteq Born
  BY AgentSetsAssumption DEF AgentSetsInv, AgentSetsTypeOK, TablesOK, LoadsOK, LoadOK
<1>c. /\ Request /\ draft' = None
      /\ UNCHANGED <<rows, sets, projects, attached, name, deleted, migrated, saved>>
  BY DEF CreateLlm, DeleteLlm, Request
<1>r. changes' \in 0..MaxChanges
  BY <1>c, AgentSetsAssumption DEF Request, AgentSetsInv, AgentSetsTypeOK
<1>1. CASE CreateLlm(d)
  <2>1. /\ llm[d] = "new" /\ llm' = [llm EXCEPT ![d] = "there"] /\ UNCHANGED <<agent, dflt>>
        /\ load' = [q \in Loads |-> [load[q] EXCEPT !.late = @ \cup {d}]]
    BY <1>1 DEF CreateLlm
  <2>2. llms \subseteq llms' /\ Born' = Born
    BY <1>t, <2>1 DEF llms, Born
  <2>3. llm' \in [Llms -> {"new", "there", "gone"}]
    BY <1>t, <2>1
  <2>4. AgentSetsTypeOK'
    BY <1>c, <1>r, <2>1, <2>2, <2>3 DEF AgentSetsInv, AgentSetsTypeOK
  <2>5. TablesOK' /\ ParentsInSet'
    BY <1>c, <2>1, <2>2 DEF AgentSetsInv, TablesOK, UniqueIn, ParentsInSet
  <2>6. AdminKeeps
    <3>1. ASSUME NEW q \in Loads
          PROVE  /\ load'[q] \in LoadTypes /\ SameReads(load[q], load'[q])
                 /\ load'[q].steady = load[q].steady /\ d \in load'[q].late
      <4>1. load'[q] = [load[q] EXCEPT !.late = @ \cup {d}] /\ load[q] \in LoadTypes
        BY <1>t, <2>1
      <4>2. load[q].late \cup {d} \in SUBSET Llms
        BY <4>1 DEF LoadTypes
      <4>3. load'[q] \in LoadTypes
        BY <4>1, <4>2 DEF LoadTypes
      <4>4. SameReads(load[q], load'[q]) /\ load'[q].steady = load[q].steady /\ d \in load'[q].late
        BY <4>1 DEF LoadTypes, SameReads
      <4> QED
        BY <4>3, <4>4
    <3>2. DOMAIN load' = Loads
      BY <2>1
    <3>3. llms' \ llms \subseteq {d}
      BY <1>t, <2>1 DEF llms
    <3> QED
      BY <1>t, <1>c, <2>1, <2>2, <3>1, <3>2, <3>3 DEF AdminKeeps
  <2>7. SavedOK'
    BY <1>c, <2>1, SavedKept
  <2> QED
    BY <2>4, <2>5, <2>6, <2>7, LoadKept DEF AgentSetsInv
<1>2. CASE DeleteLlm(d)
  <2>1. /\ llm' = [llm EXCEPT ![d] = IF d \in llms THEN "gone" ELSE @]
        /\ dflt' = IF dflt = d THEN None ELSE dflt
        /\ agent' = [i \in AgentIds |-> IF agent[i] # None /\ agent[i].llm = d /\ ~migrated
                                        THEN [agent[i] EXCEPT !.llm = None] ELSE agent[i]]
        /\ Watch(llms \ {d}, dflt')
    BY <1>2 DEF DeleteLlm
  <2>2. llms' = llms \ {d}
    BY <1>t, <2>1 DEF llms
  <2>3. llm' \in [Llms -> {"new", "there", "gone"}]
    BY <1>t, <2>1
  <2>5. \A i \in Born : /\ agent'[i] \in AgentRows
                        /\ agent'[i].set = agent[i].set /\ agent'[i].parent = agent[i].parent
                        /\ agent'[i].name = agent[i].name /\ agent'[i].listens = agent[i].listens
                        /\ agent'[i].skills = agent[i].skills /\ agent'[i].servers = agent[i].servers
                        /\ agent'[i].llm = IF agent[i].llm = d /\ ~migrated THEN None ELSE agent[i].llm
    <3> SUFFICES ASSUME NEW i \in Born
                 PROVE  /\ agent'[i] \in AgentRows
                        /\ agent'[i].set = agent[i].set /\ agent'[i].parent = agent[i].parent
                        /\ agent'[i].name = agent[i].name /\ agent'[i].listens = agent[i].listens
                        /\ agent'[i].skills = agent[i].skills /\ agent'[i].servers = agent[i].servers
                        /\ agent'[i].llm = IF agent[i].llm = d /\ ~migrated THEN None ELSE agent[i].llm
      OBVIOUS
    <3>1. agent[i] \in AgentRows /\ i \in AgentIds
      BY <1>t DEF Born
    <3>2. agent'[i] = IF agent[i].llm = d /\ ~migrated THEN [agent[i] EXCEPT !.llm = None] ELSE agent[i]
      BY <2>1, <3>1, <1>t
    <3> QED
      BY <3>1, <3>2 DEF AgentRows
  <2>6. \A i \in AgentIds : i \notin Born => agent'[i] = None
    BY <2>1 DEF Born
  <2>7. Born' = Born
    <3>1. \A i \in Born : agent'[i] # None
      BY <1>t, <2>5
    <3> QED
      BY <2>6, <3>1 DEF Born
  <2>8. \A i \in Born : migrated \/ agent'[i].llm \in llms' \cup {None}
    BY <2>2, <2>5 DEF AgentSetsInv, TablesOK
  <2>9. dflt' \in llms' \cup {None}
    BY <1>t, <2>1, <2>2
  <2>10. AgentSetsTypeOK'
    <3>1. \A i \in rows : agent'[i].set \in sets /\ \A e \in agent'[i].servers : name[e] # None
      BY <1>t, <2>5 DEF AgentSetsInv, AgentSetsTypeOK
    <3> QED
      BY <1>t, <1>c, <1>r, <2>3, <2>7, <2>8, <2>9, <3>1 DEF AgentSetsInv, AgentSetsTypeOK
  <2>11. TablesOK'
    <3>1. agent' \in [AgentIds -> AgentRows \cup {None}]
      <4>1. \A i \in AgentIds : agent'[i] \in AgentRows \cup {None}
        BY <2>5, <2>6
      <4> QED
        BY <2>1, <4>1
    <3>2. \A i \in Born : \A e \in agent'[i].skills \cup agent'[i].servers : name[e] # None
      BY <2>5 DEF AgentSetsInv, TablesOK
    <3> QED
      BY <1>c, <2>7, <2>8, <3>1, <3>2 DEF AgentSetsInv, TablesOK, UniqueIn
  <2>12. ParentsInSet'
    <3> SUFFICES ASSUME NEW i \in rows, agent[i].parent # None
                 PROVE  /\ agent[i].parent \in rows /\ agent[i].parent < i
                        /\ agent'[agent[i].parent].set = agent'[i].set
      BY <1>t, <1>c, <2>5 DEF ParentsInSet
    <3>1. /\ agent[i].parent \in rows /\ agent[i].parent < i
          /\ agent[agent[i].parent].set = agent[i].set
      BY DEF AgentSetsInv, ParentsInSet
    <3> QED
      BY <3>1, <1>t, <2>5
  <2>13. /\ DOMAIN load' = Loads
         /\ \A q \in Loads :
              /\ load'[q] \in LoadTypes /\ SameReads(load[q], load'[q])
              /\ load'[q].steady =>
                   load[q].steady /\ (load[q].row.llm \in llms \ {d} \/ dflt' # None)
    BY <2>1, WatchLoads
  <2>14. AdminKeeps
    <3>1. \A i \in Born : agent[i].servers \ deleted' \subseteq agent'[i].servers
      BY <2>5
    <3>2. \A i \in Born : /\ i \in Born' /\ agent'[i].skills = agent[i].skills
                          /\ agent'[i].servers \subseteq agent[i].servers
      BY <2>5, <2>7
    <3>3. \A q \in Loads : load'[q].steady =>
            load[q].steady /\ (dflt # None => dflt' # None \/ load[q].row.llm \in llms')
      BY <2>2, <2>13
    <3>4. /\ rows' \cap Born \subseteq rows /\ deleted \subseteq deleted' /\ name' = name
      BY <1>c
    <3> QED
      BY <2>2, <2>13, <3>1, <3>2, <3>3, <3>4 DEF AdminKeeps
  <2>15. SavedOK'
    BY <1>t, <1>c, <2>5, SavedKept
  <2> QED
    BY <2>10, <2>11, <2>12, <2>14, <2>15, LoadKept DEF AgentSetsInv
<1> QED
  BY <1>1, <1>2

\* The default connection.
LEMMA DefaultKeeps ==
  ASSUME AgentSetsInv, Request, dflt' \in llms \cup {None},
         Watch(llms, dflt'), UNCHANGED <<tables, draft>>
  PROVE  AgentSetsInv'
<1>1. UNCHANGED <<agent, rows, sets, projects, attached, name, deleted, llm, migrated, saved>>
      /\ draft' = None
  BY DEF tables, Request
<1>2. changes' \in 0..MaxChanges
  BY AgentSetsAssumption DEF Request, AgentSetsInv, AgentSetsTypeOK
<1>3. llms' = llms /\ Born' = Born
  BY <1>1 DEF llms, Born
<1>4. AgentSetsTypeOK' /\ TablesOK' /\ ParentsInSet'
  BY <1>1, <1>2, <1>3 DEF AgentSetsInv, AgentSetsTypeOK, TablesOK, UniqueIn, ParentsInSet
<1>5. /\ DOMAIN load' = Loads
      /\ \A q \in Loads :
           /\ load'[q] \in LoadTypes /\ SameReads(load[q], load'[q])
           /\ load'[q].steady => load[q].steady /\ (load[q].row.llm \in llms \/ dflt' # None)
  BY WatchLoads
<1>6. AdminKeeps
  BY <1>1, <1>3, <1>5 DEF AdminKeeps
<1>7. SavedOK'
  BY <1>1, SavedKept
<1> QED
  BY <1>4, <1>6, <1>7, LoadKept DEF AgentSetsInv

LEMMA AdministerKeeps ==
  ASSUME AgentSetsInv, Administer PROVE AgentSetsInv'
<1>1. ASSUME NEW s \in Sets, NEW spec \in Specs, CreateSet(s, spec) \/ UpdateSet(s, spec)
      PROVE  AgentSetsInv'
  BY <1>1, BeginKeeps
<1>2. ASSUME NEW s \in Sets, DeleteSet(s) PROVE AgentSetsInv'
  BY <1>2, DeleteSetKeeps
<1>3. ASSUME NEW s \in Sets, NEW p \in Projects, AttachSet(p, s) PROVE AgentSetsInv'
  BY <1>3, ProjectStepKeeps
<1>4. ASSUME NEW p \in Projects, CreateProject(p) \/ DeleteProject(p) PROVE AgentSetsInv'
  BY <1>4, ProjectStepKeeps
<1>5. ASSUME NEW n \in Names, NEW e \in Skills, NameEntry(Skills, e, n) PROVE AgentSetsInv'
  BY <1>5, NameEntryKeeps
<1>6. ASSUME NEW n \in Names, NEW e \in Servers, NameEntry(Servers, e, n) PROVE AgentSetsInv'
  BY <1>6, NameEntryKeeps
<1>7. ASSUME NEW e \in Skills, DeleteSkill(e) PROVE AgentSetsInv'
  BY <1>7, DeleteSkillKeeps
<1>8. ASSUME NEW e \in Servers, DeleteServer(e) PROVE AgentSetsInv'
  BY <1>8, DeleteServerKeeps
<1>9. ASSUME NEW d \in Llms, CreateLlm(d) \/ DeleteLlm(d) PROVE AgentSetsInv'
  BY <1>9, LlmKeeps
<1>10. ASSUME NEW d \in Llms, SetDefaultLlm(d) PROVE AgentSetsInv'
  <2>1. /\ Request /\ Watch(llms, dflt') /\ UNCHANGED <<tables, draft>>
        /\ dflt' \in llms \cup {None}
    BY <1>10 DEF SetDefaultLlm
  <2> QED
    BY <2>1, DefaultKeeps
<1>11. ASSUME ClearDefaultLlm PROVE AgentSetsInv'
  <2>1. /\ Request /\ Watch(llms, dflt') /\ UNCHANGED <<tables, draft>>
        /\ dflt' \in llms \cup {None}
    BY <1>11 DEF ClearDefaultLlm
  <2> QED
    BY <2>1, DefaultKeeps
<1> QED
  BY <1>1, <1>2, <1>3, <1>4, <1>5, <1>6, <1>7, <1>8, <1>9, <1>10, <1>11, InsertAgentKeeps,
     CommitSetKeeps, Zenon DEF Administer

\* The steps of a run.
LEMMA ReadAttachedKeeps ==
  ASSUME AgentSetsInv, NEW q \in Loads, NEW p \in Projects, ReadAttached(q, p) PROVE AgentSetsInv'
<1> DEFINE l == load[q]
<1> DEFINE now == [l EXCEPT !.at = "rows", !.set = attached[p]]
<1>1. l.at = "idle" /\ AdvanceLoad(q, now)
  BY DEF ReadAttached
<1>2. l \in LoadTypes /\ GivenOK(l) /\ NamesOK(l) /\ ConfigOK(l)
  BY DEF AgentSetsInv, LoadsOK, LoadOK
<1>3. attached[p] \in Sets \cup {None}
  BY DEF AgentSetsInv, TablesOK
<1> HIDE DEF l
<1>4. /\ now \in LoadTypes
      /\ now.at = "rows" /\ now.id = l.id /\ now.row = l.row /\ now.skills = l.skills
      /\ now.servers = l.servers /\ now.left = l.left /\ now.asked = l.asked
      /\ now.prompt = l.prompt /\ now.tools = l.tools /\ now.stale = l.stale
      /\ now.config = l.config /\ now.steady = l.steady /\ now.late = l.late
  BY <1>2, <1>3 DEF LoadTypes
<1> HIDE DEF now
<1>5. GivenOK(now)
  BY <1>1, <1>2, <1>4 DEF GivenOK, Early
<1>6. NamesOK(now)
  BY <1>1, <1>2, <1>4 DEF NamesOK
<1>7. ConfigOK(now)
  BY <1>1, <1>2, <1>4 DEF ConfigOK
<1> QED
  BY <1>1, <1>4, <1>5, <1>6, <1>7, RunKept DEF LoadOK

LEMMA ReadRowsKeeps ==
  ASSUME AgentSetsInv, NEW q \in Loads, ReadRows(q) PROVE AgentSetsInv'
<1> DEFINE l == load[q]
<1> DEFINE here == {i \in Members(l.set) : agent[i].listens}
<1> DEFINE none == [l EXCEPT !.at = "none"]
<1> DEFINE now(i) == [l EXCEPT !.at = "skills", !.id = i, !.stale = {}, !.late = {},
                                !.row = [llm |-> agent[i].llm, skills |-> agent[i].skills,
                                         servers |-> agent[i].servers]]
<1>1. l.at = "rows" /\ (AdvanceLoad(q, none) \/ \E i \in here : AdvanceLoad(q, now(i)))
  BY DEF ReadRows
<1>2. l \in LoadTypes /\ GivenOK(l) /\ NamesOK(l) /\ ConfigOK(l)
  BY DEF AgentSetsInv, LoadsOK, LoadOK
<1>3. CASE AdvanceLoad(q, none)
  <2> HIDE DEF l
  <2>1. /\ none \in LoadTypes
        /\ none.at = "none" /\ none.id = l.id /\ none.row = l.row /\ none.skills = l.skills
        /\ none.servers = l.servers /\ none.left = l.left /\ none.asked = l.asked
        /\ none.prompt = l.prompt /\ none.tools = l.tools /\ none.stale = l.stale
        /\ none.config = l.config /\ none.steady = l.steady /\ none.late = l.late
    BY <1>2 DEF LoadTypes
  <2> HIDE DEF none
  <2>2. GivenOK(none)
    BY <1>1, <1>2, <2>1 DEF GivenOK, Early
  <2>e. /\ l.skills = {} /\ l.servers = {} /\ l.left = {} /\ l.asked = {}
        /\ l.prompt = {} /\ l.tools = {}
    BY <1>1, <1>2 DEF GivenOK, Early
  <2>3. NamesOK(none)
    BY <2>1, <2>e DEF NamesOK
  <2>4. ConfigOK(none)
    BY <1>1, <1>2, <2>1 DEF ConfigOK
  <2> QED
    BY <1>3, <2>1, <2>2, <2>3, <2>4, RunKept DEF LoadOK
<1>4. ASSUME NEW i \in here, AdvanceLoad(q, now(i)) PROVE AgentSetsInv'
  <2> DEFINE new == now(i)
  <2>1. i \in rows /\ i \in Born /\ i \in AgentIds
    BY DEF Members, AgentSetsInv, AgentSetsTypeOK, Born
  <2>2. agent[i] \in AgentRows
    BY <2>1 DEF AgentSetsInv, TablesOK, Born
  <2>3. /\ agent[i].llm \in Llms \cup {None}
        /\ agent[i].skills \subseteq Skills /\ agent[i].servers \subseteq Servers
    BY <2>1, <2>2 DEF AgentSetsInv, AgentSetsTypeOK, AgentRows
  <2> DEFINE r == [llm |-> agent[i].llm, skills |-> agent[i].skills, servers |-> agent[i].servers]
  <2>4. r \in [llm : Llms \cup {None}, skills : SUBSET Skills, servers : SUBSET Servers]
    BY <2>3
  <2>5. r.llm = agent[i].llm /\ r.skills = agent[i].skills /\ r.servers = agent[i].servers
    OBVIOUS
  <2>6. new = [l EXCEPT !.at = "skills", !.id = i, !.stale = {}, !.late = {}, !.row = r]
    OBVIOUS
  <2> HIDE DEF l, r, now, new
  <2>7. /\ new \in LoadTypes
        /\ new.at = "skills" /\ new.id = i /\ new.row = r /\ new.skills = l.skills
        /\ new.servers = l.servers /\ new.left = l.left /\ new.asked = l.asked
        /\ new.prompt = l.prompt /\ new.tools = l.tools /\ new.stale = {}
    BY <1>2, <2>1, <2>4, <2>6 DEF LoadTypes
  <2>8. /\ l.skills = {} /\ l.servers = {} /\ l.left = {} /\ l.asked = {}
        /\ l.prompt = {} /\ l.tools = {}
    BY <1>1, <1>2 DEF GivenOK, Early
  <2>9. GivenOK(new)
    BY <2>1, <2>5, <2>7, <2>8 DEF GivenOK, Early
  <2>10. NamesOK(new)
    BY <2>7, <2>8 DEF NamesOK
  <2>11. ConfigOK(new)
    BY <2>7 DEF ConfigOK
  <2>12. AdvanceLoad(q, new)
    BY <1>4 DEF new
  <2> QED
    BY <2>7, <2>9, <2>10, <2>11, <2>12, RunKept DEF LoadOK
<1> HIDE DEF l, here, none, now
<1> QED
  BY <1>1, <1>3, <1>4

LEMMA ReadSkillsKeeps ==
  ASSUME AgentSetsInv, NEW q \in Loads, ReadSkills(q) PROVE AgentSetsInv'
<1> DEFINE l == load[q]
<1> DEFINE mine == IF l.id \in rows THEN agent[l.id].skills ELSE {}
<1> DEFINE left == {name[e] : e \in mine}
<1> DEFINE new == [l EXCEPT !.at = "servers", !.skills = mine, !.left = left]
<1>1. l.at = "skills" /\ AdvanceLoad(q, new)
  BY DEF ReadSkills
<1>2. l \in LoadTypes /\ GivenOK(l) /\ NamesOK(l) /\ ConfigOK(l)
  BY DEF AgentSetsInv, LoadsOK, LoadOK
<1>3. /\ name \in [Skills \cup Servers -> Names \cup {None}]
      /\ rows \subseteq Born
      /\ \A i \in Born : agent[i] \in AgentRows /\ \A e \in agent[i].skills : name[e] # None
  BY DEF AgentSetsInv, AgentSetsTypeOK, TablesOK, Born
<1> HIDE DEF l
<1>4. /\ l.id \in Born /\ agent[l.id].skills = l.row.skills
      /\ agent[l.id].servers \subseteq l.row.servers
      /\ l.row.servers \ deleted \subseteq agent[l.id].servers
      /\ l.skills = {} /\ l.left = {} /\ l.servers = {} /\ l.asked = {}
  BY <1>1, <1>2 DEF GivenOK, Early
<1>5. /\ mine \subseteq Skills /\ mine \subseteq l.row.skills /\ \A e \in mine : name[e] # None
      /\ l.id \in rows => mine = l.row.skills
  BY <1>3, <1>4 DEF AgentRows
<1>6. left \subseteq Names /\ \A e \in mine : name[e] \in left /\ \A n \in left : \E f \in mine : name[f] = n
  BY <1>3, <1>5
<1> HIDE DEF mine, left
<1>7. /\ new \in LoadTypes
      /\ new.at = "servers" /\ new.id = l.id /\ new.row = l.row /\ new.skills = mine
      /\ new.servers = l.servers /\ new.left = left /\ new.asked = l.asked
      /\ new.prompt = l.prompt /\ new.tools = l.tools /\ new.stale = l.stale
  BY <1>2, <1>5, <1>6 DEF LoadTypes
<1>8. \A n \in left : \E e \in mine : name[e] = n
  BY DEF left
<1> HIDE DEF new
<1>9. GivenOK(new)
  BY <1>1, <1>2, <1>4, <1>5, <1>7 DEF GivenOK, Early
<1>10. NamesOK(new)
  BY <1>1, <1>2, <1>4, <1>5, <1>6, <1>7, <1>8 DEF NamesOK
<1>11. ConfigOK(new)
  BY <1>1, <1>2, <1>7 DEF ConfigOK
<1> QED
  BY <1>1, <1>7, <1>9, <1>10, <1>11, RunKept DEF LoadOK

LEMMA ReadServersKeeps ==
  ASSUME AgentSetsInv, NEW q \in Loads, ReadServers(q) PROVE AgentSetsInv'
<1> DEFINE l == load[q]
<1> DEFINE mine == IF l.id \in rows THEN agent[l.id].servers ELSE {}
<1> DEFINE asked == {name[e] : e \in mine}
<1> DEFINE new == [l EXCEPT !.at = "prompt", !.servers = mine, !.asked = asked]
<1>1. l.at = "servers" /\ AdvanceLoad(q, new)
  BY DEF ReadServers
<1>2. l \in LoadTypes /\ GivenOK(l) /\ NamesOK(l) /\ ConfigOK(l)
  BY DEF AgentSetsInv, LoadsOK, LoadOK
<1>3. /\ name \in [Skills \cup Servers -> Names \cup {None}]
      /\ rows \subseteq Born
      /\ \A i \in Born : agent[i] \in AgentRows /\ \A e \in agent[i].servers : name[e] # None
  BY DEF AgentSetsInv, AgentSetsTypeOK, TablesOK, Born
<1> HIDE DEF l
<1>4. /\ l.id \in Born /\ agent[l.id].skills = l.row.skills
      /\ agent[l.id].servers \subseteq l.row.servers
      /\ l.row.servers \ deleted \subseteq agent[l.id].servers
      /\ l.servers = {} /\ l.asked = {}
      /\ l.skills \subseteq l.row.skills
      /\ l.id \in rows => l.skills = l.row.skills
  BY <1>1, <1>2 DEF GivenOK, Early
<1>5. /\ mine \subseteq Servers /\ mine \subseteq l.row.servers /\ \A e \in mine : name[e] # None
      /\ l.id \in rows => l.row.servers \ deleted \subseteq mine
  BY <1>3, <1>4 DEF AgentRows
<1>6. /\ asked \subseteq Names /\ \A e \in mine : name[e] \in asked
      /\ \A n \in asked : \E e \in mine : name[e] = n
  BY <1>3, <1>5
<1> HIDE DEF mine, asked
<1>7. /\ new \in LoadTypes
      /\ new.at = "prompt" /\ new.id = l.id /\ new.row = l.row /\ new.skills = l.skills
      /\ new.servers = mine /\ new.left = l.left /\ new.asked = asked
      /\ new.prompt = l.prompt /\ new.tools = l.tools /\ new.stale = l.stale
  BY <1>2, <1>5, <1>6 DEF LoadTypes
<1> HIDE DEF new
<1>8. GivenOK(new)
  BY <1>4, <1>5, <1>7 DEF GivenOK, Early
<1>9. NamesOK(new)
  BY <1>1, <1>2, <1>4, <1>5, <1>6, <1>7 DEF NamesOK
<1>10. ConfigOK(new)
  BY <1>1, <1>2, <1>7 DEF ConfigOK
<1> QED
  BY <1>1, <1>7, <1>8, <1>9, <1>10, RunKept DEF LoadOK

\* Names of skills are unique, so the entry behind a name that was never taken away is
\* the one that was given.
LEMMA ResolveSkillKeeps ==
  ASSUME AgentSetsInv, NEW q \in Loads, ResolveSkill(q) PROVE AgentSetsInv'
<1> DEFINE l == load[q]
<1> DEFINE hits(n) == {e \in Skills \ deleted : name[e] = n}
<1> DEFINE now(n, found) == [l EXCEPT !.left = @ \ {n}, !.prompt = @ \cup found]
<1>1. /\ l.at = "prompt"
      /\ \E n \in l.left : \E found \in IF hits(n) = {} THEN {{}} ELSE {{<<n, e>>} : e \in hits(n)} :
           AdvanceLoad(q, now(n, found))
  BY DEF ResolveSkill
<1>2. l \in LoadTypes /\ GivenOK(l) /\ NamesOK(l) /\ ConfigOK(l)
  BY DEF AgentSetsInv, LoadsOK, LoadOK
<1>3. PICK n \in l.left : \E found \in IF hits(n) = {} THEN {{}} ELSE {{<<n, e>>} : e \in hits(n)} :
        AdvanceLoad(q, now(n, found))
  BY <1>1
<1>4. PICK found \in IF hits(n) = {} THEN {{}} ELSE {{<<n, e>>} : e \in hits(n)} :
        AdvanceLoad(q, now(n, found))
  BY <1>3
<1> DEFINE new == now(n, found)
<1>5. /\ n \in Names /\ l.left \subseteq Names /\ l.prompt \subseteq Names \X Skills
      /\ l.skills \subseteq Skills /\ l.stale \subseteq Names
  BY <1>2 DEF LoadTypes
<1>6. \A x \in found : \E e \in hits(n) : x = <<n, e>>
  OBVIOUS
<1>7. hits(n) # {} => \E e \in hits(n) : <<n, e>> \in found
  <2> SUFFICES ASSUME hits(n) # {} PROVE \E e \in hits(n) : <<n, e>> \in found
    OBVIOUS
  <2>1. found \in {{<<n, e>>} : e \in hits(n)}
    OBVIOUS
  <2> HIDE DEF hits
  <2> QED
    BY <2>1
<1>8. \A e \in Skills, f \in Skills : name[e] = name[f] /\ name[e] # None => e = f
  BY DEF AgentSetsInv, TablesOK, UniqueIn
<1>9. n # None
  BY <1>5, AgentSetsAssumption
<1>10. AdvanceLoad(q, new)
  BY <1>4
<1>11. \A x \in found : x[1] = n /\ x[2] \in Skills /\ name[x[2]] = n /\ x \in Names \X Skills
  BY <1>5, <1>6
<1>12. \A e \in Skills \ deleted : name[e] = n => <<n, e>> \in found
  <2> SUFFICES ASSUME NEW e \in Skills \ deleted, name[e] = n PROVE <<n, e>> \in found
    OBVIOUS
  <2>1. e \in hits(n)
    OBVIOUS
  <2>2. PICK f \in hits(n) : <<n, f>> \in found
    BY <2>1, <1>7
  <2>3. e = f
    BY <2>2, <1>8, <1>9
  <2> QED
    BY <2>2, <2>3
<1> HIDE DEF l, hits
<1>13. l.left \ {n} \in SUBSET Names /\ l.prompt \cup found \in SUBSET (Names \X Skills)
  BY <1>5, <1>11
<1>14. /\ new \in LoadTypes
       /\ new.at = l.at /\ new.id = l.id /\ new.row = l.row /\ new.skills = l.skills
       /\ new.servers = l.servers /\ new.left = l.left \ {n} /\ new.asked = l.asked
       /\ new.prompt = l.prompt \cup found /\ new.tools = l.tools /\ new.stale = l.stale
       /\ new.config = l.config /\ new.steady = l.steady /\ new.late = l.late
  BY <1>2, <1>13, ZenonT(40) DEF LoadTypes
<1> HIDE DEF now, new
<1>15. GivenOK(new)
  BY <1>1, <1>2, <1>14 DEF GivenOK, Early
<1>16. NamesOK(new)
  <2>1. \A x \in found : x[2] \in l.skills \/ x[1] \in l.stale
    <3> SUFFICES ASSUME NEW x \in found, x[1] \notin l.stale PROVE x[2] \in l.skills
      OBVIOUS
    <3>1. n \in l.left \ l.stale
      BY <1>11
    <3>2. PICK f \in l.skills : name[f] = n
      BY <3>1, <1>2 DEF NamesOK
    <3>3. x[2] = f
      BY <3>2, <1>5, <1>8, <1>9, <1>11
    <3> QED
      BY <3>3
  <2>2. l.stale = {} => \A e \in l.skills \ deleted :
          name[e] \in l.left \ {n} \/ \E x \in l.prompt \cup found : x[2] = e
    <3> SUFFICES ASSUME l.stale = {}, NEW e \in l.skills \ deleted, name[e] \notin l.left \ {n}
                 PROVE  \E x \in l.prompt \cup found : x[2] = e
      OBVIOUS
    <3>1. CASE name[e] = n
      <4>1. <<n, e>> \in found
        BY <3>1, <1>5, <1>12
      <4> QED
        BY <4>1
    <3>2. CASE name[e] # n
      BY <3>2, <1>2 DEF NamesOK
    <3> QED
      BY <3>1, <3>2
  <2>3. \A m \in (l.left \ {n}) \ l.stale : \E e \in l.skills : name[e] = m
    BY <1>2 DEF NamesOK
  <2>4. \A x \in l.prompt \cup found : x[2] \in l.skills \/ x[1] \in l.stale
    BY <2>1, <1>2 DEF NamesOK
  <2> QED
    BY <1>1, <1>2, <1>14, <2>2, <2>3, <2>4 DEF NamesOK
<1>17. ConfigOK(new)
  BY <1>1, <1>2, <1>14 DEF ConfigOK
<1> QED
  BY <1>10, <1>14, <1>15, <1>16, <1>17, RunKept DEF LoadOK

LEMMA ReadOwnLlmKeeps ==
  ASSUME AgentSetsInv, NEW q \in Loads, ReadOwnLlm(q) PROVE AgentSetsInv'
<1> DEFINE l == load[q]
<1> DEFINE own == l.row.llm
<1> DEFINE config == IF own \in llms THEN own ELSE None
<1> DEFINE steady == own \in llms \/ dflt # None
<1> DEFINE new == [l EXCEPT !.at = "default", !.config = config, !.steady = steady]
<1>1. l.at = "prompt" /\ l.left = {} /\ AdvanceLoad(q, new)
  BY DEF ReadOwnLlm
<1>2. l \in LoadTypes /\ GivenOK(l) /\ NamesOK(l) /\ ConfigOK(l)
  BY DEF AgentSetsInv, LoadsOK, LoadOK
<1> HIDE DEF l
<1>3. own \in Llms \cup {None} /\ None \notin Llms
  BY <1>2, AgentSetsAssumption DEF LoadTypes
<1>4. config \in Llms \cup {None} /\ steady \in BOOLEAN
  BY <1>3
<1>5. /\ config = None => own \notin llms /\ (steady => dflt # None)
      /\ config # None => config = own
  BY <1>3 DEF llms
<1> HIDE DEF config, steady
<1>6. /\ new \in LoadTypes
      /\ new.at = "default" /\ new.id = l.id /\ new.row = l.row /\ new.skills = l.skills
      /\ new.servers = l.servers /\ new.left = l.left /\ new.asked = l.asked
      /\ new.prompt = l.prompt /\ new.tools = l.tools /\ new.stale = l.stale
      /\ new.config = config /\ new.steady = steady /\ new.late = l.late
  BY <1>2, <1>4, ZenonT(40) DEF LoadTypes
<1> HIDE DEF new
<1>7. GivenOK(new)
  BY <1>1, <1>2, <1>6 DEF GivenOK, Early
<1>8. NamesOK(new)
  BY <1>1, <1>2, <1>6 DEF NamesOK
<1>9. ConfigOK(new)
  BY <1>2, <1>5, <1>6 DEF ConfigOK
<1> QED
  BY <1>1, <1>6, <1>7, <1>8, <1>9, RunKept DEF LoadOK

LEMMA ReadDefaultLlmKeeps ==
  ASSUME AgentSetsInv, NEW q \in Loads, ReadDefaultLlm(q) PROVE AgentSetsInv'
<1> DEFINE l == load[q]
<1> DEFINE config == IF l.config = None THEN dflt ELSE l.config
<1> DEFINE new == [l EXCEPT !.at = "tools", !.config = config]
<1>1. l.at = "default" /\ AdvanceLoad(q, new)
  BY DEF ReadDefaultLlm
<1>2. l \in LoadTypes /\ GivenOK(l) /\ NamesOK(l) /\ ConfigOK(l)
  BY DEF AgentSetsInv, LoadsOK, LoadOK
<1> HIDE DEF l
<1>3. dflt \in Llms \cup {None} /\ l.config \in Llms \cup {None}
  BY <1>2 DEF LoadTypes, AgentSetsInv, AgentSetsTypeOK, llms
<1>4. config \in Llms \cup {None}
  BY <1>3
<1>5. l.row.llm \notin l.late =>
        /\ config = None => ~l.steady
        /\ l.row.llm \in llms => config = l.row.llm
  BY <1>1, <1>2 DEF ConfigOK
<1> HIDE DEF config
<1>6. /\ new \in LoadTypes
      /\ new.at = "tools" /\ new.id = l.id /\ new.row = l.row /\ new.skills = l.skills
      /\ new.servers = l.servers /\ new.left = l.left /\ new.asked = l.asked
      /\ new.prompt = l.prompt /\ new.tools = l.tools /\ new.stale = l.stale
      /\ new.config = config /\ new.steady = l.steady /\ new.late = l.late
  BY <1>2, <1>4, ZenonT(40) DEF LoadTypes
<1> HIDE DEF new
<1>7. GivenOK(new)
  BY <1>1, <1>2, <1>6 DEF GivenOK, Early
<1>8. NamesOK(new)
  BY <1>1, <1>2, <1>6 DEF NamesOK
<1>9. ConfigOK(new)
  BY <1>2, <1>5, <1>6 DEF ConfigOK
<1> QED
  BY <1>1, <1>6, <1>7, <1>8, <1>9, RunKept DEF LoadOK

\* Names of servers are unique, too.
LEMMA ReadToolsKeeps ==
  ASSUME AgentSetsInv, NEW q \in Loads, ReadTools(q) PROVE AgentSetsInv'
<1> DEFINE l == load[q]
<1> DEFINE tools == UNION {{<<n, e>> : e \in {s \in Servers : name[s] = n}} : n \in l.asked}
<1> DEFINE new == [l EXCEPT !.at = "done", !.tools = tools]
<1>1. l.at = "tools" /\ AdvanceLoad(q, new)
  BY DEF ReadTools
<1>2. l \in LoadTypes /\ GivenOK(l) /\ NamesOK(l) /\ ConfigOK(l)
  BY DEF AgentSetsInv, LoadsOK, LoadOK
<1>3. /\ l.asked \subseteq Names /\ l.servers \subseteq Servers /\ None \notin Names
  BY <1>2, AgentSetsAssumption DEF LoadTypes
<1>4. \A e \in Servers, f \in Servers : name[e] = name[f] /\ name[e] # None => e = f
  BY DEF AgentSetsInv, TablesOK, UniqueIn
<1> HIDE DEF l
<1>5. \A x \in tools : /\ x[1] \in l.asked /\ x[2] \in Servers /\ name[x[2]] = x[1]
                       /\ x \in Names \X Servers
  BY <1>3
<1>6. \A e \in Servers : name[e] \in l.asked => <<name[e], e>> \in tools
  OBVIOUS
<1> HIDE DEF tools
<1>7. tools \in SUBSET (Names \X Servers)
  BY <1>5
<1>8. /\ new \in LoadTypes
      /\ new.at = "done" /\ new.id = l.id /\ new.row = l.row /\ new.skills = l.skills
      /\ new.servers = l.servers /\ new.left = l.left /\ new.asked = l.asked
      /\ new.prompt = l.prompt /\ new.tools = tools /\ new.stale = l.stale
      /\ new.config = l.config /\ new.steady = l.steady /\ new.late = l.late
  BY <1>2, <1>7 DEF LoadTypes
<1> HIDE DEF new
<1>9. GivenOK(new)
  BY <1>1, <1>2, <1>8 DEF GivenOK, Early
<1>10. NamesOK(new)
  <2>1. \A x \in tools : x[2] \in l.servers \/ x[1] \in l.stale
    <3> SUFFICES ASSUME NEW x \in tools, x[1] \notin l.stale PROVE x[2] \in l.servers
      OBVIOUS
    <3>1. PICK f \in l.servers : name[f] = x[1]
      BY <1>2, <1>5 DEF NamesOK
    <3>2. x[1] # None /\ x[2] \in Servers /\ name[x[2]] = x[1]
      BY <1>3, <1>5
    <3> QED
      BY <3>1, <3>2, <1>3, <1>4
  <2>2. l.stale = {} => \A e \in l.servers \ deleted : \E x \in tools : x[2] = e
    <3> SUFFICES ASSUME l.stale = {}, NEW e \in l.servers \ deleted PROVE \E x \in tools : x[2] = e
      OBVIOUS
    <3>1. name[e] \in l.asked
      BY <1>1, <1>2 DEF NamesOK
    <3>2. <<name[e], e>> \in tools
      BY <3>1, <1>3, <1>6
    <3> QED
      BY <3>2
  <2> QED
    BY <1>1, <1>2, <1>8, <2>1, <2>2 DEF NamesOK
<1>11. ConfigOK(new)
  BY <1>1, <1>2, <1>8 DEF ConfigOK
<1> QED
  BY <1>1, <1>8, <1>9, <1>10, <1>11, RunKept DEF LoadOK

LEMMA SetsInitially ==
  ASSUME InitAgentSets PROVE AgentSetsInv
<1>n. None \notin Llms \cup Names /\ MaxChanges \in Nat /\ MaxAgents \in Nat
  BY AgentSetsAssumption
<1>1. Born = {}
  BY DEF InitAgentSets, Born
<1>2. AgentSetsTypeOK
  <2>1. llm \in [Llms -> {"new", "there", "gone"}]
    BY DEF InitAgentSets
  <2>2. 0 \in 0..MaxChanges
    BY <1>n
  <2> QED
    BY <2>1, <2>2 DEF InitAgentSets, AgentSetsTypeOK
<1>3. TablesOK
  <2>1. Born = 1..0 /\ 0 \in 0..MaxAgents
    BY <1>1, <1>n
  <2> QED
    BY <1>1, <2>1 DEF InitAgentSets, TablesOK
<1>4. ParentsInSet
  BY DEF InitAgentSets, ParentsInSet
<1>6. SavedOK
  BY DEF InitAgentSets, SavedOK, SetsAreWhole, DraftOK
<1>5. LoadsOK
  <2>1. Fresh \in LoadTypes
    BY DEF Fresh, NoRow, LoadTypes
  <2>2. GivenOK(Fresh)
    BY DEF Fresh, NoRow, GivenOK, Early
  <2>3. NamesOK(Fresh)
    BY DEF Fresh, NamesOK
  <2>4. ConfigOK(Fresh)
    BY DEF Fresh, NoRow, ConfigOK
  <2>5. DOMAIN load = Loads /\ \A q \in Loads : load[q] = Fresh
    BY DEF InitAgentSets
  <2> QED
    BY <2>1, <2>2, <2>3, <2>4, <2>5 DEF LoadsOK, LoadOK
<1> QED
  BY <1>2, <1>3, <1>4, <1>5, <1>6 DEF AgentSetsInv

LEMMA SetsStep ==
  ASSUME AgentSetsInv, [NextAgentSets]_agentSetsVars PROVE AgentSetsInv'
<1>1. CASE Administer
  BY <1>1, AdministerKeeps
<1>2. ASSUME NEW q \in Loads, Run(q) PROVE AgentSetsInv'
  BY <1>2, ReadAttachedKeeps, ReadRowsKeeps, ReadSkillsKeeps, ReadServersKeeps, ResolveSkillKeeps,
     ReadOwnLlmKeeps, ReadDefaultLlmKeeps, ReadToolsKeeps DEF Run
<1>3. CASE UNCHANGED agentSetsVars
  <2>1. UNCHANGED <<agent, rows, sets, projects, attached, name, deleted, llm, dflt, migrated, draft,
                    saved, changes, load>>
    BY <1>3 DEF agentSetsVars
  <2>2. LoadsOK'
    BY <2>1, SameLoads, LoadKept
  <2>3. llms' = llms /\ Born' = Born
    BY <2>1 DEF llms, Born
  <2> QED
    BY <2>1, <2>2, <2>3 DEF AgentSetsInv, AgentSetsTypeOK, TablesOK, UniqueIn, ParentsInSet, SavedOK,
       SetsAreWhole, DraftOK, Members
<1> QED
  BY <1>1, <1>2, <1>3 DEF NextAgentSets

\* The tables agree with each other, and every run knows of the agent it was loaded for
\* what its next step needs (the strengthening of RunGetsItsOwn that is inductive).
THEOREM AgentSetsInvariant == SpecAgentSets => []AgentSetsInv
<1> QED
  BY SetsInitially, SetsStep, PTL DEF SpecAgentSets

LEMMA SetsInvImplies ==
  ASSUME AgentSetsInv PROVE RunGetsItsOwn
<1>1. \A q \in Loads : LoadOK(load[q])
  BY DEF AgentSetsInv, LoadsOK
<1>2. GivenAreItsOwn
  <2> SUFFICES ASSUME NEW q \in Loads
               PROVE  LET l == load[q] IN
                      /\ l.skills \subseteq l.row.skills /\ l.servers \subseteq l.row.servers
                      /\ l.id \in rows /\ l.at \notin {"skills", "servers"} =>
                           l.skills = l.row.skills /\ l.row.servers \ deleted \subseteq l.servers
    BY DEF GivenAreItsOwn
  <2> DEFINE l == load[q]
  <2>1. GivenOK(l)
    BY <1>1 DEF LoadOK
  <2>2. CASE l.at \in Early
    <3>1. l.row = NoRow /\ l.skills = {} /\ l.servers = {}
      BY <2>1, <2>2 DEF GivenOK
    <3>2. NoRow.skills = {} /\ NoRow.servers = {}
      BY DEF NoRow
    <3> HIDE DEF l
    <3> QED
      BY <3>1, <3>2 DEF l
  <2>3. CASE l.at \notin Early
    BY <2>1, <2>3 DEF GivenOK
  <2> QED
    BY <2>2, <2>3
<1>3. NamesMeanWhatWasGiven
  <2> SUFFICES ASSUME NEW q \in Loads
               PROVE  LET l == load[q] IN
                      /\ \A x \in l.prompt : x[2] \in l.skills \/ x[1] \in l.stale
                      /\ \A x \in l.tools : x[2] \in l.servers \/ x[1] \in l.stale
                      /\ l.at = "done" /\ l.stale = {} =>
                           /\ l.skills \ deleted \subseteq {x[2] : x \in l.prompt}
                           /\ l.servers \ deleted \subseteq {x[2] : x \in l.tools}
    BY DEF NamesMeanWhatWasGiven
  <2> DEFINE l == load[q]
  <2>1. NamesOK(l)
    BY <1>1 DEF LoadOK
  <2> HIDE DEF l
  <2>2. l.at = "done" => l.left = {}
    BY <2>1 DEF NamesOK
  <2>3. l.at = "done" /\ l.stale = {} => \A e \in l.skills \ deleted : \E x \in l.prompt : x[2] = e
    BY <2>1, <2>2 DEF NamesOK
  <2>4. l.at = "done" /\ l.stale = {} => \A e \in l.servers \ deleted : \E x \in l.tools : x[2] = e
    BY <2>1 DEF NamesOK
  <2>5. /\ \A x \in l.prompt : x[2] \in l.skills \/ x[1] \in l.stale
        /\ \A x \in l.tools : x[2] \in l.servers \/ x[1] \in l.stale
    BY <2>1 DEF NamesOK
  <2> QED
    BY <2>3, <2>4, <2>5 DEF l
<1>4. ConfigIsBest
  BY <1>1 DEF ConfigIsBest, LoadOK, ConfigOK
<1> QED
  BY <1>2, <1>3, <1>4 DEF RunGetsItsOwn, AgentSetsInv

\* What a run makes of its set is what its agent was given, whatever is saved, renamed and
\* deleted between the statements that load the set and those that resolve its names.
THEOREM RunGetsItsOwnCorrect == SpecAgentSets => []RunGetsItsOwn
<1> QED
  BY AgentSetsInvariant, SetsInvImplies, PTL

\* Every set has the agents of the spec it was last saved with, whichever statement of a
\* later saving was refused, failed or was the last one before a stop.
THEOREM SetsAreWholeCorrect == SpecAgentSets => []SetsAreWhole
<1>1. AgentSetsInv => SetsAreWhole
  BY DEF AgentSetsInv, SavedOK
<1> QED
  BY <1>1, AgentSetsInvariant, PTL

-----------------------------------------------------------------------------
(* Accounts, rights and requests (module Access).                          *)

\* Queries that are made for a user who is known, and those that are past can_write.
Acting == {"super", "open", "member", "adding", "insertp", "rights", "effect", "send", "write"}
Admitted == {"adding", "insertp", "send", "write"}

RequestTypes ==
  [at : {"idle", "insert", "role", "done"} \cup Acting, op : Ops \cup {"run"},
   who : Subjects \cup {Unset}, admin : BOOLEAN, user : Ids \cup {Unset},
   target : Ids \cup {Unset}, invited : Ids \cup {Unset},
   reply : {Unset, "ok", "forbidden", "badRequest", "notFound", "unauthorized"},
   made : BOOLEAN, crossed : BOOLEAN, blind : BOOLEAN, did : SUBSET {"added", "removed", "ended", "said"}]

\* What a query's step leaves of the record of its request.
SameButStage(now, q) ==
  /\ now.op = q.op /\ now.who = q.who /\ now.admin = q.admin /\ now.user = q.user
  /\ now.target = q.target /\ now.invited = q.invited /\ now.reply = q.reply
  /\ now.made = q.made /\ now.blind = q.blind

LEMMA RequestCrossed ==
  ASSUME NEW q \in RequestTypes, NEW c \in BOOLEAN, NEW now, now = [q EXCEPT !.crossed = c]
  PROVE  /\ now \in RequestTypes /\ SameButStage(now, q)
         /\ now.at = q.at /\ now.crossed = c /\ now.did = q.did
BY DEF RequestTypes, SameButStage

LEMMA RequestDid ==
  ASSUME NEW q \in RequestTypes, NEW did \in SUBSET {"added", "removed", "ended", "said"},
         NEW now, now = [q EXCEPT !.did = did]
  PROVE  /\ now \in RequestTypes /\ SameButStage(now, q)
         /\ now.at = q.at /\ now.crossed = q.crossed /\ now.did = did
BY DEF RequestTypes, SameButStage

\* Whose request it is: its account is there, and by its subject it is the first one.
UserOK(q) ==
  /\ q.at = "insert" => q.who \in Subjects /\ q.user = Unset
  /\ q.at = "role" => q.who \in Subjects /\ ~q.made
  /\ q.at \in Acting \cup {"role"} => q.user # Unset
  /\ q.user # Unset => q.user \in Registered
  /\ q.who # Unset /\ q.user # Unset /\ ~q.made => q.user = Account(q.who)
  /\ sso => q.user # Anonymous
  /\ q.at = "insertp" => q.target \in Ids

\* What the request may do, as far as it has been checked.
RightOK(q) ==
  /\ q.op = "run" => q.at \in {"adding", "insertp", "done"}
  /\ q.at \in Acting /\ q.op # "run" /\ ~q.crossed => (q.user \in super <=> q.admin)
  /\ q.at \in {"open", "member"} => ~q.admin \/ q.crossed \/ q.blind
  /\ q.op = "remove" => q.at \notin Admitted \cup {"super", "open", "member"}
  /\ q.op # "run" /\ (q.at \in Admitted \/ (q.at \in {"rights", "effect"} /\ q.op # "remove")) =>
       q.admin \/ q.crossed \/ q.user \in joined
  /\ q.at = "effect" => q.admin \/ q.crossed \/ q.user = owner

\* What it has done, and what it was told.
DoneOK(q) ==
  /\ q.at \in {"insert", "role"} => q.did = {}
  /\ q.did # {} /\ q.op # "run" =>
       \/ q.admin \/ q.crossed
       \/ /\ q.user \in joined
          /\ q.did \cap {"removed", "ended"} # {} => q.user = owner
  /\ q.reply = "forbidden" /\ (q.admin \/ q.op = "remove") =>
       q.crossed \/ q.blind \/ (~q.admin /\ q.user # owner)
  /\ q.invited # Unset => q.at \in {"send", "write", "done"}
  /\ q.at = "send" => q.invited \in joined \cup {Unset} \/ chat = "CLOSED"
  /\ q.at = "write" \/ q.reply = "ok" => q.invited \in joined \cup {Unset}
  /\ q.at # "done" => q.reply = Unset

RequestOK(q) == q \in RequestTypes /\ UserOK(q) /\ RightOK(q) /\ DoneOK(q)

\* Keys: with SSO no server is up without a verifier.
KeysOK ==
  /\ sso \in BOOLEAN /\ current \in 1..faults + 1 /\ faults \in Nat /\ arrivals \in Nat
  /\ server = "starting" => attempts < MaxAttempts
  /\ sso /\ server = "up" => verifier # Unset

\* Accounts are numbered without gaps; a subject that no two requests met without an
\* account has one at most, and a request that will insert it is the only one.
SubjectsOK ==
  /\ Anonymous \in super
  /\ subject[Anonymous] = Unset /\ subject[Agent] = Unset
  /\ \A i, j \in Ids : Agent < i /\ i < j /\ subject[j] # Unset => subject[i] # Unset
  /\ \A i \in super : i = Anonymous \/ subject[i] # Unset
  /\ \A s \in Subjects \ together : \A i, j \in Accounts(s) : i = j
  /\ \A r \in Requests : req[r].at = "insert" /\ req[r].who \notin together =>
       /\ Accounts(req[r].who) = {}
       /\ \A q \in Requests : req[q].at = "insert" /\ req[q].who = req[r].who => q = r

RequestsKnown == DOMAIN req = Requests /\ \A r \in Requests : RequestOK(req[r])

AccessInv ==
  /\ AccessTypeOK /\ KeysOK /\ SubjectsOK /\ RequestsKnown
  /\ owner \in joined /\ joined \subseteq Ids

LEMMA LeastNumber ==
  ASSUME NEW S \in SUBSET Nat, S # {}
  PROVE  \E n \in S : \A m \in S : n <= m
<1> DEFINE R == OpToRel(<, Nat)
<1>1. IsWellFoundedOn(R, Nat)
  BY NatLessThanWellFounded
<1>2. \A x, y \in Nat : x < y => <<x, y>> \in R
  BY DEF OpToRel
<1> HIDE DEF R
<1>3. PICK n \in S : \A m \in S : <<m, n>> \notin R
  BY <1>1, WFMin
<1>4. ASSUME NEW m \in S PROVE n <= m
  <2>1. ~(m < n)
    BY <1>2, <1>3
  <2> QED
    BY <2>1
<1> QED
  BY <1>4

LEMMA MinIsLeast ==
  ASSUME NEW S \in SUBSET Nat, S # {}
  PROVE  Min(S) \in S /\ \A m \in S : Min(S) <= m
BY LeastNumber DEF Min

\* The account of a subject is the first one.
LEMMA AccountIsFirst ==
  ASSUME NEW s PROVE
    /\ Accounts(s) = {} => Account(s) = Unset
    /\ Accounts(s) # {} => Account(s) \in Accounts(s) /\ \A i \in Accounts(s) : Account(s) <= i
    /\ Account(s) \in Ids \cup {Unset}
<1>1. Accounts(s) \subseteq Ids /\ Ids \subseteq Nat
  BY AccessAssumption DEF Accounts, Ids
<1> QED
  BY <1>1, MinIsLeast DEF Account

\* Numbers are no value for "unset".
LEMMA UnsetApart ==
  /\ Unset \notin Ids /\ Unset \notin Subjects
  /\ Anonymous \in Ids /\ Agent \in Ids /\ Agent + 1 \in Ids /\ Ids \subseteq Nat
  /\ Anonymous # Agent
BY AccessAssumption DEF Ids, Anonymous, Agent

LEMMA UpToMore ==
  ASSUME NEW f \in Nat, NEW g \in Nat, f <= g, NEW c \in 1..f + 1 PROVE c \in 1..g + 1
OBVIOUS

\* A request goes on: what counts is where it has come to.  Participants are only added
\* to those who have been there, and a chat that is closed stays closed.
LEMMA GoesOn ==
  ASSUME AccessInv, NEW r \in Requests, NEW now, Goes(r, now), RequestOK(now)', now.at # "insert",
         UNCHANGED <<sso, server, current, verifier, attempts, userVars, owner, together>>,
         faults' = faults \/ Fault, arrivals' = arrivals,
         joined \subseteq joined', joined' \subseteq Ids, members' \subseteq joined',
         chat' \in {chat, "CLOSED"}
  PROVE  AccessInv'
<1>1. UNCHANGED <<sso, server, current, verifier, attempts, subject, super>>
  BY DEF userVars
<1>2. DOMAIN req' = Requests /\ \A q \in Requests : req'[q] = IF q = r THEN now ELSE req[q]
  BY DEF Goes, AccessInv, RequestsKnown
<1>3. \A s : Accounts(s)' = Accounts(s) /\ Account(s)' = Account(s)
  BY <1>1 DEF Accounts, Account
<1>4. \A q \in Requests : RequestOK(req[q])'
  <2> SUFFICES ASSUME NEW q \in Requests, q # r PROVE RequestOK(req[q])'
    BY <1>2
  <2> DEFINE x == req[q]
  <2>1. req'[q] = x /\ x \in RequestTypes /\ UserOK(x) /\ RightOK(x) /\ DoneOK(x)
    BY <1>2 DEF AccessInv, RequestsKnown, RequestOK
  <2> HIDE DEF x
  <2>2. UserOK(req[q])'
    BY <1>1, <1>3, <2>1 DEF UserOK, Registered
  <2>3. RightOK(req[q])'
    BY <1>1, <2>1 DEF RightOK
  <2>4. DoneOK(req[q])'
    BY <1>1, <2>1 DEF DoneOK
  <2> QED
    BY <2>1, <2>2, <2>3, <2>4 DEF RequestOK
<1>5. SubjectsOK'
  <2>1. \A q \in Requests : req'[q].at = "insert" => req[q].at = "insert" /\ req'[q] = req[q]
    BY <1>2
  <2> QED
    BY <1>1, <1>3, <2>1 DEF AccessInv, SubjectsOK
<1>c. faults' \in Nat /\ faults <= faults' /\ faults' + arrivals' \in 0..MaxEvents
  BY AccessAssumption DEF AccessInv, KeysOK, AccessTypeOK, Fault
<1>6. KeysOK'
  <2>1. /\ sso' = sso /\ server' = server /\ current' = current
        /\ verifier' = verifier /\ attempts' = attempts
    BY <1>1
  <2>2. KeysOK
    BY DEF AccessInv
  <2>3. current' \in 1..faults' + 1 /\ arrivals' \in Nat
    <3>1. faults \in Nat /\ current \in 1..faults + 1 /\ arrivals \in Nat
      BY <2>2 DEF KeysOK
    <3> QED
      BY <1>c, <2>1, <3>1, UpToMore
  <2>4. /\ sso \in BOOLEAN /\ (server = "starting" => attempts < MaxAttempts)
        /\ (sso /\ server = "up" => verifier # Unset)
    BY <2>2 DEF KeysOK
  <2>5. /\ sso' \in BOOLEAN /\ (server' = "starting" => attempts' < MaxAttempts)
        /\ (sso' /\ server' = "up" => verifier' # Unset)
    BY <2>1, <2>4
  <2> QED
    BY <1>c, <2>3, <2>5 DEF KeysOK
<1>7. AccessTypeOK'
  <2>1. \A q \in Requests : req'[q].user \in Ids \cup {Unset} /\ req'[q].invited \in Ids \cup {Unset}
    BY <1>4 DEF RequestOK, RequestTypes
  <2> QED
    BY <1>1, <1>c, <2>1 DEF AccessInv, AccessTypeOK
<1>8. owner' \in joined'
  BY DEF AccessInv
<1> QED
  BY <1>2, <1>4, <1>5, <1>6, <1>7, <1>8 DEF AccessInv, RequestsKnown

LEMMA GoesKeeps ==
  ASSUME AccessInv, NEW r \in Requests, NEW now, Goes(r, now), RequestOK(now)', now.at # "insert",
         UNCHANGED <<keyVars, userVars, owner, together>>, arrivals' = arrivals,
         joined \subseteq joined', joined' \subseteq Ids, members' \subseteq joined',
         chat' \in {chat, "CLOSED"}
  PROVE  AccessInv'
BY GoesOn DEF keyVars

LEMMA QueryStays ==
  ASSUME AccessInv, NEW r \in Requests, NEW now, Goes(r, now), RequestOK(now), now.at # "insert",
         UNCHANGED <<sso, server, current, verifier, attempts, userVars, chatVars, arrivals, together>>,
         faults' = faults \/ Fault
  PROVE  AccessInv'
<1>1. UNCHANGED <<sso, subject, super, chat, owner, members, joined, together, arrivals>>
  BY DEF chatVars, userVars
<1>2. \A s : Account(s)' = Account(s)
  BY <1>1 DEF Accounts, Account
<1>3. RequestOK(now)'
  <2>1. now \in RequestTypes /\ UserOK(now) /\ RightOK(now) /\ DoneOK(now)
    BY DEF RequestOK
  <2>2. UserOK(now)'
    BY <1>1, <1>2, <2>1 DEF UserOK, Registered
  <2>3. RightOK(now)'
    BY <1>1, <2>1 DEF RightOK
  <2>4. DoneOK(now)'
    BY <1>1, <2>1 DEF DoneOK
  <2> QED
    BY <2>1, <2>2, <2>3, <2>4 DEF RequestOK
<1>4. joined \subseteq Ids /\ members \subseteq joined
  BY DEF AccessInv, AccessTypeOK
<1> QED
  BY <1>1, <1>3, <1>4, GoesOn

LEMMA ChatStays ==
  ASSUME AccessInv, NEW r \in Requests, NEW now, Goes(r, now), RequestOK(now), now.at # "insert",
         UNCHANGED chatVars, Unchanged
  PROVE  AccessInv'
BY QueryStays DEF Unchanged, keyVars

Answers == {"ok", "forbidden", "badRequest", "notFound"}

\* An answer may be given to a request that has done what it might do.
LEMMA FinishOK ==
  ASSUME NEW q, RequestOK(q), NEW answer \in Answers,
         answer = "forbidden" /\ (q.admin \/ q.op = "remove") =>
           q.crossed \/ q.blind \/ (~q.admin /\ q.user # owner),
         answer = "ok" => q.invited \in joined \cup {Unset}
  PROVE  RequestOK(Finished(q, answer)) /\ Finished(q, answer).at = "done"
<1> DEFINE f == Finished(q, answer)
<1>1. q \in RequestTypes /\ UserOK(q) /\ RightOK(q) /\ DoneOK(q)
  BY DEF RequestOK
<1>2. /\ f \in RequestTypes
      /\ f.at = "done" /\ f.reply = answer /\ f.who = Unset /\ f.target = Unset /\ ~f.made
      /\ f.op = q.op /\ f.admin = q.admin /\ f.user = q.user /\ f.invited = q.invited
      /\ f.crossed = q.crossed /\ f.did = q.did /\ (answer = "forbidden" => f.blind = q.blind)
  <2>1. CASE answer = "forbidden"
    <3>1. f = [q EXCEPT !.at = "done", !.reply = answer, !.who = Unset, !.target = Unset,
                        !.made = FALSE, !.blind = q.blind]
      BY <2>1 DEF Finished
    <3>2. q.blind \in BOOLEAN
      BY <1>1 DEF RequestTypes
    <3> HIDE DEF f
    <3> QED
      BY <1>1, <2>1, <3>1, <3>2 DEF RequestTypes
  <2>2. CASE answer # "forbidden"
    <3>1. f = [q EXCEPT !.at = "done", !.reply = answer, !.who = Unset, !.target = Unset,
                        !.made = FALSE, !.blind = FALSE]
      BY <2>2 DEF Finished
    <3> HIDE DEF f
    <3> QED
      BY <1>1, <2>2, <3>1 DEF RequestTypes, Answers
  <2> QED
    BY <2>1, <2>2
<1> HIDE DEF f
<1>3. UserOK(f)
  BY <1>1, <1>2 DEF UserOK, Acting
<1>4. RightOK(f)
  BY <1>2 DEF RightOK, Acting, Admitted
<1>5. DoneOK(f)
  BY <1>1, <1>2 DEF DoneOK
<1> QED
  BY <1>2, <1>3, <1>4, <1>5 DEF RequestOK, f

\* A request one of whose queries failed, and which may now be refused.
LEMMA Blinded ==
  ASSUME NEW q, RequestOK(q), NEW b, b = [q EXCEPT !.blind = TRUE]
  PROVE  /\ RequestOK(b) /\ b.blind
         /\ b.at = q.at /\ b.op = q.op /\ b.admin = q.admin /\ b.user = q.user
         /\ b.crossed = q.crossed
<1>1. q \in RequestTypes /\ UserOK(q) /\ RightOK(q) /\ DoneOK(q)
  BY DEF RequestOK
<1>2. /\ b \in RequestTypes
      /\ b.at = q.at /\ b.op = q.op /\ b.who = q.who /\ b.admin = q.admin
      /\ b.user = q.user /\ b.target = q.target /\ b.invited = q.invited
      /\ b.reply = q.reply /\ b.made = q.made /\ b.crossed = q.crossed /\ b.did = q.did
      /\ b.blind
  BY <1>1 DEF RequestTypes
<1>3. UserOK(b)
  BY <1>1, <1>2 DEF UserOK
<1>4. RightOK(b)
  BY <1>1, <1>2 DEF RightOK
<1>5. DoneOK(b)
  BY <1>1, <1>2 DEF DoneOK
<1> QED
  BY <1>2, <1>3, <1>4, <1>5 DEF RequestOK

\* The query has its answer, or fails although the right is there.
LEMMA QueryKeeps ==
  ASSUME AccessInv, NEW r \in Requests, NEW holds \in BOOLEAN, NEW yes, NEW no, NEW blind,
         Query(r, holds, yes, no), blind = [no EXCEPT !.blind = TRUE],
         holds => RequestOK(yes) /\ yes.at # "insert" /\ RequestOK(blind) /\ blind.at # "insert",
         ~holds => RequestOK(no) /\ no.at # "insert"
  PROVE  AccessInv'
<1>1. UNCHANGED <<sso, server, current, verifier, attempts, userVars, chatVars, arrivals, together>>
  BY DEF Query
<1>2. CASE holds /\ Goes(r, yes) /\ UNCHANGED faults
  BY <1>1, <1>2, QueryStays
<1>3. CASE ~holds /\ Goes(r, no) /\ UNCHANGED faults
  BY <1>1, <1>3, QueryStays
<1>4. CASE holds /\ Fault /\ Goes(r, blind)
  BY <1>1, <1>4, QueryStays
<1> QED
  BY <1>2, <1>3, <1>4 DEF Query

\* can_write and what follows it.
LEMMA SuperOK ==
  ASSUME NEW q, RequestOK(q), q.at = "super", NEW at, NEW now, now = [q EXCEPT !.at = at],
         \/ at = Allowed(q.op) /\ q.user \in super
         \/ at = "open" /\ (q.blind \/ q.user \notin super)
  PROVE  RequestOK(now) /\ now.at = at /\ at # "insert"
<1>2. q \in RequestTypes /\ UserOK(q) /\ RightOK(q) /\ DoneOK(q)
  BY DEF RequestOK
<1>3. /\ at \in {"open", "send", "adding", "rights"}
      /\ at = "open" \/ q.user \in super
      /\ at = "open" => q.blind \/ q.user \notin super
      /\ at \in {"idle", "insert", "role", "done"} \cup Acting
  BY DEF Allowed, Acting
<1>n. q.op # "remove"
  BY <1>2 DEF RightOK
<1>4. /\ now \in RequestTypes
      /\ now.at = at /\ now.op = q.op /\ now.who = q.who /\ now.admin = q.admin
      /\ now.user = q.user /\ now.target = q.target /\ now.invited = q.invited
      /\ now.reply = q.reply /\ now.made = q.made /\ now.crossed = q.crossed /\ now.did = q.did
      /\ now.blind = q.blind
  BY <1>2, <1>3 DEF RequestTypes
<1>5. UserOK(now)
  BY <1>2, <1>3, <1>4 DEF UserOK, Acting
<1>6. RightOK(now)
  BY <1>2, <1>3, <1>4, <1>n DEF RightOK, Acting, Admitted
<1>7. DoneOK(now)
  <2>1. q.invited = Unset
    BY <1>2 DEF DoneOK
  <2> QED
    BY <1>2, <1>3, <1>4, <2>1 DEF DoneOK
<1> QED
  BY <1>3, <1>4, <1>5, <1>6, <1>7 DEF RequestOK

LEMMA CheckSuperKeeps ==
  ASSUME AccessInv, NEW r \in Requests, CheckSuper(r) PROVE AccessInv'
<1> DEFINE q == req[r]
           b == [q EXCEPT !.blind = TRUE]
           holds == q.user \in super
           yes == [q EXCEPT !.at = Allowed(q.op)]
           no == [q EXCEPT !.at = "open"]
           blind == [no EXCEPT !.blind = TRUE]
<1>1. RequestOK(q) /\ q.at = "super" /\ Query(r, holds, yes, no)
  BY DEF CheckSuper, At, AccessInv, RequestsKnown
<1>2. RequestOK(b) /\ b.at = "super" /\ b.blind
  BY <1>1, Blinded
<1>3. blind = [b EXCEPT !.at = "open"]
  BY <1>1 DEF RequestOK, RequestTypes
<1>4. RequestOK(blind) /\ blind.at # "insert"
  <2> HIDE DEF b, blind
  <2> QED
    BY <1>2, <1>3, SuperOK
<1>5. holds => RequestOK(yes) /\ yes.at # "insert"
  BY <1>1, SuperOK
<1>6. ~holds => RequestOK(no) /\ no.at # "insert"
  BY <1>1, SuperOK
<1>b. holds \in BOOLEAN
  OBVIOUS
<1> HIDE DEF holds, yes, no, q
<1> QED
  BY <1>b, <1>1, <1>4, <1>5, <1>6, QueryKeeps

LEMMA OpenOK ==
  ASSUME NEW q, RequestOK(q), q.at = "open", NEW now, now = [q EXCEPT !.at = "member"]
  PROVE  RequestOK(now) /\ now.at = "member"
<1>2. q \in RequestTypes /\ UserOK(q) /\ RightOK(q) /\ DoneOK(q)
  BY DEF RequestOK
<1>3. /\ now \in RequestTypes
      /\ now.at = "member" /\ now.op = q.op /\ now.who = q.who /\ now.admin = q.admin
      /\ now.user = q.user /\ now.target = q.target /\ now.invited = q.invited
      /\ now.reply = q.reply /\ now.made = q.made /\ now.crossed = q.crossed /\ now.did = q.did
      /\ now.blind = q.blind
  BY <1>2 DEF RequestTypes, Acting
<1>4. UserOK(now)
  BY <1>2, <1>3 DEF UserOK, Acting
<1>5. RightOK(now)
  BY <1>2, <1>3 DEF RightOK, Acting, Admitted
<1>6. DoneOK(now)
  BY <1>2, <1>3 DEF DoneOK
<1> QED
  BY <1>3, <1>4, <1>5, <1>6 DEF RequestOK

\* Whoever is refused is no admin, or his role was crossed, or a query failed.
LEMMA RefusedOK ==
  ASSUME NEW q, RequestOK(q),
         \/ q.at \in {"open", "member"}
         \/ q.at = "rights" /\ (q.blind \/ q.user \notin super \cup {owner})
  PROVE  RequestOK(Finished(q, "forbidden")) /\ Finished(q, "forbidden").at = "done"
<1>1. RightOK(q)
  BY DEF RequestOK
<1>2. q.at = "rights" => q.op # "run"
  BY <1>1 DEF RightOK
<1>3. q.admin \/ q.op = "remove" => q.crossed \/ q.blind \/ (~q.admin /\ q.user # owner)
  BY <1>1, <1>2 DEF RightOK, Acting
<1> QED
  BY <1>3, FinishOK, AccessAssumption DEF Answers

LEMMA CheckOpenKeeps ==
  ASSUME AccessInv, NEW r \in Requests, CheckOpen(r) PROVE AccessInv'
<1> DEFINE q == req[r]
           b == [q EXCEPT !.blind = TRUE]
           holds == chat = "OPEN"
           yes == [q EXCEPT !.at = "member"]
           no == Finished(q, "forbidden")
           blind == [no EXCEPT !.blind = TRUE]
<1>1. RequestOK(q) /\ q.at = "open" /\ Query(r, holds, yes, no)
  BY DEF CheckOpen, At, Done, AccessInv, RequestsKnown
<1>2. RequestOK(yes) /\ yes.at # "insert"
  BY <1>1, OpenOK
<1>3. RequestOK(no) /\ no.at # "insert"
  BY <1>1, RefusedOK
<1>4. RequestOK(blind) /\ blind.at # "insert"
  BY <1>3, Blinded
<1>b. holds \in BOOLEAN
  OBVIOUS
<1> HIDE DEF holds, yes, no, q
<1> QED
  BY <1>b, <1>1, <1>2, <1>3, <1>4, QueryKeeps

LEMMA MemberOK ==
  ASSUME AccessInv, NEW q, RequestOK(q), q.at = "member", q.user \in members,
         NEW now, now = [q EXCEPT !.at = Allowed(q.op)]
  PROVE  RequestOK(now) /\ now.at = Allowed(q.op) /\ now.at # "insert"
<1> DEFINE at == Allowed(q.op)
<1>2. q \in RequestTypes /\ UserOK(q) /\ RightOK(q) /\ DoneOK(q)
  BY DEF RequestOK
<1>n. q.op # "remove"
  BY <1>2 DEF RightOK
<1>3. at \in {"send", "adding", "rights"} /\ at \in {"idle", "insert", "role", "done"} \cup Acting
  BY DEF Allowed, Acting
<1> HIDE DEF at
<1>4. /\ now \in RequestTypes
      /\ now.at = at /\ now.op = q.op /\ now.who = q.who /\ now.admin = q.admin
      /\ now.user = q.user /\ now.target = q.target /\ now.invited = q.invited
      /\ now.reply = q.reply /\ now.made = q.made /\ now.crossed = q.crossed /\ now.did = q.did
      /\ now.blind = q.blind
  BY <1>2, <1>3 DEF RequestTypes, at
<1>5. UserOK(now)
  BY <1>2, <1>3, <1>4 DEF UserOK, Acting
<1>6. q.user \in joined
  BY DEF AccessInv, AccessTypeOK
<1>7. RightOK(now)
  BY <1>2, <1>3, <1>4, <1>6, <1>n DEF RightOK, Acting, Admitted
<1>8. DoneOK(now)
  <2>1. q.invited = Unset
    BY <1>2 DEF DoneOK
  <2> QED
    BY <1>2, <1>3, <1>4, <2>1 DEF DoneOK
<1> QED
  BY <1>3, <1>4, <1>5, <1>7, <1>8 DEF RequestOK, at

LEMMA CheckMemberKeeps ==
  ASSUME AccessInv, NEW r \in Requests, CheckMember(r) PROVE AccessInv'
<1> DEFINE q == req[r]
           holds == q.user \in members
           yes == [q EXCEPT !.at = Allowed(q.op)]
           no == Finished(q, "forbidden")
           blind == [no EXCEPT !.blind = TRUE]
<1>1. RequestOK(q) /\ q.at = "member" /\ Query(r, holds, yes, no)
  BY DEF CheckMember, At, Done, AccessInv, RequestsKnown
<1>2. holds => RequestOK(yes) /\ yes.at # "insert"
  BY <1>1, MemberOK
<1>3. RequestOK(no) /\ no.at # "insert"
  BY <1>1, RefusedOK
<1>4. RequestOK(blind) /\ blind.at # "insert"
  BY <1>3, Blinded
<1>b. holds \in BOOLEAN
  OBVIOUS
<1> HIDE DEF holds, yes, no, q
<1> QED
  BY <1>b, <1>1, <1>2, <1>3, <1>4, QueryKeeps

\* A request is about an account, or nobody has the name that it gives.
LEMMA NamedTypes ==
  ASSUME NEW op PROVE Named(op) \subseteq Ids \cup {Unset}
BY UnsetApart DEF Named, Registered

\* Participants.
LEMMA CheckAddKeeps ==
  ASSUME AccessInv, NEW r \in Requests, CheckAdd(r) PROVE AccessInv'
<1> DEFINE q == req[r]
<1>p. PICK t \in Named(q.op) :
        Goes(r, IF t # Unset /\ chat = "OPEN"
                  THEN [q EXCEPT !.at = "insertp", !.target = t]
                  ELSE IF q.op = "invite" THEN [q EXCEPT !.at = "send", !.invited = t]
                         ELSE Finished(q, "ok"))
  BY DEF CheckAdd, Done
<1> DEFINE ins == [q EXCEPT !.at = "insertp", !.target = t]
<1> DEFINE snd == [q EXCEPT !.at = "send", !.invited = t]
<1>1. /\ q.at = "adding" /\ UNCHANGED chatVars /\ Unchanged
      /\ \/ t # Unset /\ chat = "OPEN" /\ Goes(r, ins)
         \/ ~(t # Unset /\ chat = "OPEN") /\ q.op = "invite" /\ Goes(r, snd)
         \/ Goes(r, Finished(q, "ok"))
  BY <1>p DEF CheckAdd, At
<1>2. q \in RequestTypes /\ UserOK(q) /\ RightOK(q) /\ DoneOK(q)
  BY DEF AccessInv, RequestsKnown, RequestOK
<1>3. t \in Ids \cup {Unset}
  BY NamedTypes
<1>4. chat \in {"OPEN", "CLOSED"}
  BY DEF AccessInv, AccessTypeOK
<1>5. q.op # "remove" /\ q.invited = Unset
  BY <1>1, <1>2 DEF RightOK, DoneOK, Admitted
<1> HIDE DEF q
<1>6. CASE t # Unset /\ Goes(r, ins)
  <2>1. /\ ins \in RequestTypes
        /\ ins.at = "insertp" /\ ins.op = q.op /\ ins.who = q.who /\ ins.admin = q.admin
        /\ ins.user = q.user /\ ins.target = t /\ ins.invited = q.invited
        /\ ins.reply = q.reply /\ ins.made = q.made /\ ins.crossed = q.crossed /\ ins.did = q.did
        /\ ins.blind = q.blind
    BY <1>2, <1>3 DEF RequestTypes, Acting
  <2> HIDE DEF ins
  <2>2. UserOK(ins)
    BY <1>1, <1>2, <1>3, <1>6, <2>1 DEF UserOK, Acting
  <2>3. RightOK(ins)
    BY <1>1, <1>2, <1>5, <2>1 DEF RightOK, Acting, Admitted
  <2>4. DoneOK(ins)
    BY <1>1, <1>2, <1>5, <2>1 DEF DoneOK
  <2> QED
    BY <1>1, <1>6, <2>1, <2>2, <2>3, <2>4, ChatStays DEF RequestOK
<1>7. CASE ~(t # Unset /\ chat = "OPEN") /\ q.op = "invite" /\ Goes(r, snd)
  <2>1. /\ snd \in RequestTypes
        /\ snd.at = "send" /\ snd.op = q.op /\ snd.who = q.who /\ snd.admin = q.admin
        /\ snd.user = q.user /\ snd.target = q.target /\ snd.invited = t
        /\ snd.reply = q.reply /\ snd.made = q.made /\ snd.crossed = q.crossed /\ snd.did = q.did
        /\ snd.blind = q.blind
    BY <1>2, <1>3, ZenonT(40) DEF RequestTypes, Acting
  <2> HIDE DEF snd
  <2>2. UserOK(snd)
    BY <1>1, <1>2, <2>1 DEF UserOK, Acting
  <2>3. RightOK(snd)
    BY <1>1, <1>2, <1>5, <1>7, <2>1 DEF RightOK, Acting, Admitted
  <2>4. DoneOK(snd)
    <3>1. t = Unset \/ chat = "CLOSED"
      BY <1>4, <1>7
    <3>2. q.reply = Unset
      BY <1>1, <1>2 DEF DoneOK
    <3>3. Unset # "ok" /\ Unset # "forbidden"
      BY AccessAssumption
    <3> QED
      BY <1>1, <1>2, <2>1, <3>1, <3>2, <3>3 DEF DoneOK
  <2> QED
    BY <1>1, <1>7, <2>1, <2>2, <2>3, <2>4, ChatStays DEF RequestOK
<1>8. CASE Goes(r, Finished(q, "ok"))
  <2>1. RequestOK(Finished(q, "ok")) /\ Finished(q, "ok").at = "done"
    BY <1>2, <1>5, FinishOK DEF RequestOK, Answers
  <2> QED
    BY <1>1, <1>8, <2>1, ChatStays
<1> QED
  BY <1>1, <1>6, <1>7, <1>8

LEMMA AddParticipantKeeps ==
  ASSUME AccessInv, NEW r \in Requests, AddParticipant(r) PROVE AccessInv'
<1> DEFINE q == req[r]
<1> DEFINE said == [q EXCEPT !.did = @ \cup {"added"}]
<1> DEFINE snd == [said EXCEPT !.at = "send", !.invited = q.target]
<1>1. /\ q.at = "insertp" /\ Unchanged /\ UNCHANGED <<chat, owner>>
      /\ members' = members \cup {q.target} /\ joined' = joined \cup {q.target}
      /\ (q.op = "invite" /\ Goes(r, snd)) \/ Goes(r, Finished(said, "ok"))
  BY DEF AddParticipant, At
<1>2. q \in RequestTypes /\ UserOK(q) /\ RightOK(q) /\ DoneOK(q)
  BY DEF AccessInv, RequestsKnown, RequestOK
<1>3. /\ UNCHANGED <<keyVars, userVars, arrivals, together, sso, subject, super>>
  BY <1>1 DEF Unchanged, keyVars, userVars
<1>4. \A s : Account(s)' = Account(s)
  BY <1>3 DEF Accounts, Account
<1> HIDE DEF q
<1>5. q.target \in Ids /\ q.op # "remove" /\ q.invited = Unset /\ q.reply = Unset
  BY <1>1, <1>2 DEF UserOK, RightOK, DoneOK, Admitted
<1>6. /\ joined \subseteq joined' /\ joined' \subseteq Ids /\ members' \subseteq joined'
  BY <1>1, <1>5 DEF AccessInv, AccessTypeOK
<1>7. Unset # "ok" /\ Unset # "forbidden"
  BY AccessAssumption
<1>8. /\ said \in RequestTypes
      /\ said.at = "insertp" /\ said.op = q.op /\ said.who = q.who /\ said.admin = q.admin
      /\ said.user = q.user /\ said.target = q.target /\ said.invited = q.invited
      /\ said.reply = q.reply /\ said.made = q.made /\ said.crossed = q.crossed
      /\ said.did = q.did \cup {"added"}
  <2>1. q.did \cup {"added"} \in SUBSET {"added", "removed", "ended", "said"}
    BY <1>2 DEF RequestTypes
  <2> QED
    BY <1>1, <1>2, <2>1 DEF RequestTypes
<1>9. RightOK(said)
  BY <1>1, <1>2, <1>8 DEF RightOK
<1>10. DoneOK(said)
  <2>1. q.op # "run" => q.admin \/ q.crossed \/ q.user \in joined
    BY <1>1, <1>2, <1>5 DEF RightOK, Admitted
  <2>2. said.did \cap {"removed", "ended"} # {} => q.did # {} /\ q.did \cap {"removed", "ended"} # {}
    BY <1>8
  <2> QED
    BY <1>1, <1>2, <1>5, <1>7, <1>8, <2>1, <2>2 DEF DoneOK
<1>11. UserOK(said)
  BY <1>1, <1>2, <1>8 DEF UserOK
<1> HIDE DEF said
<1>12. CASE q.op = "invite" /\ Goes(r, snd)
  <2>0. PICK now : now = snd
    OBVIOUS
  <2>1. /\ now \in RequestTypes
        /\ now.at = "send" /\ now.op = q.op /\ now.who = q.who /\ now.admin = q.admin
        /\ now.user = q.user /\ now.target = q.target /\ now.invited = q.target
        /\ now.reply = q.reply /\ now.made = q.made /\ now.crossed = q.crossed
        /\ now.did = said.did
    BY <1>5, <1>8, <2>0 DEF RequestTypes, Acting
  <2> HIDE DEF snd
  <2>2. UserOK(now)'
    BY <1>1, <1>2, <1>3, <1>4, <2>1 DEF UserOK, Acting, Registered
  <2>3. RightOK(now)'
    <3>1. q.op # "run" => q.admin \/ q.crossed \/ q.user \in joined
      BY <1>1, <1>2, <1>5 DEF RightOK, Admitted
    <3>2. q.op # "run" /\ ~q.crossed => (q.user \in super <=> q.admin)
      BY <1>1, <1>2 DEF RightOK, Acting
    <3> QED
      BY <1>1, <1>3, <1>5, <1>6, <1>12, <2>1, <3>1, <3>2 DEF RightOK, Admitted
  <2>4. DoneOK(now)'
    <3>1. now.did # {} /\ q.op # "run" => \/ q.admin \/ q.crossed
                        \/ /\ q.user \in joined
                           /\ now.did \cap {"removed", "ended"} # {} => q.user = owner
      BY <1>8, <1>10, <2>1 DEF DoneOK
    <3> QED
      BY <1>1, <1>5, <1>6, <1>7, <2>1, <3>1 DEF DoneOK
  <2>5. RequestOK(now)'
    BY <2>1, <2>2, <2>3, <2>4 DEF RequestOK
  <2> QED
    BY <1>1, <1>3, <1>6, <1>12, <2>0, <2>1, <2>5, GoesKeeps
<1>13. CASE Goes(r, Finished(said, "ok"))
  <2> DEFINE f == Finished(said, "ok")
  <2>0. PICK now : now = f
    OBVIOUS
  <2>1. RequestOK(now) /\ now.at = "done"
    BY <1>5, <1>8, <1>9, <1>10, <1>11, <2>0, FinishOK DEF RequestOK, Answers
  <2>2. /\ now.who = Unset /\ now.user = q.user /\ now.op = q.op /\ now.admin = q.admin
        /\ now.crossed = q.crossed /\ now.invited = Unset
    BY <1>5, <1>8, <2>0 DEF Finished, RequestTypes
  <2> HIDE DEF f
  <2>3. RequestOK(now)'
    <3>1. UserOK(now)'
      BY <1>3, <1>4, <2>1 DEF RequestOK, UserOK, Registered
    <3>2. RightOK(now)'
      BY <1>1, <1>3, <1>6, <2>1 DEF RequestOK, RightOK, Acting, Admitted
    <3>3. DoneOK(now)'
      BY <1>1, <1>6, <2>1, <2>2 DEF RequestOK, DoneOK
    <3> QED
      BY <2>1, <3>1, <3>2, <3>3 DEF RequestOK
  <2>4. Goes(r, now)
    BY <1>13, <2>0 DEF f
  <2> QED
    BY <1>1, <1>3, <1>6, <2>1, <2>3, <2>4, GoesKeeps
<1> QED
  BY <1>1, <1>12, <1>13

\* Rights: admins and the owner.
LEMMA EffectOK ==
  ASSUME NEW q, RequestOK(q), q.at = "rights", q.user \in super \cup {owner},
         NEW eff, eff = [q EXCEPT !.at = "effect"]
  PROVE  RequestOK(eff) /\ eff.at = "effect"
<1>2. q \in RequestTypes /\ UserOK(q) /\ RightOK(q) /\ DoneOK(q)
  BY DEF RequestOK
<1>3. q.op # "run" /\ q.invited = Unset /\ q.reply = Unset
      /\ (~q.crossed => (q.user \in super <=> q.admin))
  BY <1>2 DEF RightOK, DoneOK, Acting
<1>4. /\ eff \in RequestTypes
      /\ eff.at = "effect" /\ eff.op = q.op /\ eff.who = q.who /\ eff.admin = q.admin
      /\ eff.user = q.user /\ eff.target = q.target /\ eff.invited = q.invited
      /\ eff.reply = q.reply /\ eff.made = q.made /\ eff.crossed = q.crossed /\ eff.did = q.did
      /\ eff.blind = q.blind
  BY <1>2 DEF RequestTypes, Acting
<1>5. UserOK(eff)
  BY <1>2, <1>4 DEF UserOK, Acting
<1>6. RightOK(eff)
  BY <1>2, <1>3, <1>4 DEF RightOK, Acting, Admitted
<1>7. DoneOK(eff)
  BY <1>2, <1>3, <1>4 DEF DoneOK
<1> QED
  BY <1>4, <1>5, <1>6, <1>7 DEF RequestOK

\* A command that may not take effect is sent all the same.
LEMMA SendOK ==
  ASSUME NEW q, RequestOK(q), q.at = "rights", q.op # "remove",
         NEW snd, snd = [q EXCEPT !.at = "send"]
  PROVE  RequestOK(snd) /\ snd.at = "send"
<1>2. q \in RequestTypes /\ UserOK(q) /\ RightOK(q) /\ DoneOK(q)
  BY DEF RequestOK
<1>3. q.op # "run" /\ q.invited = Unset /\ q.reply = Unset
      /\ (~q.crossed => (q.user \in super <=> q.admin))
  BY <1>2 DEF RightOK, DoneOK, Acting
<1>4. Unset # "ok" /\ Unset # "forbidden"
  BY AccessAssumption
<1>5. /\ snd \in RequestTypes
      /\ snd.at = "send" /\ snd.op = q.op /\ snd.who = q.who /\ snd.admin = q.admin
      /\ snd.user = q.user /\ snd.target = q.target /\ snd.invited = q.invited
      /\ snd.reply = q.reply /\ snd.made = q.made /\ snd.crossed = q.crossed /\ snd.did = q.did
      /\ snd.blind = q.blind
  BY <1>2 DEF RequestTypes, Acting
<1>6. UserOK(snd)
  BY <1>2, <1>5 DEF UserOK, Acting
<1>7. RightOK(snd)
  BY <1>2, <1>3, <1>5 DEF RightOK, Acting, Admitted
<1>8. DoneOK(snd)
  BY <1>2, <1>3, <1>4, <1>5 DEF DoneOK
<1> QED
  BY <1>5, <1>6, <1>7, <1>8 DEF RequestOK

LEMMA CheckRightsKeeps ==
  ASSUME AccessInv, NEW r \in Requests, CheckRights(r) PROVE AccessInv'
<1> DEFINE q == req[r]
           b == [q EXCEPT !.blind = TRUE]
           holds == q.user \in super \cup {owner}
           yes == [q EXCEPT !.at = "effect"]
           ref(p) == Finished(p, "forbidden")
           snd(p) == [p EXCEPT !.at = "send"]
           no == IF q.op = "remove" THEN ref(q) ELSE snd(q)
           blind == [no EXCEPT !.blind = TRUE]
<1>1. RequestOK(q) /\ q.at = "rights" /\ Query(r, holds, yes, no)
  BY DEF CheckRights, At, Done, AccessInv, RequestsKnown
<1>2. holds => RequestOK(yes) /\ yes.at # "insert"
  BY <1>1, EffectOK
<1>3. RequestOK(b) /\ b.blind /\ b.at = "rights" /\ b.op = q.op
  BY <1>1, Blinded
<1>4. q.op = "remove" => RequestOK(blind) /\ blind.at # "insert"
  <2>1. RequestOK(ref(b)) /\ ref(b).at = "done"
    <3> HIDE DEF b
    <3> QED
      BY <1>3, RefusedOK
  <2>2. [ref(q) EXCEPT !.blind = TRUE] = ref(b)
    BY <1>1 DEF Finished, RequestOK, RequestTypes
  <2> QED
    BY <2>1, <2>2
<1>5. q.op # "remove" => RequestOK(blind) /\ blind.at # "insert"
  <2> SUFFICES ASSUME q.op # "remove" PROVE RequestOK(blind) /\ blind.at # "insert"
    OBVIOUS
  <2>1. RequestOK(no) /\ no.at = "send"
    BY <1>1, SendOK
  <2> HIDE DEF no
  <2> QED
    BY <2>1, Blinded
<1>6. ~holds => RequestOK(no) /\ no.at # "insert"
  <2>1. q.op # "remove" => RequestOK(snd(q)) /\ snd(q).at = "send"
    BY <1>1, SendOK
  <2>2. ~holds => RequestOK(ref(q)) /\ ref(q).at = "done"
    BY <1>1, RefusedOK
  <2> QED
    BY <2>1, <2>2
<1>b. holds \in BOOLEAN /\ RequestOK(blind) /\ blind.at # "insert"
  BY <1>4, <1>5
<1> HIDE DEF holds, yes, no, q
<1> QED
  BY <1>b, <1>1, <1>2, <1>6, QueryKeeps

LEMMA RemoveParticipantKeeps ==
  ASSUME AccessInv, NEW r \in Requests, RemoveParticipant(r) PROVE AccessInv'
<1> DEFINE q == req[r]
<1> DEFINE gone == members' # members
<1>0. /\ q.at = "effect" /\ q.op \in {"kick", "remove"} /\ Unchanged
      /\ UNCHANGED <<chat, owner, joined>> /\ members' \subseteq members
  BY DEF RemoveParticipant, At
<1>1. PICK did \in SUBSET {"removed"}, answer \in {"ok", "notFound"} :
        LET now == [q EXCEPT !.did = did] IN
        Goes(r, IF q.op = "kick" THEN [now EXCEPT !.at = "send"] ELSE Finished(now, answer))
  <2>1. (IF gone THEN {"removed"} ELSE {}) \in SUBSET {"removed"}
        /\ (IF gone THEN "ok" ELSE "notFound") \in {"ok", "notFound"}
    OBVIOUS
  <2>2. LET now == [q EXCEPT !.did = IF gone THEN {"removed"} ELSE {}] IN
        Goes(r, IF q.op = "kick" THEN [now EXCEPT !.at = "send"]
                ELSE Finished(now, IF gone THEN "ok" ELSE "notFound"))
    BY DEF RemoveParticipant
  <2> HIDE DEF q, gone
  <2> QED
    BY <2>1, <2>2
<1>2. q \in RequestTypes /\ UserOK(q) /\ RightOK(q) /\ DoneOK(q)
  BY DEF AccessInv, RequestsKnown, RequestOK
<1>3. UNCHANGED <<keyVars, userVars, arrivals, together, sso, subject, super>>
  BY <1>0 DEF Unchanged, keyVars, userVars
<1>4. \A s : Account(s)' = Account(s)
  BY <1>3 DEF Accounts, Account
<1> HIDE DEF q
<1>5. /\ joined \subseteq joined' /\ joined' \subseteq Ids /\ members' \subseteq joined'
      /\ owner \in joined
  BY <1>0 DEF AccessInv, AccessTypeOK
<1>6. Unset # "ok" /\ Unset # "forbidden"
  BY AccessAssumption
<1>7. q.op # "run" /\ q.invited = Unset /\ q.reply = Unset
      /\ (~q.crossed => (q.user \in super <=> q.admin))
      /\ (q.admin \/ q.crossed \/ q.user = owner)
  BY <1>0, <1>2 DEF RightOK, DoneOK, Acting
<1> DEFINE mid == [q EXCEPT !.did = did]
<1>8. /\ mid \in RequestTypes
      /\ mid.at = q.at /\ mid.op = q.op /\ mid.who = q.who /\ mid.admin = q.admin
      /\ mid.user = q.user /\ mid.target = q.target /\ mid.invited = q.invited
      /\ mid.reply = q.reply /\ mid.made = q.made /\ mid.crossed = q.crossed /\ mid.did = did
      /\ mid.blind = q.blind
  <2>1. did \in SUBSET {"added", "removed", "ended", "said"}
    OBVIOUS
  <2>2. /\ mid \in RequestTypes /\ SameButStage(mid, q)
        /\ mid.at = q.at /\ mid.crossed = q.crossed /\ mid.did = did
    BY <1>2, <2>1, RequestDid
  <2> QED
    BY <2>2 DEF SameButStage
<1> HIDE DEF mid
<1>9. RequestOK(mid)
  <2>1. UserOK(mid)
    BY <1>2, <1>8 DEF UserOK
  <2>2. RightOK(mid)
    BY <1>2, <1>8 DEF RightOK
  <2>3. DoneOK(mid)
    BY <1>0, <1>2, <1>5, <1>7, <1>8 DEF DoneOK
  <2> QED
    BY <1>8, <2>1, <2>2, <2>3 DEF RequestOK
<1>10. CASE q.op = "kick" /\ Goes(r, [mid EXCEPT !.at = "send"])
  <2>0. PICK now : now = [mid EXCEPT !.at = "send"]
    OBVIOUS
  <2>1. /\ now \in RequestTypes
        /\ now.at = "send" /\ now.op = q.op /\ now.who = q.who /\ now.admin = q.admin
        /\ now.user = q.user /\ now.target = q.target /\ now.invited = Unset
        /\ now.reply = Unset /\ now.made = q.made /\ now.crossed = q.crossed /\ now.did = did
    BY <1>7, <1>8, <2>0 DEF RequestTypes, Acting
  <2>2. UserOK(now)'
    BY <1>0, <1>2, <1>3, <1>4, <2>1 DEF UserOK, Acting, Registered
  <2>3. RightOK(now)'
    BY <1>0, <1>3, <1>5, <1>7, <1>10, <2>1 DEF RightOK, Acting, Admitted
  <2>4. DoneOK(now)'
    BY <1>0, <1>5, <1>6, <1>7, <2>1 DEF DoneOK
  <2>5. RequestOK(now)'
    BY <2>1, <2>2, <2>3, <2>4 DEF RequestOK
  <2> QED
    BY <1>0, <1>3, <1>5, <1>10, <2>0, <2>1, <2>5, GoesKeeps
<1>11. CASE Goes(r, Finished(mid, answer))
  <2>0. PICK now : now = Finished(mid, answer)
    OBVIOUS
  <2>1. RequestOK(now) /\ now.at = "done"
    <3>1. /\ RequestOK(mid) /\ answer \in Answers /\ answer # "forbidden"
          /\ mid.invited \in joined \cup {Unset}
      BY <1>7, <1>8, <1>9 DEF Answers
    <3> QED
      BY <2>0, <3>1, FinishOK
  <2>2. RequestOK(now)'
    <3>1. UserOK(now)'
      BY <1>3, <1>4, <1>0, <2>1 DEF RequestOK, UserOK, Registered
    <3>2. RightOK(now)'
      BY <1>0, <1>3, <1>5, <2>1 DEF RequestOK, RightOK
    <3>3. DoneOK(now)'
      BY <1>0, <1>5, <2>1 DEF RequestOK, DoneOK
    <3> QED
      BY <2>1, <3>1, <3>2, <3>3 DEF RequestOK
  <2> QED
    BY <1>0, <1>3, <1>5, <1>11, <2>0, <2>1, <2>2, GoesKeeps
<1> QED
  BY <1>0, <1>1, <1>10, <1>11 DEF mid

LEMMA EndKeeps ==
  ASSUME AccessInv, NEW r \in Requests, End(r) PROVE AccessInv'
<1> DEFINE q == req[r]
<1>0. /\ q.at = "effect" /\ q.op = "end" /\ Unchanged
      /\ UNCHANGED <<owner, members, joined>> /\ chat' = "CLOSED"
  BY DEF End, At
<1>1. PICK did \in SUBSET {"ended"} : Goes(r, [q EXCEPT !.at = "send", !.did = did])
  <2>1. (IF chat' # chat THEN {"ended"} ELSE {}) \in SUBSET {"ended"}
    OBVIOUS
  <2> QED
    BY <2>1 DEF End
<1>2. q \in RequestTypes /\ UserOK(q) /\ RightOK(q) /\ DoneOK(q)
  BY DEF AccessInv, RequestsKnown, RequestOK
<1>3. UNCHANGED <<keyVars, userVars, arrivals, together, sso, subject, super>>
  BY <1>0 DEF Unchanged, keyVars, userVars
<1>4. \A s : Account(s)' = Account(s)
  BY <1>3 DEF Accounts, Account
<1> HIDE DEF q
<1>5. /\ joined \subseteq joined' /\ joined' \subseteq Ids /\ members' \subseteq joined'
      /\ owner \in joined
  BY <1>0 DEF AccessInv, AccessTypeOK
<1>6. Unset # "ok" /\ Unset # "forbidden"
  BY AccessAssumption
<1>7. q.op # "run" /\ q.invited = Unset /\ q.reply = Unset
      /\ (~q.crossed => (q.user \in super <=> q.admin))
      /\ (q.admin \/ q.crossed \/ q.user = owner)
  BY <1>0, <1>2 DEF RightOK, DoneOK, Acting
<1>8. PICK now : now = [q EXCEPT !.at = "send", !.did = did]
  OBVIOUS
<1>9. /\ now \in RequestTypes
      /\ now.at = "send" /\ now.op = q.op /\ now.who = q.who /\ now.admin = q.admin
      /\ now.user = q.user /\ now.target = q.target /\ now.invited = Unset
      /\ now.reply = Unset /\ now.made = q.made /\ now.crossed = q.crossed /\ now.did = did
  <2>1. did \in SUBSET {"added", "removed", "ended", "said"}
    OBVIOUS
  <2> QED
    BY <1>2, <1>7, <1>8, <2>1 DEF RequestTypes, Acting
<1>10. UserOK(now)'
  BY <1>0, <1>2, <1>3, <1>4, <1>9 DEF UserOK, Acting, Registered
<1>11. RightOK(now)'
  BY <1>0, <1>3, <1>5, <1>7, <1>9 DEF RightOK, Acting, Admitted
<1>12. DoneOK(now)'
  BY <1>0, <1>5, <1>6, <1>7, <1>9 DEF DoneOK
<1>13. RequestOK(now)'
  BY <1>9, <1>10, <1>11, <1>12 DEF RequestOK
<1> QED
  BY <1>0, <1>1, <1>3, <1>5, <1>8, <1>9, <1>13, GoesKeeps

\* The message itself.
LEMMA CheckSendKeeps ==
  ASSUME AccessInv, NEW r \in Requests, CheckSend(r) PROVE AccessInv'
<1> DEFINE q == req[r]
<1> DEFINE now == [q EXCEPT !.at = "write"]
<1>1. /\ q.at = "send" /\ UNCHANGED chatVars /\ Unchanged
      /\ (chat = "OPEN" /\ Goes(r, now)) \/ Goes(r, Finished(q, "badRequest"))
  BY DEF CheckSend, At, Done
<1>2. q \in RequestTypes /\ UserOK(q) /\ RightOK(q) /\ DoneOK(q)
  BY DEF AccessInv, RequestsKnown, RequestOK
<1> HIDE DEF q
<1>3. CASE chat = "OPEN" /\ Goes(r, now)
  <2>1. /\ now \in RequestTypes
        /\ now.at = "write" /\ now.op = q.op /\ now.who = q.who /\ now.admin = q.admin
        /\ now.user = q.user /\ now.target = q.target /\ now.invited = q.invited
        /\ now.reply = q.reply /\ now.made = q.made /\ now.crossed = q.crossed /\ now.did = q.did
        /\ now.blind = q.blind
    BY <1>2 DEF RequestTypes, Acting
  <2> HIDE DEF now
  <2>2. UserOK(now)
    BY <1>1, <1>2, <2>1 DEF UserOK, Acting
  <2>3. RightOK(now)
    BY <1>1, <1>2, <2>1 DEF RightOK, Acting, Admitted
  <2>4. DoneOK(now)
    BY <1>1, <1>2, <1>3, <2>1 DEF DoneOK
  <2> QED
    BY <1>1, <1>3, <2>1, <2>2, <2>3, <2>4, ChatStays DEF RequestOK
<1>4. CASE Goes(r, Finished(q, "badRequest"))
  <2>1. RequestOK(Finished(q, "badRequest")) /\ Finished(q, "badRequest").at = "done"
    BY <1>2, FinishOK DEF RequestOK, Answers
  <2> QED
    BY <1>1, <1>4, <2>1, ChatStays
<1> QED
  BY <1>1, <1>3, <1>4

LEMMA WriteKeeps ==
  ASSUME AccessInv, NEW r \in Requests, Write(r) PROVE AccessInv'
<1> DEFINE q == req[r]
<1> DEFINE said == [q EXCEPT !.did = @ \cup {"said"}]
<1>1. q.at = "write" /\ Goes(r, Finished(said, "ok")) /\ UNCHANGED chatVars /\ Unchanged
  BY DEF Write, At
<1>2. q \in RequestTypes /\ UserOK(q) /\ RightOK(q) /\ DoneOK(q)
  BY DEF AccessInv, RequestsKnown, RequestOK
<1> HIDE DEF q
<1>3. /\ said \in RequestTypes
      /\ said.at = "write" /\ said.op = q.op /\ said.who = q.who /\ said.admin = q.admin
      /\ said.user = q.user /\ said.target = q.target /\ said.invited = q.invited
      /\ said.reply = q.reply /\ said.made = q.made /\ said.crossed = q.crossed
      /\ said.did = q.did \cup {"said"} /\ said.blind = q.blind
  <2>1. q.did \cup {"said"} \in SUBSET {"added", "removed", "ended", "said"}
    BY <1>2 DEF RequestTypes
  <2> QED
    BY <1>1, <1>2, <2>1 DEF RequestTypes
<1> HIDE DEF said
<1>4. RequestOK(said)
  <2>1. UserOK(said)
    BY <1>1, <1>2, <1>3 DEF UserOK
  <2>2. RightOK(said)
    BY <1>1, <1>2, <1>3 DEF RightOK
  <2>3. DoneOK(said)
    <3>1. q.op # "run" => q.admin \/ q.crossed \/ q.user \in joined
      BY <1>1, <1>2 DEF RightOK, Admitted
    <3>2. said.did \cap {"removed", "ended"} # {} => q.did # {} /\ q.did \cap {"removed", "ended"} # {}
      BY <1>3
    <3> QED
      BY <1>1, <1>2, <1>3, <3>1, <3>2 DEF DoneOK
  <2> QED
    BY <1>3, <2>1, <2>2, <2>3 DEF RequestOK
<1>5. said.invited \in joined \cup {Unset}
  BY <1>1, <1>2, <1>3 DEF DoneOK
<1>6. RequestOK(Finished(said, "ok")) /\ Finished(said, "ok").at = "done"
  BY <1>4, <1>5, FinishOK DEF Answers
<1> QED
  BY <1>1, <1>6, ChatStays

\* A request arrives; one that is about to insert an account is the first, or else it is noted.
LEMMA ArrivalKeeps ==
  ASSUME AccessInv, NEW r \in Requests, NEW now, Goes(r, now), RequestOK(now),
         faults + arrivals < MaxEvents, arrivals' = arrivals + 1,
         UNCHANGED <<keyVars, userVars, chatVars>>, together \subseteq together',
         now.at = "insert" /\ now.who \notin together' =>
           /\ Accounts(now.who) = {}
           /\ \A q \in Requests : req[q].at = "insert" => req[q].who # now.who
  PROVE  AccessInv'
<1>1. UNCHANGED <<sso, server, current, verifier, attempts, faults, subject, super, chat, owner,
                  members, joined>>
  BY DEF keyVars, userVars, chatVars
<1>2. DOMAIN req' = Requests /\ \A q \in Requests : req'[q] = IF q = r THEN now ELSE req[q]
  BY DEF Goes, AccessInv, RequestsKnown
<1>3. \A s : Accounts(s)' = Accounts(s) /\ Account(s)' = Account(s)
  BY <1>1 DEF Accounts, Account
<1>4. \A x : RequestOK(x) => x \in RequestTypes /\ UserOK(x)' /\ RightOK(x)' /\ DoneOK(x)'
  <2> SUFFICES ASSUME NEW x, RequestOK(x) PROVE x \in RequestTypes /\ UserOK(x)' /\ RightOK(x)' /\ DoneOK(x)'
    OBVIOUS
  <2>1. x \in RequestTypes /\ UserOK(x) /\ RightOK(x) /\ DoneOK(x)
    BY DEF RequestOK
  <2>2. UserOK(x)'
    BY <1>1, <1>3, <2>1 DEF UserOK, Registered
  <2>3. RightOK(x)'
    BY <1>1, <2>1 DEF RightOK
  <2>4. DoneOK(x)'
    BY <1>1, <2>1 DEF DoneOK
  <2> QED
    BY <2>1, <2>2, <2>3, <2>4
<1>5. \A q \in Requests : RequestOK(req[q])'
  <2> SUFFICES ASSUME NEW q \in Requests PROVE RequestOK(req[q])'
    OBVIOUS
  <2>0. PICK x : x = req'[q]
    OBVIOUS
  <2>1. RequestOK(x)
    BY <1>2, <2>0 DEF AccessInv, RequestsKnown
  <2>2. RequestOK(x)'
    BY <1>4, <2>1 DEF RequestOK
  <2> QED
    BY <2>0, <2>2
<1>6. SubjectsOK'
  <2>1. \A p \in Requests : req'[p].at = "insert" /\ req'[p].who \notin together' =>
          /\ Accounts(req'[p].who) = {}
          /\ \A q \in Requests : req'[q].at = "insert" /\ req'[q].who = req'[p].who => q = p
    <3> SUFFICES ASSUME NEW p \in Requests, req'[p].at = "insert", req'[p].who \notin together'
                 PROVE  /\ Accounts(req'[p].who) = {}
                        /\ \A q \in Requests : req'[q].at = "insert" /\ req'[q].who = req'[p].who => q = p
      OBVIOUS
    <3>1. CASE p = r
      BY <1>2, <3>1
    <3>2. CASE p # r
      <4>1. req'[p] = req[p] /\ req[p].who \notin together
        BY <1>2, <3>2
      <4>2. Accounts(req[p].who) = {}
            /\ \A q \in Requests : req[q].at = "insert" /\ req[q].who = req[p].who => q = p
        BY <4>1 DEF AccessInv, SubjectsOK
      <4>3. ASSUME now.at = "insert", now.who = req[p].who PROVE FALSE
        BY <4>1, <4>3
      <4> QED
        BY <1>2, <4>1, <4>2, <4>3
    <3> QED
      BY <3>1, <3>2
  <2>2. \A p \in Requests : req'[p].at = "insert" /\ req'[p].who \notin together' =>
          /\ Accounts(req[p].who)' = {}
          /\ \A q \in Requests : req'[q].at = "insert" /\ req'[q].who = req'[p].who => q = p
    BY <1>1, <2>1 DEF Accounts
  <2> QED
    BY <1>1, <1>3, <2>2 DEF AccessInv, SubjectsOK
<1>7. KeysOK'
  BY <1>1 DEF AccessInv, KeysOK
<1>8. AccessTypeOK'
  <2>1. \A q \in Requests : req'[q].user \in Ids \cup {Unset} /\ req'[q].invited \in Ids \cup {Unset}
    BY <1>5 DEF RequestOK, RequestTypes
  <2>2. faults + arrivals' \in 0..MaxEvents
    BY AccessAssumption DEF AccessInv, KeysOK
  <2> QED
    BY <1>1, <2>1, <2>2 DEF AccessInv, AccessTypeOK
<1> QED
  BY <1>1, <1>2, <1>5, <1>6, <1>7, <1>8 DEF AccessInv, RequestsKnown

LEMMA IdleOK == RequestOK(Idle)
<1> DEFINE i == Idle
<1>1. /\ i \in RequestTypes
      /\ i.at = "idle" /\ i.op = "say" /\ i.who = Unset /\ i.admin = FALSE /\ i.user = Unset
      /\ i.target = Unset /\ i.invited = Unset /\ i.reply = Unset /\ i.made = FALSE
      /\ i.crossed = FALSE /\ i.did = {}
  BY DEF Idle, RequestTypes, Ops
<1>2. Unset # "forbidden" /\ Unset # "ok" /\ Unset # Anonymous
  BY AccessAssumption DEF Anonymous
<1> HIDE DEF i
<1>3. UserOK(i) /\ RightOK(i) /\ DoneOK(i)
  BY <1>1, <1>2 DEF UserOK, RightOK, DoneOK, Acting, Admitted
<1> QED
  BY <1>1, <1>3 DEF RequestOK, i

LEMMA StartRunKeeps ==
  ASSUME AccessInv, NEW r \in Requests, StartRun(r) PROVE AccessInv'
<1> DEFINE now == [Idle EXCEPT !.at = "adding", !.op = "run", !.user = Agent]
<1>1. /\ Goes(r, now) /\ faults + arrivals < MaxEvents /\ arrivals' = arrivals + 1
      /\ UNCHANGED <<keyVars, userVars, chatVars, together>>
  BY DEF StartRun
<1>2. /\ now.at = "adding" /\ now.op = "run" /\ now.who = Unset /\ now.admin = FALSE
      /\ now.user = Agent /\ now.target = Unset /\ now.invited = Unset /\ now.reply = Unset
      /\ now.made = FALSE /\ now.crossed = FALSE /\ now.did = {}
  BY DEF Idle
<1>3. Agent \in Ids /\ Agent # Anonymous /\ Unset \notin Ids
  BY UnsetApart
<1>4. now \in RequestTypes
  BY <1>3 DEF RequestTypes, Idle, Acting, Ops
<1>5. Unset # "forbidden" /\ Unset # "ok"
  BY AccessAssumption
<1> HIDE DEF now
<1>6. UserOK(now)
  BY <1>2, <1>3 DEF UserOK, Registered
<1>7. RightOK(now)
  BY <1>2 DEF RightOK
<1>8. DoneOK(now)
  BY <1>2, <1>5 DEF DoneOK
<1> QED
  BY <1>1, <1>2, <1>4, <1>6, <1>7, <1>8, ArrivalKeeps DEF RequestOK

LEMMA ArriveKeeps ==
  ASSUME AccessInv, NEW r \in Requests, NEW s \in Subjects, NEW op \in Ops,
         Arrive(r, s, op)
  PROVE  AccessInv'
<1>u. /\ Unset \notin Ids /\ Unset \notin Subjects /\ Anonymous \in Ids
      /\ Unset # "forbidden" /\ Unset # "ok"
  BY UnsetApart, AccessAssumption
<1> DEFINE new == [Idle EXCEPT !.op = op]
<1>g. /\ server = "up" /\ faults + arrivals < MaxEvents /\ arrivals' = arrivals + 1
      /\ UNCHANGED <<keyVars, userVars, chatVars>>
  BY DEF Arrive
<1>e. Entry(op) \in {"rights", "super"} /\ (Entry(op) = "rights" <=> op = "remove")
      /\ Entry(op) \in {"idle", "insert", "role", "done"} \cup Acting
  BY DEF Entry, Acting
<1>o. op # "run" /\ op \in Ops \cup {"run"}
  BY DEF Ops
<1>i. /\ Idle \in RequestTypes
      /\ Idle.at = "idle" /\ Idle.op = "say" /\ Idle.who = Unset /\ Idle.admin = FALSE
      /\ Idle.user = Unset /\ Idle.target = Unset /\ Idle.invited = Unset /\ Idle.reply = Unset
      /\ Idle.made = FALSE /\ Idle.crossed = FALSE /\ Idle.blind = FALSE /\ Idle.did = {}
  BY IdleOK DEF RequestOK, Idle
<1>n. /\ new \in RequestTypes
      /\ new.at = "idle" /\ new.op = op /\ new.who = Unset /\ new.admin = FALSE
      /\ new.user = Unset /\ new.target = Unset /\ new.invited = Unset /\ new.reply = Unset
      /\ new.made = FALSE /\ new.crossed = FALSE /\ new.did = {}
  BY <1>i, <1>o DEF RequestTypes
<1>1. CASE verifier = Unset
  <2> DEFINE now == [new EXCEPT !.at = Entry(op), !.user = Anonymous, !.admin = TRUE]
  <2>1. Goes(r, now) /\ UNCHANGED together
    BY <1>1 DEF Arrive
  <2> HIDE DEF new
  <2>2. /\ now \in RequestTypes
        /\ now.at = Entry(op) /\ now.op = op /\ now.who = Unset /\ now.admin = TRUE
        /\ now.user = Anonymous /\ now.target = Unset /\ now.invited = Unset /\ now.reply = Unset
        /\ now.made = FALSE /\ now.crossed = FALSE /\ now.did = {}
    BY <1>n, <1>e, <1>u DEF RequestTypes
  <2>3. ~sso
    BY <1>1, <1>g DEF AccessInv, KeysOK
  <2> HIDE DEF now
  <2>4. UserOK(now)
    BY <1>e, <1>u, <2>2, <2>3 DEF UserOK, Registered
  <2>5. Anonymous \in super
    BY DEF AccessInv, SubjectsOK
  <2>6. RightOK(now)
    BY <1>e, <1>o, <2>2, <2>5 DEF RightOK, Admitted
  <2>7. DoneOK(now)
    BY <1>e, <1>u, <2>2 DEF DoneOK
  <2> QED
    BY <1>e, <1>g, <2>1, <2>2, <2>4, <2>6, <2>7, ArrivalKeeps DEF RequestOK
<1>2. CASE Goes(r, [Idle EXCEPT !.at = "done", !.reply = "unauthorized"]) /\ UNCHANGED together
  <2> DEFINE now == [Idle EXCEPT !.at = "done", !.reply = "unauthorized"]
  <2>1. /\ now \in RequestTypes
        /\ now.at = "done" /\ now.op = "say" /\ now.who = Unset /\ now.admin = FALSE
        /\ now.user = Unset /\ now.invited = Unset /\ now.reply = "unauthorized"
        /\ now.made = FALSE /\ now.crossed = FALSE /\ now.did = {}
    BY <1>i DEF RequestTypes
  <2>2. Goes(r, now)
    BY <1>2
  <2> HIDE DEF now
  <2>3. UserOK(now) /\ RightOK(now) /\ DoneOK(now)
    BY <1>u, <2>1 DEF UserOK, RightOK, DoneOK, Acting, Admitted
  <2> QED
    BY <1>2, <1>g, <2>1, <2>2, <2>3, ArrivalKeeps DEF RequestOK
<1>3. ASSUME NEW adm \in BOOLEAN, Goes(r, Find([new EXCEPT !.who = s, !.admin = adm])),
             together' = IF Inserting(s) THEN together \cup {s} ELSE together
      PROVE  AccessInv'
  <2> DEFINE a == Account(s)
  <2> DEFINE at == IF a = Unset THEN "insert" ELSE "role"
  <2> DEFINE one == [new EXCEPT !.who = s, !.admin = adm]
  <2> DEFINE now == [one EXCEPT !.at = at, !.user = a]
  <2> HIDE DEF new
  <2>1. one \in RequestTypes /\ one.at = "idle" /\ one.op = op /\ one.who = s /\ one.admin = adm
        /\ one.user = Unset /\ one.target = Unset /\ one.invited = Unset /\ one.reply = Unset
        /\ one.made = FALSE /\ one.crossed = FALSE /\ one.did = {}
    BY <1>n DEF RequestTypes
  <2> HIDE DEF one
  <2>2. Find(one) = now
    BY <2>1 DEF Find
  <2>3. a \in Ids \cup {Unset}
    BY AccountIsFirst
  <2>4. a # Unset => a \in Accounts(s)
    BY AccountIsFirst
  <2>5. a = Unset => Accounts(s) = {}
    BY <1>u, AccountIsFirst DEF Accounts
  <2>6. at \in {"insert", "role"} /\ (at = "insert" <=> a = Unset)
    OBVIOUS
  <2>7. a # Unset => subject[a] = s /\ a # Anonymous
    BY <1>u, <2>4 DEF Accounts, AccessInv, SubjectsOK
  <2>d. a = Account(s)
    OBVIOUS
  <2> HIDE DEF a, at
  <2>8. /\ now \in RequestTypes
        /\ now.at = at /\ now.op = op /\ now.who = s /\ now.admin = adm
        /\ now.user = a /\ now.target = Unset /\ now.invited = Unset /\ now.reply = Unset
        /\ now.made = FALSE /\ now.crossed = FALSE /\ now.did = {}
    BY <2>1, <2>3, <2>6 DEF RequestTypes
  <2>9. Goes(r, now)
    BY <1>3, <2>2 DEF one
  <2> HIDE DEF now
  <2>10. UserOK(now)
    BY <1>u, <2>3, <2>6, <2>7, <2>8, <2>d DEF UserOK, Registered, Acting
  <2>11. RightOK(now)
    BY <1>o, <2>6, <2>8 DEF RightOK, Acting, Admitted
  <2>12. DoneOK(now)
    BY <1>u, <2>6, <2>8 DEF DoneOK
  <2>13. together \subseteq together'
    BY <1>3
  <2>14. now.at = "insert" /\ now.who \notin together' =>
           /\ Accounts(now.who) = {}
           /\ \A q \in Requests : req[q].at = "insert" => req[q].who # now.who
    <3>1. Inserting(s) => s \in together'
      BY <1>3
    <3>2. a = Unset /\ ~Inserting(s) => \A q \in Requests : req[q].at = "insert" => req[q].who # s
      BY <2>d DEF Inserting, At
    <3> QED
      BY <2>5, <2>6, <2>8, <3>1, <3>2
  <2> QED
    BY <1>g, <2>8, <2>9, <2>10, <2>11, <2>12, <2>13, <2>14, ArrivalKeeps DEF RequestOK
<1> QED
  BY <1>1, <1>2, <1>3 DEF Arrive

\* An account is added behind all others: no first account changes.
LEMMA InsertUserKeeps ==
  ASSUME AccessInv, NEW r \in Requests, InsertUser(r) PROVE AccessInv'
<1> DEFINE q == req[r]
<1>i. PICK i : i = Min(Free)
  OBVIOUS
<1>0. /\ q.at = "insert" /\ Free # {}
      /\ subject' = [subject EXCEPT ![i] = q.who]
      /\ super' = IF q.admin THEN super \cup {i} ELSE super
      /\ UNCHANGED <<keyVars, chatVars, arrivals, together>>
      /\ Goes(r, [q EXCEPT !.at = Entry(q.op), !.user = i, !.made = TRUE])
  BY <1>i DEF InsertUser, At
<1>1. /\ i \in Ids /\ i > Agent /\ subject[i] = Unset /\ i \in Nat
      /\ \A j \in Ids : j > Agent /\ subject[j] = Unset => i <= j
  <2>1. Free \in SUBSET Nat
    BY UnsetApart DEF Free
  <2>2. i \in Free /\ \A j \in Free : i <= j
    BY <1>0, <1>i, <2>1, MinIsLeast
  <2> QED
    BY <2>2, UnsetApart DEF Free
<1>u. /\ Unset \notin Ids /\ Unset \notin Subjects /\ Ids \subseteq Nat
      /\ Unset # "forbidden" /\ Unset # "ok" /\ i # Anonymous /\ i # Agent
      /\ Anonymous \in Ids /\ Agent \in Ids /\ Anonymous \in Nat /\ Agent \in Nat
      /\ Anonymous < Agent
  BY UnsetApart, AccessAssumption, <1>1 DEF Anonymous, Agent
<1>2. UNCHANGED <<sso, server, current, verifier, attempts, faults, chat, owner, members, joined>>
  BY <1>0 DEF keyVars, chatVars
<1>3. q \in RequestTypes /\ UserOK(q) /\ RightOK(q) /\ DoneOK(q)
  BY DEF AccessInv, RequestsKnown, RequestOK
<1>t. subject \in [Ids -> Subjects \cup {Unset}] /\ super \subseteq Ids
  BY DEF AccessInv, AccessTypeOK
<1>c. subject[Anonymous] = Unset /\ subject[Agent] = Unset
      /\ \A j \in super : j = Anonymous \/ subject[j] # Unset
  BY DEF AccessInv, SubjectsOK
<1>w. PICK now : now = [q EXCEPT !.at = Entry(q.op), !.user = i, !.made = TRUE]
  OBVIOUS
<1>d. DOMAIN req' = Requests /\ \A p \in Requests : req'[p] = IF p = r THEN now ELSE req[p]
  BY <1>0, <1>w DEF Goes, AccessInv, RequestsKnown
<1> HIDE DEF q
<1>4. q.who \in Subjects /\ q.op # "run" /\ q.invited = Unset /\ q.reply = Unset
  BY <1>0, <1>3 DEF UserOK, RightOK, DoneOK
<1>5. \A j \in Ids : subject'[j] = IF j = i THEN q.who ELSE subject[j]
  BY <1>0, <1>1, <1>t
<1>6. \A j \in Ids : subject[j] # Unset => j < i
  <2> SUFFICES ASSUME NEW j \in Ids, subject[j] # Unset, ~(j < i) PROVE FALSE
    OBVIOUS
  <2>1. j # i /\ j \in Nat
    BY <1>1, <1>u
  <2>2. i < j
    BY <2>1, <1>1
  <2> QED
    BY <2>2, <1>1 DEF AccessInv, SubjectsOK
<1>7. \A s \in Subjects : Accounts(s)' = IF s = q.who THEN Accounts(s) \cup {i} ELSE Accounts(s)
  BY <1>5, <1>1, <1>4, <1>u DEF Accounts
<1>8. \A s \in Subjects : Account(s) # Unset => Account(s)' = Account(s)
  <2> SUFFICES ASSUME NEW s \in Subjects, Account(s) # Unset PROVE Account(s)' = Account(s)
    OBVIOUS
  <2>1. Account(s) \in Accounts(s) /\ \A j \in Accounts(s) : Account(s) <= j
    BY AccountIsFirst
  <2>2. Account(s) \in Ids /\ Account(s) < i
    BY <2>1, <1>6, <1>u DEF Accounts
  <2>3. Account(s) \in Accounts(s)' /\ \A j \in Accounts(s)' : Account(s) <= j
    <3>1. Accounts(s) \subseteq Accounts(s)' /\ Accounts(s)' \subseteq Accounts(s) \cup {i}
      BY <1>7
    <3>2. Account(s) <= i
      <4>1. Account(s) \in Nat /\ i \in Nat /\ Account(s) < i
        BY <2>2, <1>u, <1>1
      <4> QED
        BY <4>1
    <3> QED
      BY <2>1, <3>1, <3>2
  <2>4. PICK new : new = Accounts(s)'
    OBVIOUS
  <2>5. new \in SUBSET Nat /\ new # {}
    <3>1. Accounts(s)' \subseteq Ids
      BY DEF Accounts, Ids
    <3> QED
      BY <2>3, <2>4, <3>1, <1>u
  <2>6. Min(new) \in new /\ \A j \in new : Min(new) <= j
    BY <2>5, MinIsLeast
  <2>7. Min(new) = Account(s)
    <3>1. Min(new) \in Nat /\ Account(s) \in Nat
      BY <2>2, <2>5, <2>6, <1>u
    <3>2. Min(new) <= Account(s) /\ Account(s) <= Min(new)
      BY <2>3, <2>4, <2>6
    <3> QED
      BY <3>1, <3>2
  <2>8. Account(s)' = IF Accounts(s)' = {} THEN Unset ELSE Min(Accounts(s)')
    BY DEF Account
  <2> QED
    BY <2>4, <2>5, <2>7, <2>8
<1>9. \A x : RequestOK(x) => RequestOK(x)'
  <2> SUFFICES ASSUME NEW x, RequestOK(x) PROVE RequestOK(x)'
    OBVIOUS
  <2>1. x \in RequestTypes /\ UserOK(x) /\ RightOK(x) /\ DoneOK(x)
    BY DEF RequestOK
  <2>2. x.who \in Subjects \cup {Unset} /\ x.user \in Ids \cup {Unset}
    BY <2>1 DEF RequestTypes
  <2>3. x.user # Unset => x.user # i
    BY <1>1, <1>u, <2>1 DEF UserOK, Registered
  <2>4. UserOK(x)'
    <3>1. x.user # Unset => (x.user \in Registered)'
      BY <2>1, <2>2, <2>3, <1>5 DEF UserOK, Registered
    <3>2. x.who # Unset /\ x.user # Unset /\ ~x.made => x.user = Account(x.who)'
      BY <2>1, <2>2, <1>8 DEF UserOK
    <3> QED
      BY <2>1, <3>1, <3>2, <1>2 DEF UserOK
  <2>5. RightOK(x)'
    <3>1. x.user # Unset => (x.user \in super' <=> x.user \in super)
      BY <2>3, <1>0
    <3>2. x.at \in Acting => x.user # Unset
      BY <2>1 DEF UserOK
    <3> QED
      BY <2>1, <3>1, <3>2, <1>2 DEF RightOK
  <2>6. DoneOK(x)'
    BY <2>1, <1>2 DEF DoneOK
  <2> QED
    BY <2>1, <2>4, <2>5, <2>6 DEF RequestOK
<1>e. Entry(q.op) \in {"rights", "super"} /\ (Entry(q.op) = "rights" <=> q.op = "remove")
      /\ Entry(q.op) \in {"idle", "insert", "role", "done"} \cup Acting
  BY DEF Entry, Acting
<1>10. /\ now \in RequestTypes
       /\ now.at = Entry(q.op) /\ now.op = q.op /\ now.who = q.who /\ now.admin = q.admin
       /\ now.user = i /\ now.target = q.target /\ now.invited = Unset
       /\ now.reply = Unset /\ now.made = TRUE /\ now.crossed = q.crossed /\ now.did = q.did
  BY <1>1, <1>3, <1>4, <1>e, <1>w DEF RequestTypes
<1>11. RequestOK(now)'
  <2>1. UserOK(now)'
    BY <1>1, <1>5, <1>4, <1>10, <1>e, <1>u DEF UserOK, Registered
  <2>2. i \in super' <=> q.admin
    BY <1>0, <1>1, <1>c, <1>u
  <2>3. RightOK(now)'
    BY <1>4, <1>10, <1>e, <2>2 DEF RightOK, Admitted
  <2>4. DoneOK(now)'
    <3>1. q.did # {} => \/ q.admin \/ q.crossed \/ q.user \in joined
      BY <1>3, <1>4 DEF DoneOK
    <3>2. q.user = Unset /\ Unset \notin joined /\ owner \in Ids
      BY <1>0, <1>3, <1>u DEF UserOK, AccessInv, AccessTypeOK
    <3> QED
      BY <1>e, <1>u, <1>10, <3>1, <3>2 DEF DoneOK
  <2> QED
    BY <1>10, <2>1, <2>3, <2>4 DEF RequestOK
<1>12. \A p \in Requests : RequestOK(req[p])'
  <2> SUFFICES ASSUME NEW p \in Requests PROVE RequestOK(req[p])'
    OBVIOUS
  <2>0. PICK x : x = req'[p]
    OBVIOUS
  <2>1. p # r => RequestOK(x)
    BY <1>d, <2>0 DEF AccessInv, RequestsKnown
  <2>2. RequestOK(x)'
    BY <1>9, <1>11, <1>d, <2>0, <2>1
  <2> QED
    BY <2>0, <2>2
<1>13. SubjectsOK'
  <2>1. Anonymous \in super' /\ subject'[Anonymous] = Unset /\ subject'[Agent] = Unset
    BY <1>0, <1>5, <1>u, <1>c DEF AccessInv, SubjectsOK
  <2>2. \A j \in super' : j = Anonymous \/ subject'[j] # Unset
    <3> SUFFICES ASSUME NEW j \in super', j # Anonymous PROVE subject'[j] # Unset
      OBVIOUS
    <3>1. j = i \/ j \in super
      BY <1>0
    <3>2. CASE j = i
      BY <3>2, <1>1, <1>4, <1>5, <1>u
    <3>3. CASE j \in super
      BY <3>3, <1>c, <1>t, <1>4, <1>5, <1>u
    <3> QED
      BY <3>1, <3>2, <3>3
  <2>3. \A j, k \in Ids : Agent < j /\ j < k /\ subject'[k] # Unset => subject'[j] # Unset
    <3> SUFFICES ASSUME NEW j \in Ids, NEW k \in Ids, Agent < j, j < k, subject'[k] # Unset
                 PROVE  subject'[j] # Unset
      OBVIOUS
    <3>1. j \in Nat /\ k \in Nat
      BY <1>u
    <3>2. CASE k = i
      <4>1. j < i /\ j # i
        BY <3>1, <3>2, <1>1
      <4>2. subject[j] # Unset
        BY <4>1, <3>1, <1>1
      <4> QED
        BY <4>1, <4>2, <1>5
    <3>3. CASE k # i
      <4>1. subject[k] # Unset
        BY <3>3, <1>5
      <4>2. subject[j] # Unset
        BY <4>1 DEF AccessInv, SubjectsOK
      <4> QED
        BY <4>2, <1>4, <1>5, <1>u
    <3> QED
      BY <3>2, <3>3
  <2>4. q.who \notin together => Accounts(q.who) = {}
        /\ \A p \in Requests : req[p].at = "insert" /\ req[p].who = q.who => p = r
    BY <1>0 DEF AccessInv, SubjectsOK, q
  <2>5. \A s \in Subjects \ together' : \A j, k \in Accounts(s)' : j = k
    <3> SUFFICES ASSUME NEW s \in Subjects \ together, NEW j \in Accounts(s)', NEW k \in Accounts(s)'
                 PROVE  j = k
      BY <1>0
    <3>1. CASE s = q.who
      BY <3>1, <2>4, <1>7
    <3>2. CASE s # q.who
      BY <3>2, <1>7 DEF AccessInv, SubjectsOK
    <3> QED
      BY <3>1, <3>2
  <2>6. ASSUME NEW p \in Requests, req'[p].at = "insert", req'[p].who \notin together'
        PROVE  /\ Accounts(req[p].who)' = {}
               /\ \A o \in Requests : req'[o].at = "insert" /\ req'[o].who = req'[p].who => o = p
    <3>1. p # r /\ req'[p] = req[p] /\ req[p].who \notin together
      BY <1>0, <1>d, <1>10, <1>e, <2>6
    <3>2. /\ Accounts(req[p].who) = {}
          /\ \A o \in Requests : req[o].at = "insert" /\ req[o].who = req[p].who => o = p
      BY <3>1, <2>6 DEF AccessInv, SubjectsOK
    <3>3. req[p].who # q.who
      BY <1>0, <3>1, <3>2 DEF q
    <3>4. req[p].who \in Subjects
      BY <3>1, <2>6 DEF AccessInv, RequestsKnown, RequestOK, UserOK
    <3>5. PICK s : s = req[p].who
      OBVIOUS
    <3>6. Accounts(s)' = {}
      BY <1>7, <3>2, <3>3, <3>4, <3>5
    <3>7. Accounts(req[p].who)' = Accounts(s)'
      BY <3>1, <3>5 DEF Accounts
    <3>8. \A o \in Requests : req'[o].at = "insert" => req'[o] = req[o]
      BY <1>d, <1>10, <1>e
    <3> QED
      BY <3>1, <3>2, <3>6, <3>7, <3>8
  <2> QED
    BY <2>1, <2>2, <2>3, <2>5, <2>6 DEF SubjectsOK
<1>14. KeysOK'
  BY <1>0, <1>2 DEF AccessInv, KeysOK
<1>15. AccessTypeOK'
  <2>1. \A p \in Requests : req'[p].user \in Ids \cup {Unset} /\ req'[p].invited \in Ids \cup {Unset}
    BY <1>12 DEF RequestOK, RequestTypes
  <2>2. subject' \in [Ids -> Subjects \cup {Unset}] /\ super' \subseteq Ids
    BY <1>0, <1>1, <1>4, <1>t
  <2> QED
    BY <1>0, <1>2, <2>1, <2>2 DEF AccessInv, AccessTypeOK
<1> QED
  BY <1>2, <1>d, <1>12, <1>13, <1>14, <1>15 DEF AccessInv, RequestsKnown

\* The role of the token is stored: requests of the account with another one are crossed.
LEMMA SetRoleKeeps ==
  ASSUME AccessInv, NEW r \in Requests, SetRole(r) PROVE AccessInv'
<1> DEFINE q == req[r]
<1> DEFINE i == q.user
<1> DEFINE adm == q.admin
<1>0. /\ q.at = "role" /\ UNCHANGED <<keyVars, subject, chatVars, arrivals, together>>
      /\ \/ /\ super' = IF adm THEN super \cup {i} ELSE super \ {i}
            /\ req' = [Crossed(r, i, adm) EXCEPT ![r].at = Entry(q.op)]
         \/ /\ Goes(r, [q EXCEPT !.at = Entry(q.op), !.crossed = (i \in super) # adm])
            /\ UNCHANGED super
  BY DEF SetRole, At
<1>2. UNCHANGED <<sso, server, current, verifier, attempts, faults, subject, chat, owner, members,
                  joined, together>>
  BY <1>0 DEF keyVars, chatVars
<1>3. q \in RequestTypes /\ UserOK(q) /\ RightOK(q) /\ DoneOK(q)
  BY DEF AccessInv, RequestsKnown, RequestOK
<1>u. /\ Unset \notin Ids /\ Unset \notin Subjects /\ Unset # "forbidden" /\ Unset # "ok"
  BY UnsetApart, AccessAssumption
<1>4. /\ i = Account(q.who) /\ i \in Ids /\ i # Unset /\ q.who \in Subjects /\ ~q.made
      /\ q.op # "run" /\ q.invited = Unset /\ q.reply = Unset /\ adm \in BOOLEAN
      /\ subject[i] = q.who
  <2>1. i # Unset /\ q.who \in Subjects /\ ~q.made /\ q.op # "run" /\ q.invited = Unset
        /\ q.reply = Unset /\ adm \in BOOLEAN
    BY <1>0, <1>3 DEF UserOK, RightOK, DoneOK, RequestTypes
  <2>2. i = Account(q.who)
    BY <1>3, <2>1, <1>u DEF UserOK
  <2>3. i \in Accounts(q.who)
    BY <2>1, <2>2, AccountIsFirst
  <2> QED
    BY <2>1, <2>2, <2>3 DEF Accounts
<1>n. i # Anonymous
  BY <1>4, <1>u DEF AccessInv, SubjectsOK
<1>e. Entry(q.op) \in {"rights", "super"} /\ (Entry(q.op) = "rights" <=> q.op = "remove")
      /\ Entry(q.op) \in {"idle", "insert", "role", "done"} \cup Acting
  BY DEF Entry, Acting
<1>5. CASE Goes(r, [q EXCEPT !.at = Entry(q.op), !.crossed = (i \in super) # adm]) /\ UNCHANGED super
  <2> DEFINE crossed == (i \in super) # adm
  <2>1. crossed \in BOOLEAN /\ (~crossed => (i \in super <=> adm))
    BY <1>4
  <2> HIDE DEF q, crossed
  <2> DEFINE now == [q EXCEPT !.at = Entry(q.op), !.crossed = crossed]
  <2>2. /\ now \in RequestTypes
        /\ now.at = Entry(q.op) /\ now.op = q.op /\ now.who = q.who /\ now.admin = q.admin
        /\ now.user = q.user /\ now.target = q.target /\ now.invited = q.invited
        /\ now.reply = q.reply /\ now.made = q.made /\ now.crossed = crossed /\ now.did = q.did
    <3>1. /\ now \in RequestTypes /\ SameButStage(now, q)
          /\ now.at = Entry(q.op) /\ now.crossed = crossed /\ now.did = q.did
      <4> DEFINE at == Entry(q.op)
      <4>1. now = [q EXCEPT !.at = at, !.crossed = crossed]
        OBVIOUS
      <4>2. q \in RequestTypes
        BY <1>3
      <4>3. at \in {"idle", "insert", "role", "done"} \cup Acting
        BY <1>e
      <4>4. crossed \in BOOLEAN
        BY <2>1
      <4> HIDE DEF now, at
      <4>5. /\ now \in RequestTypes /\ SameButStage(now, q)
            /\ now.at = at /\ now.crossed = crossed /\ now.did = q.did
        BY <4>1, <4>2, <4>3, <4>4 DEF RequestTypes, SameButStage
      <4> QED
        BY <4>5 DEF at
    <3> QED
      BY <3>1 DEF SameButStage
  <2>3. Goes(r, now)
    BY <1>5 DEF crossed
  <2> HIDE DEF now
  <2>4. UserOK(now)
    BY <1>0, <1>3, <1>e, <1>4, <2>2 DEF UserOK
  <2>5. RightOK(now)
    BY <1>4, <1>e, <2>1, <2>2 DEF RightOK, Admitted
  <2>6. DoneOK(now)
    BY <1>0, <1>3, <1>4, <1>e, <1>u, <2>2 DEF DoneOK
  <2>7. Unchanged /\ UNCHANGED chatVars
    BY <1>0, <1>5 DEF Unchanged, userVars
  <2> QED
    BY <1>e, <2>2, <2>3, <2>4, <2>5, <2>6, <2>7, ChatStays DEF RequestOK
<1>6. CASE /\ super' = IF adm THEN super \cup {i} ELSE super \ {i}
           /\ req' = [Crossed(r, i, adm) EXCEPT ![r].at = Entry(q.op)]
  <2>1. DOMAIN req' = Requests /\ req'[r] = [q EXCEPT !.at = Entry(q.op)]
        /\ \A p \in Requests \ {r} :
             req'[p] = IF req[p].user = i /\ req[p].admin # adm /\ ~At(p, "role")
                       THEN [req[p] EXCEPT !.crossed = TRUE] ELSE req[p]
    BY <1>6 DEF Crossed
  <2>2. (i \in super' <=> adm) /\ \A j : j # i => (j \in super' <=> j \in super)
    BY <1>4, <1>6
  <2>3. \A s : Account(s)' = Account(s) /\ Accounts(s)' = Accounts(s)
    BY <1>2 DEF Account, Accounts
  <2>i. i = q.user
    OBVIOUS
  <2>4. RequestOK(req[r])'
    <3>0. PICK now : now = req'[r]
      OBVIOUS
    <3> HIDE DEF q
    <3>1. /\ now \in RequestTypes
          /\ now.at = Entry(q.op) /\ now.op = q.op /\ now.who = q.who /\ now.admin = q.admin
          /\ now.user = q.user /\ now.target = q.target /\ now.invited = q.invited
          /\ now.reply = q.reply /\ now.made = q.made /\ now.crossed = q.crossed /\ now.did = q.did
          /\ now.blind = q.blind
      BY <1>3, <1>e, <2>1, <3>0 DEF RequestTypes
    <3>2. UserOK(now)'
      BY <1>0, <1>2, <1>3, <1>e, <1>4, <2>3, <3>1 DEF UserOK, Registered
    <3>3. RightOK(now)'
      BY <1>4, <1>e, <2>2, <3>1 DEF RightOK, Admitted
    <3>4. DoneOK(now)'
      BY <1>0, <1>2, <1>3, <1>4, <1>e, <1>u, <3>1 DEF DoneOK
    <3> QED
      BY <3>0, <3>1, <3>2, <3>3, <3>4 DEF RequestOK
  <2>5. ASSUME NEW p \in Requests \ {r}
        PROVE  RequestOK(req[p])' /\ req'[p].at = req[p].at /\ req'[p].who = req[p].who
    <3> DEFINE o == req[p]
    <3>0. PICK now : now = req'[p]
      OBVIOUS
    <3>1. o \in RequestTypes /\ UserOK(o) /\ RightOK(o) /\ DoneOK(o)
      BY DEF AccessInv, RequestsKnown, RequestOK
    <3>2. now = o \/ now = [o EXCEPT !.crossed = TRUE]
      BY <2>1, <3>0
    <3>c. o.at # "role" /\ o.user = i /\ o.admin # adm => now = [o EXCEPT !.crossed = TRUE]
      BY <2>1, <3>0 DEF At
    <3> HIDE DEF o, q
    <3>3. /\ now \in RequestTypes
          /\ now.at = o.at /\ now.op = o.op /\ now.who = o.who /\ now.admin = o.admin
          /\ now.user = o.user /\ now.target = o.target /\ now.invited = o.invited
          /\ now.reply = o.reply /\ now.made = o.made /\ now.did = o.did
          /\ now.blind = o.blind
          /\ o.crossed => now.crossed
      <4>1. CASE now = o
        BY <3>1, <4>1
      <4>2. CASE now = [o EXCEPT !.crossed = TRUE]
        <5>1. /\ now \in RequestTypes /\ SameButStage(now, o)
              /\ now.at = o.at /\ now.crossed = TRUE /\ now.did = o.did
          BY <3>1, <4>2, RequestCrossed
        <5> QED
          BY <5>1 DEF SameButStage
      <4> QED
        BY <3>2, <4>1, <4>2
    <3>4. o.at \in Acting /\ ~now.crossed => o.user # i \/ o.admin = adm
      <4>1. "role" \notin Acting
        BY DEF Acting
      <4>2. [o EXCEPT !.crossed = TRUE].crossed = TRUE
        BY <3>1 DEF RequestTypes
      <4> QED
        BY <3>c, <4>1, <4>2
    <3>5. UserOK(now)'
      BY <1>2, <2>3, <3>1, <3>3 DEF UserOK, Registered
    <3>6. RightOK(now)'
      <4>1. o.at \in Acting /\ o.op # "run" /\ ~now.crossed => (o.user \in super' <=> o.admin)
        BY <2>2, <3>1, <3>3, <3>4 DEF RightOK
      <4> QED
        BY <1>2, <3>1, <3>3, <4>1 DEF RightOK
    <3>7. DoneOK(now)'
      BY <1>2, <3>1, <3>3 DEF DoneOK
    <3> QED
      BY <3>0, <3>3, <3>5, <3>6, <3>7 DEF RequestOK, o
  <2>6. \A p \in Requests : RequestOK(req[p])'
    BY <2>4, <2>5
  <2>7. req'[r].at # "insert"
    BY <1>e, <2>1, <1>3 DEF RequestTypes
  <2>8. SubjectsOK'
    <3>1. Anonymous \in super' /\ \A j \in super' : j = Anonymous \/ subject[j] # Unset
      BY <1>4, <1>n, <1>u, <2>2 DEF AccessInv, SubjectsOK
    <3>2. \A p \in Requests : req'[p].at = "insert" => req[p].at = "insert" /\ req'[p].who = req[p].who
      BY <2>5, <2>7
    <3>3. \A p \in Requests : Accounts(req[p].who)' = Accounts(req'[p].who)
      BY <1>2 DEF Accounts
    <3> QED
      BY <1>2, <2>3, <3>1, <3>2, <3>3 DEF AccessInv, SubjectsOK
  <2>9. KeysOK'
    BY <1>0, <1>2 DEF AccessInv, KeysOK
  <2>10. AccessTypeOK'
    <3>1. \A p \in Requests : req'[p].user \in Ids \cup {Unset} /\ req'[p].invited \in Ids \cup {Unset}
      BY <2>6 DEF RequestOK, RequestTypes
    <3>2. super' \subseteq Ids
      BY <1>4, <1>6 DEF AccessInv, AccessTypeOK
    <3> QED
      BY <1>0, <1>2, <3>1, <3>2 DEF AccessInv, AccessTypeOK
  <2> QED
    BY <1>2, <2>1, <2>6, <2>8, <2>9, <2>10 DEF AccessInv, RequestsKnown
<1> QED
  BY <1>0, <1>5, <1>6

\* Keys.
LEMMA KeysKeep ==
  ASSUME AccessInv, UNCHANGED <<sso, userVars, chatVars, req, arrivals, together>>, KeysOK',
         server' \in {"starting", "up", "failed"},
         verifier' = Unset \/ verifier' \subseteq 1..current', attempts' \in 0..MaxAttempts,
         faults' + arrivals \in 0..MaxEvents
  PROVE  AccessInv'
<1>1. UNCHANGED <<sso, subject, super, chat, owner, members, joined, req, arrivals, together>>
  BY DEF userVars, chatVars
<1>2. \A s : Account(s)' = Account(s) /\ Accounts(s)' = Accounts(s)
  BY <1>1 DEF Account, Accounts
<1>3. \A p \in Requests : RequestOK(req[p])'
  <2> SUFFICES ASSUME NEW p \in Requests PROVE RequestOK(req[p])'
    OBVIOUS
  <2>0. PICK x : x = req[p]
    OBVIOUS
  <2>1. x \in RequestTypes /\ UserOK(x) /\ RightOK(x) /\ DoneOK(x)
    BY <2>0 DEF AccessInv, RequestsKnown, RequestOK
  <2>2. UserOK(x)'
    BY <1>1, <1>2, <2>1 DEF UserOK, Registered
  <2>3. RightOK(x)'
    BY <1>1, <2>1 DEF RightOK
  <2>4. DoneOK(x)'
    BY <1>1, <2>1 DEF DoneOK
  <2> QED
    BY <1>1, <2>0, <2>1, <2>2, <2>3, <2>4 DEF RequestOK
<1>4. SubjectsOK'
  BY <1>1 DEF AccessInv, SubjectsOK, Accounts
<1>5. AccessTypeOK'
  BY <1>1 DEF AccessInv, AccessTypeOK
<1> QED
  BY <1>1, <1>3, <1>4, <1>5 DEF AccessInv, RequestsKnown

LEMMA KeyStepKeeps ==
  ASSUME AccessInv, NewKey \/ FetchKeys \/ RefreshKeys \/ RefreshFails PROVE AccessInv'
<1>t. /\ server \in {"starting", "up", "failed"} /\ (verifier = Unset \/ verifier \subseteq 1..current)
      /\ attempts \in 0..MaxAttempts /\ faults + arrivals \in 0..MaxEvents
      /\ sso \in BOOLEAN /\ current \in 1..faults + 1 /\ faults \in Nat /\ arrivals \in Nat
      /\ (server = "starting" => attempts < MaxAttempts)
      /\ (sso /\ server = "up" => verifier # Unset)
      /\ MaxAttempts \in Nat \ {0} /\ MaxEvents \in Nat
  BY AccessAssumption DEF AccessInv, AccessTypeOK, KeysOK
<1>1. {current} # Unset /\ {} # Unset /\ {current} \subseteq 1..current
  <2>1. current \in 1..MaxEvents + 1
    BY <1>t
  <2>2. {current} \in SUBSET (1..MaxEvents + 1)
    BY <2>1
  <2>3. current \in 1..current
    BY <2>1
  <2> QED
    BY <2>2, <2>3, AccessAssumption
<1>2. Fault => faults' = faults + 1 /\ faults' + arrivals \in 0..MaxEvents /\ faults' \in Nat
  BY <1>t DEF Fault
<1>3. CASE NewKey
  <2>1. current' = current + 1 /\ faults' = faults + 1 /\ faults' + arrivals \in 0..MaxEvents
        /\ UNCHANGED <<sso, server, verifier, attempts, userVars, chatVars, req, arrivals, together>>
    BY <1>2, <1>3 DEF NewKey
  <2>2. current' \in 1..faults' + 1 /\ 1..current \subseteq 1..current'
    BY <1>t, <2>1
  <2> QED
    BY <1>t, <2>1, <2>2, KeysKeep DEF KeysOK
<1>4. CASE FetchKeys
  <2>1. server = "starting" /\ UNCHANGED <<sso, current, userVars, chatVars, req, arrivals, together>>
    BY <1>4 DEF FetchKeys
  <2>2. CASE verifier' = {current} /\ server' = "up" /\ UNCHANGED <<attempts, faults>>
    BY <1>t, <1>1, <2>1, <2>2, KeysKeep DEF KeysOK
  <2>3. CASE Fault /\ verifier' = {} /\ server' = "up" /\ UNCHANGED attempts
    BY <1>t, <1>1, <1>2, <2>1, <2>3, KeysKeep DEF KeysOK
  <2>4. CASE Fault /\ server' = "failed" /\ UNCHANGED <<attempts, verifier>>
    BY <1>t, <1>1, <1>2, <2>1, <2>4, KeysKeep DEF KeysOK
  <2>5. CASE /\ Fault /\ attempts' = attempts + 1
             /\ server' = IF attempts' = MaxAttempts THEN "failed" ELSE server
             /\ UNCHANGED verifier
    <3>1. attempts' \in 0..MaxAttempts /\ (server' = "starting" => attempts' < MaxAttempts)
          /\ server' \in {"starting", "failed"}
      BY <1>t, <2>1, <2>5
    <3> QED
      BY <1>t, <1>2, <2>1, <2>5, <3>1, KeysKeep DEF KeysOK
  <2> QED
    BY <1>4, <2>2, <2>3, <2>4, <2>5 DEF FetchKeys
<1>5. CASE RefreshKeys
  BY <1>t, <1>1, <1>5, KeysKeep DEF RefreshKeys, KeysOK
<1>6. CASE RefreshFails
  <2>1. Fault /\ verifier' \in {{}, verifier} /\ server = "up" /\ verifier # Unset
        /\ UNCHANGED <<sso, server, current, attempts, userVars, chatVars, req, arrivals, together>>
    BY <1>6 DEF RefreshFails
  <2>2. verifier' # Unset /\ verifier' \subseteq 1..current
    BY <1>t, <1>1, <2>1
  <2>3. current \in 1..faults' + 1
    BY <1>t, <1>2, <2>1
  <2> QED
    BY <1>t, <1>2, <2>1, <2>2, <2>3, KeysKeep DEF KeysOK
<1> QED
  BY <1>3, <1>4, <1>5, <1>6

LEMMA AccessInitially ==
  ASSUME InitAccess PROVE AccessInv
<1>u. /\ Unset \notin Ids /\ Unset \notin Subjects
      /\ Anonymous \in Ids /\ Agent \in Ids /\ Agent + 1 \in Ids /\ Ids \subseteq Nat
      /\ Anonymous # Agent + 1 /\ Agent # Agent + 1
      /\ MaxAttempts \in Nat \ {0} /\ MaxEvents \in Nat
  BY UnsetApart, AccessAssumption DEF Anonymous, Agent
<1>1. PICK s \in Subjects :
        subject = [i \in Ids |-> IF sso /\ i = Agent + 1 THEN s ELSE Unset]
  BY DEF InitAccess
<1>2. RequestsKnown
  BY IdleOK DEF InitAccess, RequestsKnown
<1>3. SubjectsOK
  <2>1. subject[Anonymous] = Unset /\ subject[Agent] = Unset
    BY <1>1, <1>u
  <2>2. \A i, j \in Ids : Agent < i /\ i < j /\ subject[j] # Unset => subject[i] # Unset
    <3> SUFFICES ASSUME NEW i \in Ids, NEW j \in Ids, Agent < i, i < j, subject[j] # Unset
                 PROVE  FALSE
      OBVIOUS
    <3>1. j = Agent + 1
      BY <1>1
    <3> QED
      BY <3>1, <1>u DEF Agent
  <2>3. \A t \in Subjects : \A i, j \in Accounts(t) : i = j
    BY <1>1, <1>u DEF Accounts
  <2>4. \A r \in Requests : req[r].at # "insert"
    BY DEF InitAccess, Idle
  <2> QED
    BY <2>1, <2>2, <2>3, <2>4 DEF InitAccess, SubjectsOK
<1>4. KeysOK
  BY <1>u DEF InitAccess, KeysOK
<1>5. AccessTypeOK
  <2>1. owner \in Ids
    BY <1>u DEF InitAccess
  <2>2. subject \in [Ids -> Subjects \cup {Unset}]
    BY <1>1
  <2>3. \A r \in Requests : req[r].user = Unset /\ req[r].invited = Unset
    BY DEF InitAccess, Idle
  <2>4. 0 \in 0..MaxAttempts /\ 0 + 0 \in 0..MaxEvents
    BY <1>u
  <2>5. super \subseteq Ids
    BY <1>u DEF InitAccess
  <2> QED
    BY <2>1, <2>2, <2>3, <2>4, <2>5 DEF InitAccess, AccessTypeOK
<1>6. owner \in joined /\ joined \subseteq Ids
  BY <1>u DEF InitAccess
<1> QED
  BY <1>2, <1>3, <1>4, <1>5, <1>6 DEF AccessInv

LEMMA AccessStep ==
  ASSUME AccessInv, [NextAccess]_accessVars PROVE AccessInv'
<1>1. CASE NewKey \/ FetchKeys \/ RefreshKeys \/ RefreshFails
  BY <1>1, KeyStepKeeps
<1>2. ASSUME NEW r \in Requests, NEW s \in Subjects, NEW op \in Ops, Arrive(r, s, op)
      PROVE  AccessInv'
  BY <1>2, ArriveKeeps
<1>3. ASSUME NEW r \in Requests, StartRun(r) PROVE AccessInv'
  BY <1>3, StartRunKeeps
<1>4. ASSUME NEW r \in Requests, Handle(r) PROVE AccessInv'
  BY <1>4, InsertUserKeeps, SetRoleKeeps, CheckSuperKeeps, CheckOpenKeeps, CheckMemberKeeps,
     CheckAddKeeps, AddParticipantKeeps, CheckRightsKeeps, RemoveParticipantKeeps, EndKeeps,
     CheckSendKeeps, WriteKeeps DEF Handle
<1>5. CASE UNCHANGED accessVars
  <2>1. UNCHANGED <<sso, userVars, chatVars, req, arrivals, together, server, verifier, attempts,
                    current, faults>>
    BY <1>5 DEF accessVars, keyVars
  <2>2. KeysOK'
    BY <2>1 DEF AccessInv, KeysOK
  <2> QED
    BY <2>1, <2>2, KeysKeep DEF AccessInv, AccessTypeOK
<1> QED
  BY <1>1, <1>2, <1>3, <1>4, <1>5, Zenon DEF NextAccess

\* Accounts, roles and requests under way agree with each other (the strengthening of
\* AccountsOK and RightsOK that is inductive).
THEOREM AccessInvariant == SpecAccess => []AccessInv
<1> QED
  BY AccessInitially, AccessStep, PTL DEF SpecAccess

\* A subject has one account unless two of its first requests crossed, all later requests
\* agree on the first one, and with SSO nobody is the anonymous super-user.
THEOREM AccountsOKCorrect == SpecAccess => []AccountsOK
<1>1. AccessInv => AccountsOK
  <2> SUFFICES ASSUME AccessInv PROVE AccountsOK
    OBVIOUS
  <2>1. \A s \in Subjects : s \notin together => Cardinality(Accounts(s)) <= 1
    <3> SUFFICES ASSUME NEW s \in Subjects, s \notin together PROVE Cardinality(Accounts(s)) <= 1
      OBVIOUS
    <3>1. \A i, j \in Accounts(s) : i = j
      BY DEF AccessInv, SubjectsOK
    <3>2. CASE Accounts(s) = {}
      BY <3>2, FS_EmptySet
    <3>3. CASE Accounts(s) # {}
      <4>1. PICK i : i \in Accounts(s)
        BY <3>3
      <4>2. Accounts(s) = {i}
        BY <3>1, <4>1
      <4>3. Cardinality({i}) = 1
        BY FS_Singleton
      <4> QED
        BY <4>2, <4>3
    <3> QED
      BY <3>2, <3>3
  <2>2. \A r \in Requests : UserOK(req[r])
    BY DEF AccessInv, RequestsKnown, RequestOK
  <2> QED
    BY <2>1, <2>2 DEF AccountsOK, OneAccount, NeverAnonymous, UserOK, AccessInv
<1> QED
  BY <1>1, AccessInvariant, PTL

\* What a request does, it does by the role in its own token, as the owner or as one who
\* took part, unless roles crossed; nobody who may is refused unless roles crossed or a
\* query about the right failed; and who is said to be invited was a participant.
THEOREM RightsOKCorrect == SpecAccess => []RightsOK
<1>1. AccessInv => RightsOK
  <2> SUFFICES ASSUME AccessInv PROVE RightsOK
    OBVIOUS
  <2>1. \A r \in Requests : DoneOK(req[r])
    BY DEF AccessInv, RequestsKnown, RequestOK
  <2> QED
    BY <2>1 DEF RightsOK, ActsByOwnRight, RightsAreGranted, InvitedIsTrue, DoneOK
<1> QED
  BY <1>1, AccessInvariant, PTL
=============================================================================
