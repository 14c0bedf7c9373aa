------------------------------ MODULE Startup -------------------------------
(***************************************************************************)
(* The start of the processes over one SQLite file: the HTTP server and    *)
(* the agent runtime both open the two stores (main.rs, runtime.rs), that  *)
(* is, both create the tables and migrate an old database (TraceStore::new *)
(* in trace.rs, ChatStore::new in chat/mod.rs).                            *)
(*                                                                         *)
(* The statements are not in a transaction: the processes interleave       *)
(* between any two of them, and a process may stop anywhere and be started *)
(* again.  A migration reads the columns of a table and then alters it; an *)
(* alteration that another process has made meanwhile is an error that     *)
(* ends the start.  Only columns that some migration is about are listed.  *)
(* The database they open may be of any version between the first and the  *)
(* present one, or new.                                                    *)
(***************************************************************************)
EXTENDS Integers, Sequences, FiniteSets

CONSTANTS
  Processes,
  MaxStops,    \* bound on the times a process is killed
  NoTable,
  Databases    \* what the processes may find: its columns, and the data (see Served)

VARIABLES
  columns,     \* columns[t]: the columns of table t, None when there is no table
  text,        \* content of a record of the old catalogue: see Texts
  sessions,    \* is the session of the old chat in the table sessions?
  anonymous,   \* number of anonymous users
  status, step, seen,  \* of each process: how far it is, and the columns it has read
  stops,       \* number of kills
  raced,       \* history: processes overtaken between a reading and its use
  torn         \* history: a start ended between adding content and filling it

startupVars == <<columns, text, sessions, anonymous, status, step, seen, stops, raced, torn>>
data == <<text, sessions, anonymous>>

\* The text of a record that an old database keeps in the table of versions.
Texts == {"version", "empty", "filled", "edited"}

-----------------------------------------------------------------------------
(* What the stores do when they are opened.                                *)

Create(tables) == [do |-> "create", tables |-> tables]
Read(t, about) == [do |-> "read", table |-> t, about |-> about]
Add(t, c) == [do |-> "add", table |-> t, column |-> c]
Rename(t, old, new) == [do |-> "rename", table |-> t, old |-> old, new |-> new]
Index(t, c) == [do |-> "index", table |-> t, column |-> c]
Do(action) == [do |-> action]
Ensure(t, c) == <<Read(t, {c}), Add(t, c)>>

\* Tables of the agents' side.
TraceTables ==
  <<Create([human_requests |-> {"chat_id", "question_message_id", "agent_name"},
            projects |-> {"git_url"}]),
    Read("projects", {"compose_path", "git_url"}),
    Rename("projects", "compose_path", "git_url"),
    Read("agents", {"allowed_commands", "tools"}),
    Rename("agents", "allowed_commands", "tools"),
    Create([capabilities |-> {"content", "deleted"}])>>

\* migrate_capabilities_columns: the columns are read once for all its steps.
CapabilityColumns ==
  <<Read("capabilities", {"content", "deleted"}), Add("capabilities", "content"), Do("fill"),
    Add("capabilities", "deleted")>>

HistoryAndLlms ==
  <<Create([capability_history |-> {"content"}])>> \o Ensure("capability_history", "content") \o
  <<Create([llm_connections |-> {"model", "is_default", "native_tools"}]),
    Read("llm_connections", {"model", "is_default", "native_tools"}),
    Add("llm_connections", "model"), Add("llm_connections", "is_default"),
    Add("llm_connections", "native_tools"),
    Index("llm_connections", "is_default")>>

AgentTables ==
  <<Create([agents |-> {"tools", "llm_id", "listen_user_id"}])>> \o
  Ensure("agents", "llm_id") \o Ensure("agents", "listen_user_id") \o
  <<Read("human_requests", {"chat_id", "question_message_id", "agent_name"}),
    Add("human_requests", "chat_id"),
    Add("human_requests", "question_message_id"), Add("human_requests", "agent_name")>>

\* After the tables of agents: the cascade needs them.
RemoveCommands == <<Do("remove")>>

ChatTables ==
  <<Create([workstations |-> {"secret", "current_session_id"}, chats |-> {"start_message_id"},
            messages |-> {"title", "thread_of_id", "hidden", "origin"},
            chat_sessions |-> {}])>>

ChatColumns ==
  Ensure("workstations", "secret") \o Ensure("workstations", "current_session_id") \o
  Ensure("chats", "start_message_id") \o Ensure("messages", "title") \o
  Ensure("messages", "thread_of_id") \o Ensure("messages", "hidden") \o
  Ensure("messages", "origin") \o Ensure("messages", "kind") \o Ensure("messages", "tool_call")

\* migrate_sessions copies the sessions out of chats, then a column is dropped.
MigrateSessions ==
  <<Read("chats", {"workstation_id"}), Read("workstations", {"project_id"}), Do("sessions")>>
DropProject == <<Read("workstations", {"project_id"}), Do("drop")>>
EnsureAnonymous == <<Do("find"), Do("insert")>>

RemoveFirst ==                     \* faulty variant: before the tables of agents
  TraceTables \o CapabilityColumns \o RemoveCommands \o HistoryAndLlms \o AgentTables \o
  ChatTables \o ChatColumns \o MigrateSessions \o DropProject \o EnsureAnonymous

DropFirst ==                       \* faulty variant: drops what is still to be copied
  TraceTables \o CapabilityColumns \o HistoryAndLlms \o AgentTables \o RemoveCommands \o
  ChatTables \o ChatColumns \o DropProject \o MigrateSessions \o EnsureAnonymous

\* TraceStore::new, then ChatStore::new.
Plan ==
  TraceTables \o CapabilityColumns \o HistoryAndLlms \o AgentTables \o RemoveCommands \o
  ChatTables \o ChatColumns \o MigrateSessions \o DropProject \o EnsureAnonymous

\* What the code uses once the stores are open.
Required ==
  [human_requests |-> {"chat_id", "question_message_id", "agent_name"},
   projects |-> {"git_url"}, capabilities |-> {"content", "deleted"},
   capability_history |-> {"content"},
   llm_connections |-> {"model", "is_default", "native_tools"},
   agents |-> {"tools", "llm_id", "listen_user_id"},
   workstations |-> {"secret", "current_session_id"}, chats |-> {"start_message_id"},
   messages |-> {"title", "thread_of_id", "hidden", "origin", "kind", "tool_call"},
   chat_sessions |-> {}]

Tables == DOMAIN Required

\* Columns of the first version that the migrations look for.
OldNames == {"compose_path", "allowed_commands", "workstation_id", "project_id"}

ASSUME StartupAssumption ==
  /\ IsFiniteSet(Processes) /\ Processes # {} /\ MaxStops \in Nat
  /\ \A t \in Tables : \A s \in SUBSET (Required[t] \cup OldNames) : s # NoTable

\* What is in a database that the migrations are for: its tables have any of their
\* columns, but the two that were renamed have one of their names; a record has its
\* text in the table of versions or in the column content; what is not in sessions
\* yet is where migrate_sessions looks for it.
Served(db) ==
  /\ DOMAIN db.columns = Tables
  /\ \A t \in Tables : \/ db.columns[t] = NoTable
                       \/ db.columns[t] \subseteq Required[t] \cup OldNames
  /\ db.columns["projects"] # NoTable => db.columns["projects"] \cap {"compose_path", "git_url"} # {}
  /\ db.columns["agents"] # NoTable => db.columns["agents"] \cap {"allowed_commands", "tools"} # {}
  /\ db.text \in Texts \ {"empty"}
  /\ db.text = "version" <=> /\ db.columns["capabilities"] # NoTable
                             /\ "content" \notin db.columns["capabilities"]
  /\ db.sessions \in BOOLEAN
  /\ ~db.sessions => /\ db.columns["chats"] # NoTable /\ db.columns["workstations"] # NoTable
                     /\ "workstation_id" \in db.columns["chats"]
                     /\ "project_id" \in db.columns["workstations"]
  /\ db.anonymous \in 0..Cardinality(Processes)

ASSUME DatabasesAssumption == \A db \in Databases : Served(db)

-----------------------------------------------------------------------------
(* Steps of a process.                                                     *)

Doing(p, action) == status[p] = "starting" /\ Plan[step[p]].do = action
This(p) == Plan[step[p]]

\* The next statement, or the end of the start.
Advance(p) ==
  IF step[p] = Len(Plan)
    THEN status' = [status EXCEPT ![p] = "serving"] /\ step' = [step EXCEPT ![p] = 1]
    ELSE step' = [step EXCEPT ![p] = @ + 1] /\ UNCHANGED status

Known(p, t, c) == <<t, c>> \in seen[p]

\* Is a process between the column content and its filling?
Filling(p) ==
  Doing(p, "fill") /\ ~Known(p, "capabilities", "content")

\* The start ends with an error; the process is started again from outside.
Break(p) ==
  /\ status' = [status EXCEPT ![p] = "down"] /\ step' = [step EXCEPT ![p] = 1]
  /\ torn' = (torn \/ Filling(p))

\* What the others have read may be out of date now.
Overtake(p) == raced' = raced \cup {o \in Processes \ {p} : status[o] = "starting"}

CreateTables(p) ==
  /\ Doing(p, "create")
  /\ LET new == This(p).tables IN
     columns' = [t \in Tables |-> IF t \in DOMAIN new /\ columns[t] = NoTable
                                  THEN new[t] ELSE columns[t]]
  /\ Advance(p)
  /\ UNCHANGED <<data, seen, stops, raced, torn>>

\* PRAGMA table_info, of which the columns that are looked for are kept until the next
\* migration reads; no rows for a table that is not there.
ReadColumns(p) ==
  /\ Doing(p, "read")
  /\ LET t == This(p).table
         found == IF columns[t] = NoTable THEN {} ELSE columns[t] \cap This(p).about
         kept == IF step[p] > 1 /\ Plan[step[p] - 1].do = "read" THEN seen[p] ELSE {} IN
     seen' = [seen EXCEPT ![p] = kept \cup {<<t, c>> : c \in found}]
  /\ Advance(p)
  /\ UNCHANGED <<columns, data, stops, raced, torn>>

AddBlindly(p) ==                   \* faulty variant: what was read is not looked at
  /\ Doing(p, "add")
  /\ LET t == This(p).table  c == This(p).column IN
     IF c \in columns[t]
       THEN Break(p) /\ UNCHANGED <<columns, raced>>
       ELSE columns' = [columns EXCEPT ![t] = @ \cup {c}]
            /\ Advance(p) /\ Overtake(p) /\ UNCHANGED torn
  /\ UNCHANGED <<data, seen, stops>>

\* ALTER TABLE ADD COLUMN, refused when the column is there by now.  The records get
\* the default of the column.
AddColumn(p) ==
  /\ Doing(p, "add")
  /\ LET t == This(p).table  c == This(p).column IN
     CASE Known(p, t, c) -> Advance(p) /\ UNCHANGED <<columns, text, raced, torn>>
       [] ~Known(p, t, c) /\ c \in columns[t] ->
            Break(p) /\ UNCHANGED <<columns, text, raced>>
       [] OTHER ->
            /\ columns' = [columns EXCEPT ![t] = @ \cup {c}]
            /\ text' = IF <<t, c>> = <<"capabilities", "content">> THEN "empty" ELSE text
            /\ Advance(p) /\ Overtake(p) /\ UNCHANGED torn
  /\ UNCHANGED <<sessions, anonymous, seen, stops>>

RenameColumn(p) ==
  /\ Doing(p, "rename")
  /\ LET t == This(p).table  old == This(p).old  new == This(p).new IN
     CASE ~Known(p, t, old) \/ Known(p, t, new) -> Advance(p) /\ UNCHANGED <<columns, raced, torn>>
       [] Known(p, t, old) /\ ~Known(p, t, new) /\ old \notin columns[t] ->
            Break(p) /\ UNCHANGED <<columns, raced>>
       [] OTHER -> /\ columns' = [columns EXCEPT ![t] = (@ \ {old}) \cup {new}]
                   /\ Advance(p) /\ Overtake(p) /\ UNCHANGED torn
  /\ UNCHANGED <<data, seen, stops>>

\* CREATE INDEX needs its column.
CreateIndex(p) ==
  /\ Doing(p, "index")
  /\ IF This(p).column \in columns[This(p).table]
       THEN Advance(p) /\ UNCHANGED torn ELSE Break(p)
  /\ UNCHANGED <<columns, data, seen, stops, raced>>

\* The text of the last version, whatever is in the column by now.
FillTexts(p) ==
  /\ Doing(p, "fill")
  /\ text' = IF Known(p, "capabilities", "content") THEN text ELSE "filled"
  /\ Advance(p)
  /\ UNCHANGED <<columns, sessions, anonymous, seen, stops, raced, torn>>

\* migrate_remove_command_capabilities: the cascade reads agent_capabilities, whose
\* foreign key needs the table agents.
RemoveCommandRecords(p) ==
  /\ Doing(p, "remove")
  /\ IF columns["agents"] # NoTable THEN Advance(p) /\ UNCHANGED torn ELSE Break(p)
  /\ UNCHANGED <<columns, data, seen, stops, raced>>

\* migrate_sessions, when both columns were there.
CopySessions(p) ==
  /\ Doing(p, "sessions")
  /\ IF Known(p, "chats", "workstation_id") /\ Known(p, "workstations", "project_id")
       THEN IF "project_id" \in columns["workstations"]
              THEN sessions' = TRUE /\ Advance(p) /\ UNCHANGED torn
              ELSE Break(p) /\ UNCHANGED sessions
       ELSE Advance(p) /\ UNCHANGED <<sessions, torn>>
  /\ UNCHANGED <<columns, text, anonymous, seen, stops, raced>>

\* drop_workstation_project_id.
DropColumn(p) ==
  /\ Doing(p, "drop")
  /\ IF Known(p, "workstations", "project_id")
       THEN IF "project_id" \in columns["workstations"]
              THEN /\ columns' = [columns EXCEPT !["workstations"] = @ \ {"project_id"}]
                   /\ Advance(p) /\ Overtake(p) /\ UNCHANGED torn
              ELSE Break(p) /\ UNCHANGED <<columns, raced>>
       ELSE Advance(p) /\ UNCHANGED <<columns, raced, torn>>
  /\ UNCHANGED <<data, seen, stops>>

\* user_exists_by_kind, then insert_user.
FindAnonymous(p) ==
  /\ Doing(p, "find")
  /\ seen' = [seen EXCEPT ![p] = IF anonymous > 0 THEN {<<"users", "anonymous">>} ELSE {}]
  /\ Advance(p)
  /\ UNCHANGED <<columns, data, stops, raced, torn>>

InsertAnonymous(p) ==
  /\ Doing(p, "insert")
  /\ IF Known(p, "users", "anonymous")
       THEN UNCHANGED <<anonymous, raced>>
       ELSE anonymous' = anonymous + 1 /\ Overtake(p)
  /\ Advance(p)
  /\ UNCHANGED <<columns, text, sessions, seen, stops, torn>>

-----------------------------------------------------------------------------
(* The processes and their environment.                                    *)

Start(p) ==
  /\ status[p] = "down"
  /\ status' = [status EXCEPT ![p] = "starting"]
  /\ seen' = [seen EXCEPT ![p] = {}]
  /\ raced' = raced \ {p}
  /\ UNCHANGED <<columns, data, step, stops, torn>>

Kill(p) ==
  /\ status[p] # "down" /\ stops < MaxStops
  /\ stops' = stops + 1
  /\ Break(p)
  /\ UNCHANGED <<columns, data, seen, raced>>

\* A person edits the record over a server that has started.
Edit(p) ==
  /\ status[p] = "serving"
  /\ text' = "edited"
  /\ UNCHANGED <<columns, sessions, anonymous, status, step, seen, stops, raced, torn>>

Step(p) ==
  \/ CreateTables(p) \/ ReadColumns(p) \/ AddColumn(p) \/ RenameColumn(p)
  \/ CreateIndex(p) \/ FillTexts(p) \/ RemoveCommandRecords(p)
  \/ CopySessions(p) \/ DropColumn(p) \/ FindAnonymous(p) \/ InsertAnonymous(p)

InitStartup ==
  /\ \E db \in Databases :
       /\ columns = db.columns /\ text = db.text
       /\ sessions = db.sessions /\ anonymous = db.anonymous
  /\ status = [p \in Processes |-> "down"]
  /\ step = [p \in Processes |-> 1]
  /\ seen = [p \in Processes |-> {}]
  /\ stops = 0 /\ raced = {} /\ torn = FALSE

NextStartup == \E p \in Processes : Step(p) \/ Start(p) \/ Kill(p) \/ Edit(p)

SpecStartup == InitStartup /\ [][NextStartup]_startupVars

\* A process that is down is started again, and a start goes on.
FairStartup == SpecStartup /\ \A p \in Processes : WF_startupVars(Step(p) \/ Start(p))

-----------------------------------------------------------------------------
(* Properties.                                                             *)

Serving == {p \in Processes : status[p] = "serving"}

StartupTypeOK ==
  /\ \A t \in Tables : columns[t] = NoTable \/ columns[t] \subseteq Required[t] \cup OldNames
  /\ text \in Texts /\ sessions \in BOOLEAN /\ anonymous \in Nat
  /\ \A p \in Processes : status[p] \in {"down", "starting", "serving"} /\ step[p] \in 1..Len(Plan)
  /\ stops \in 0..MaxStops /\ raced \subseteq Processes

\* Whatever the database was, and whoever altered it in between, a process that serves
\* finds every column it uses.
ServesWholeSchema ==
  Serving # {} => \A t \in Tables : columns[t] # NoTable /\ Required[t] \subseteq columns[t]

\* The texts of an old catalogue are filled in by the time a process serves, unless a
\* start ended between adding the column and filling it, or another process is there
\* right now: the column is there, so nobody fills it later.
OldTextsKept ==
  Serving # {} => text # "empty" \/ torn \/ \E p \in Processes : Filling(p)

\* The sessions of an old database are copied before the column they are copied from
\* is dropped, wherever the starts stopped and interleaved.
SessionsKept == Serving # {} => sessions

\* There is an anonymous user when a process serves, and however often the processes are
\* started and killed, there are never more of them than processes: there are two only
\* if two starts found none at the same time.
OneAnonymous ==
  /\ Serving # {} => anonymous > 0
  /\ anonymous <= Cardinality(Processes)

\* A process that serves has the whole schema and the data of the old one, but for what
\* OldTextsKept and OneAnonymous except.
OldDataServed ==
  StartupTypeOK /\ ServesWholeSchema /\ OldTextsKept /\ SessionsKept /\ OneAnonymous

\* A start breaks off by itself only when another process altered the database after the
\* start began; alone, it goes through on every database.
BreaksOnlyWhenRaced ==
  [][\A p \in Processes :
       status[p] = "starting" /\ status'[p] = "down" /\ stops' = stops => p \in raced]_startupVars

\* In the end all processes serve, whatever the races and kills.
AllServe == <>[](Serving = Processes)
=============================================================================
