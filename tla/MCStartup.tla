----------------------------- MODULE MCStartup ------------------------------
(* Instances of Startup for TLC.                                              *)
EXTENDS Startup, TLC

\* The versions of the schema, in the order in which the migrations were written.
First ==
  [t \in Tables |-> CASE t = "projects" -> {"compose_path"}
                      [] t = "agents" -> {"allowed_commands"}
                      [] t = "chats" -> {"workstation_id"}
                      [] t = "workstations" -> {"project_id"}
                      [] t \in {"chat_sessions", "capability_history"} -> NoTable
                      [] OTHER -> {}]
Renamed == [First EXCEPT !.projects = {"git_url"}, !.agents = {"tools"}]
Contents ==
  [Renamed EXCEPT !.capabilities = {"content"}, !.capability_history = {},
                  !.llm_connections = {"model"}, !.agents = @ \cup {"llm_id"},
                  !.human_requests = {"chat_id"}]
Threads ==
  [Contents EXCEPT !.capabilities = Required.capabilities,
                   !.capability_history = Required.capability_history,
                   !.workstations = @ \cup {"secret"}, !.chats = @ \cup {"start_message_id"},
                   !.messages = {"title", "thread_of_id"}, !.chat_sessions = {}]
Moved ==
  [Required EXCEPT !.chats = @ \cup {"workstation_id"}, !.agents = @ \ {"listen_user_id"},
                   !.llm_connections = @ \ {"native_tools"},
                   !.messages = @ \ {"kind", "tool_call"}]
New == [t \in Tables |-> NoTable]

Database(columnsOf, textOf, moved, users) ==
  [columns |-> columnsOf, text |-> textOf, sessions |-> moved, anonymous |-> users]

MCDatabases ==
  {Database(First, "version", FALSE, 0), Database(First, "version", FALSE, 1),
   Database(Renamed, "version", FALSE, 1), Database(Contents, "filled", FALSE, 1),
   Database(Threads, "edited", FALSE, 1), Database(Moved, "filled", TRUE, 2),
   Database(New, "filled", TRUE, 0),
   Database(Required, "filled", TRUE, 1), Database(Required, "edited", TRUE, 1)}
=============================================================================
