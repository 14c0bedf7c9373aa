----------------------------- MODULE AgentSets ------------------------------
(***************************************************************************)
(* Sets of agents, the skills and MCP servers given to agents, connections *)
(* to LLMs and the set attached to a project (trace.rs and the handlers of *)
(* server.rs), and what a run makes of them (runtime.rs): it loads the set *)
(* statement by statement when a message is routed, and only when the run  *)
(* starts, maybe much later, it resolves the names it has kept.            *)
(*                                                                         *)
(* Links are kept by id; a loaded set holds names.  Ids are never used     *)
(* again (AUTOINCREMENT), so agent[i] also serves as the history of i.     *)
(* A request that finds nothing to change is no step, and replies are left *)
(* out: a handler reads what it has written again after the commit, and    *)
(* answers 404 or 500 when it is gone by then or cannot be read, although  *)
(* the tables have changed.                                                *)
(***************************************************************************)
EXTENDS Sequences, FiniteSets, Integers, FiniteSetsExt

CONSTANTS
  Sets, Projects, Llms,
  Skills, Servers,  \* entries of the two catalogues
  Names,            \* names of entries
  AgentNames,       \* names of agents
  Specs,            \* what a set is saved with: sequences of agents
  Loads,            \* runs that load the set of a project
  MaxAgents,        \* bound on the agents ever inserted
  MaxChanges,       \* bound on administrative requests that write
  None

AgentIds == 1..MaxAgents

\* A row with its links, and the agent of a spec, which names skills and servers.
AgentRows == [set : Sets, name : AgentNames, parent : AgentIds \cup {None},
              llm : Llms \cup {None}, listens : BOOLEAN,
              skills : SUBSET Skills, servers : SUBSET Servers]
AgentSpecs == [name : AgentNames, parent : AgentNames \cup {None}, llm : Llms \cup {None},
               listens : BOOLEAN, skills : Seq(Names), servers : SUBSET Names]

ASSUME AgentSetsAssumption ==
  /\ None \notin Sets \cup Projects \cup Llms \cup Names \cup AgentNames \cup AgentRows \cup AgentIds
  /\ MaxAgents \in Nat /\ MaxChanges \in Nat
  /\ Skills \cap Servers = {}
  /\ Specs \subseteq Seq(AgentSpecs)

VARIABLES
  agent,     \* agent[i]: the row with id i as it was inserted, None before
  rows,      \* ids of the rows in the table agents
  sets,      \* rows of agent_sets
  projects, attached,  \* rows of projects and of project_agent_set
  name,      \* name[e]: name of a skill or server, None when there is none
  deleted,   \* skills that are softly deleted, servers that are gone
  llm, dflt, \* llm[d]: is connection d still to come, there or gone; the default one
  migrated,  \* was llm_id added to an old table, without its foreign key?
  draft,     \* the open transaction that saves a set, None when there is none
  saved,     \* history: saved[s]: what set s was last saved with and the id before its
             \* first agent, None before set s is created
  changes,   \* number of administrative requests
  load       \* load[q]: what run q has loaded and how far it has come

tables == <<agent, rows, sets, projects, attached, name, deleted, llm, migrated, saved>>
agentSetsVars == <<agent, rows, sets, projects, attached, name, deleted, llm, dflt,
          migrated, draft, saved, changes, load>>

Born == {i \in AgentIds : agent[i] # None}
Members(s) == {i \in rows : agent[i].set = s}
llms == {d \in Llms : llm[d] = "there"}

-----------------------------------------------------------------------------
(* Saving a set: its agents are replaced by those of the spec, statement   *)
(* by statement in one transaction.  It writes alone, and until it commits *)
(* the others read what was there before (WAL).                            *)

\* insert_agent_specs: the new agents have the next ids, in order.
NewId(k) == Cardinality(Born) + k

\* A parent is an agent of the spec that comes earlier; other names mean the root.
Parent(spec, k) ==
  LET earlier == {j \in 1..k - 1 : spec[j].name = spec[k].parent} IN
  IF earlier = {} THEN None ELSE NewId(CHOOSE j \in earlier : TRUE)

\* link_capability and its like for servers: names that are not in the catalogue
\* are left out, softly deleted skills are not.
Linked(entries, names) == {e \in entries : name[e] \in names}

Row(s, spec, k) ==
  [set |-> s, name |-> spec[k].name, parent |-> Parent(spec, k), llm |-> spec[k].llm,
   listens |-> spec[k].listens, skills |-> Linked(Skills, {spec[k].skills[j] : j \in DOMAIN spec[k].skills}),
   servers |-> Linked(Servers, spec[k].servers)]

\* What the tables refuse: UNIQUE(set_id, name), the foreign key llm_id, and the
\* primary key of agent_capabilities when a skill is given twice.
Accepted(spec, k) ==
  /\ \A j \in 1..k - 1 : spec[j].name # spec[k].name
  /\ migrated \/ spec[k].llm \in llms \cup {None}
  /\ \A i, j \in DOMAIN spec[k].skills :
       i < j /\ spec[k].skills[i] = spec[k].skills[j] => Linked(Skills, {spec[k].skills[i]}) = {}

\* The agents of the spec become those of set s, which had the agents old.
InsertAgents(s, spec, old) ==
  LET new == {NewId(k) : k \in DOMAIN spec} IN
  /\ new \subseteq AgentIds
  /\ agent' = [i \in AgentIds |-> IF i \in new
                              THEN Row(s, spec, CHOOSE k \in DOMAIN spec : NewId(k) = i)
                              ELSE agent[i]]
  /\ rows' = (rows \ old) \cup new

Request == draft = None /\ changes < MaxChanges /\ changes' = changes + 1

\* create_agent_set and update_agent_set up to the agents: the new row, or the new name
\* and the deletion of the old agents.
Begin(s, spec) ==
  /\ Request /\ draft' = [set |-> s, spec |-> spec, done |-> 0]
  /\ UNCHANGED <<sets, agent, projects, attached, name, deleted, llm, dflt, migrated, saved, load>>

CreateSet(s, spec) == saved[s] = None /\ Begin(s, spec) /\ UNCHANGED rows

UpdateSetCommitted(s, spec) ==   \* faulty variant: the deletion is not in the transaction
  s \in sets /\ Begin(s, spec) /\ rows' = rows \ Members(s)

UpdateSet(s, spec) == s \in sets /\ Begin(s, spec) /\ UNCHANGED rows

\* The next agent, with its skills and servers.
InsertAgent ==
  /\ draft # None /\ draft.done + 1 \in DOMAIN draft.spec
  /\ Accepted(draft.spec, draft.done + 1)
  /\ draft' = [draft EXCEPT !.done = @ + 1]
  /\ UNCHANGED <<tables, dflt, changes, load>>

\* A statement is refused or fails, or the handler or the server stops.
Rollback ==
  /\ draft # None /\ draft' = None
  /\ UNCHANGED <<tables, dflt, changes, load>>

CommitSet ==
  /\ draft # None /\ draft.done = Len(draft.spec) /\ draft' = None
  /\ InsertAgents(draft.set, draft.spec, Members(draft.set))
  /\ sets' = sets \cup {draft.set}
  /\ saved' = [saved EXCEPT ![draft.set] = [spec |-> draft.spec, from |-> NewId(0)]]
  /\ UNCHANGED <<projects, attached, name, deleted, llm, dflt, migrated, changes, load>>

\* The agents and the attachments of a set go with it (ON DELETE CASCADE).
DeleteSet(s) ==
  /\ Request /\ s \in sets
  /\ sets' = sets \ {s}
  /\ rows' = rows \ Members(s)
  /\ attached' = [p \in Projects |-> IF attached[p] = s THEN None ELSE attached[p]]
  /\ UNCHANGED <<agent, projects, name, deleted, llm, dflt, migrated, draft, saved, load>>

-----------------------------------------------------------------------------
(* Projects and their sets.                                                *)

CreateProject(p) ==
  /\ Request /\ p \notin projects
  /\ projects' = projects \cup {p}
  /\ UNCHANGED <<agent, rows, sets, attached, name, deleted, llm, dflt, migrated, draft, saved, load>>

DeleteProject(p) ==
  /\ Request /\ p \in projects
  /\ projects' = projects \ {p}
  /\ attached' = [attached EXCEPT ![p] = None]
  /\ UNCHANGED <<agent, rows, sets, name, deleted, llm, dflt, migrated, draft, saved, load>>

\* attach_agent_set: the foreign keys refuse what is not there, at any step.
AttachSet(p, s) ==
  /\ Request /\ p \in projects /\ s \in sets
  /\ attached' = [attached EXCEPT ![p] = s]
  /\ UNCHANGED <<agent, rows, sets, projects, name, deleted, llm, dflt, migrated, draft, saved, load>>

-----------------------------------------------------------------------------
(* Catalogues.                                                             *)

NameFreeAlways(entries, n) == TRUE         \* faulty variant: names are not UNIQUE

NameFree(entries, n) == \A e \in entries : name[e] # n

\* Runs that hold names: what the names meant when they were loaded is lost.
Forget(names) ==
  load' = [q \in Loads |-> [load[q] EXCEPT !.stale = @ \cup (names \ {None})]]

\* A new skill or server, or a new name of one: names are UNIQUE in their catalogue.
NameEntry(entries, e, n) ==
  /\ Request /\ e \in entries /\ name[e] # n
  /\ NameFree(entries, n) /\ (e \in Servers => e \notin deleted)
  /\ name' = [name EXCEPT ![e] = n]
  /\ Forget(IF name[e] # None THEN {name[e], n} ELSE {})
  /\ UNCHANGED <<agent, rows, sets, projects, attached, deleted, llm, dflt, migrated, draft, saved>>

\* delete_capability, which keeps the row and its links.
DeleteSkill(e) ==
  /\ Request /\ name[e] # None /\ e \notin deleted
  /\ deleted' = deleted \cup {e}
  /\ UNCHANGED <<agent, rows, sets, projects, attached, name, llm, dflt, migrated, draft, saved, load>>

\* delete_mcp_server, whose links go with it.
DeleteServer(e) ==
  /\ Request /\ name[e] # None
  /\ name' = [name EXCEPT ![e] = None]
  /\ deleted' = deleted \cup {e}
  /\ agent' = [i \in AgentIds |-> IF agent[i] = None THEN None
                             ELSE [agent[i] EXCEPT !.servers = @ \ {e}]]
  /\ Forget({name[e]})
  /\ UNCHANGED <<rows, sets, projects, attached, llm, dflt, migrated, draft, saved>>

-----------------------------------------------------------------------------
(* Connections to LLMs.                                                    *)

\* Runs that look for a connection: could each of them have had one all the time?
Watch(there, default) ==
  load' = [q \in Loads |->
    [load[q] EXCEPT !.steady = @ /\ (load[q].row.llm \in there \/ default # None)]]

\* Without the foreign key an agent may name the connection before it is there.
CreateLlm(d) ==
  /\ Request /\ llm[d] = "new" /\ llm' = [llm EXCEPT ![d] = "there"]
  /\ load' = [q \in Loads |-> [load[q] EXCEPT !.late = @ \cup {d}]]
  /\ UNCHANGED <<agent, rows, sets, projects, attached, name, deleted, dflt, migrated, draft, saved>>

\* Agents with the connection lose it (ON DELETE SET NULL), but in a migrated table they
\* keep its id; the default is lost with it.
DeleteLlm(d) ==
  /\ Request /\ d \in llms
  /\ llm' = [llm EXCEPT ![d] = "gone"]
  /\ dflt' = IF dflt = d THEN None ELSE dflt
  /\ agent' = [i \in AgentIds |-> IF agent[i] # None /\ agent[i].llm = d /\ ~migrated
                              THEN [agent[i] EXCEPT !.llm = None] ELSE agent[i]]
  /\ Watch(llms \ {d}, dflt')
  /\ UNCHANGED <<rows, sets, projects, attached, name, deleted, migrated, draft, saved>>

\* set_default_llm: the old default is cleared first; for a connection that is not
\* there nothing is set, and the transaction commits all the same.
SetDefaultLlm(d) ==
  /\ Request
  /\ dflt' = IF d \in llms THEN d ELSE None
  /\ Watch(llms, dflt')
  /\ UNCHANGED <<tables, draft>>

ClearDefaultLlm ==
  /\ Request
  /\ dflt' = None
  /\ Watch(llms, None)
  /\ UNCHANGED <<tables, draft>>

-----------------------------------------------------------------------------
(* A run.                                                                  *)

NoRow == [llm |-> None, skills |-> {}, servers |-> {}]

Fresh == [at |-> "idle", set |-> None, id |-> None, row |-> NoRow,
          skills |-> {}, servers |-> {},   \* history: the entries behind the names
          left |-> {}, asked |-> {},       \* names of skills and of servers
          prompt |-> {}, tools |-> {},     \* names and the entries they were resolved to
          config |-> None, stale |-> {}, steady |-> TRUE,
          late |-> {}]                     \* history: connections that came meanwhile

AdvanceLoad(q, now) ==
  /\ load' = [load EXCEPT ![q] = now]
  /\ UNCHANGED <<tables, dflt, draft, changes>>

\* get_project_agent_set.
ReadAttached(q, p) ==
  /\ load[q].at = "idle" /\ attached[p] # None
  /\ AdvanceLoad(q, [load[q] EXCEPT !.at = "rows", !.set = attached[p]])

\* load_set reads the rows of the agents; the run is that of one of them.
ReadRows(q) ==
  /\ load[q].at = "rows"
  /\ LET here == {i \in Members(load[q].set) : agent[i].listens} IN
     IF here = {} THEN AdvanceLoad(q, [load[q] EXCEPT !.at = "none"])
     ELSE \E i \in here :
            AdvanceLoad(q, [load[q] EXCEPT !.at = "skills", !.id = i, !.stale = {}, !.late = {},
                          !.row = [llm |-> agent[i].llm, skills |-> agent[i].skills,
                                   servers |-> agent[i].servers]])

\* ... then, in a query for each agent, the names of its skills, deleted ones too,
ReadSkills(q) ==
  /\ load[q].at = "skills"
  /\ LET mine == IF load[q].id \in rows THEN agent[load[q].id].skills ELSE {} IN
     AdvanceLoad(q, [load[q] EXCEPT !.at = "servers", !.skills = mine,
                                !.left = {name[e] : e \in mine}])

\* ... and in another one those of its MCP servers.
ReadServers(q) ==
  /\ load[q].at = "servers"
  /\ LET mine == IF load[q].id \in rows THEN agent[load[q].id].servers ELSE {} IN
     AdvanceLoad(q, [load[q] EXCEPT !.at = "prompt", !.servers = mine,
                                !.asked = {name[e] : e \in mine}])

\* The run starts: agent_prompt resolves the names of the skills one by one.
ResolveSkill(q) ==
  /\ load[q].at = "prompt"
  /\ \E n \in load[q].left :
       LET hits == {e \in Skills \ deleted : name[e] = n} IN
       \E found \in IF hits = {} THEN {{}} ELSE {{<<n, e>>} : e \in hits} :
         AdvanceLoad(q, [load[q] EXCEPT !.left = @ \ {n}, !.prompt = @ \cup found])

\* llm_config_for: the connection of the agent as it was loaded, if it is there,
ReadOwnLlm(q) ==
  /\ load[q].at = "prompt" /\ load[q].left = {}
  /\ LET own == load[q].row.llm IN
     AdvanceLoad(q, [load[q] EXCEPT !.at = "default",
                   !.config = IF own \in llms THEN own ELSE None,
                   !.steady = own \in llms \/ dflt # None])

\* ... else the default one, which is read in any case.
ReadDefaultLlm(q) ==
  /\ load[q].at = "default"
  /\ AdvanceLoad(q, [load[q] EXCEPT !.at = "tools",
                   !.config = IF @ = None THEN dflt ELSE @])

\* mcp_servers_by_names: one reading of the whole catalogue.
ReadTools(q) ==
  /\ load[q].at = "tools"
  /\ AdvanceLoad(q, [load[q] EXCEPT !.at = "done",
       !.tools = UNION {{<<n, e>> : e \in {s \in Servers : name[s] = n}} : n \in load[q].asked}])

-----------------------------------------------------------------------------
UniqueIn(entries) ==
  \A e, f \in entries : name[e] = name[f] /\ name[e] # None => e = f

\* The catalogues, connections and projects are as earlier requests left them; the
\* sets are still to be created.
InitAgentSets ==
  /\ agent = [i \in AgentIds |-> None] /\ rows = {} /\ sets = {}
  /\ projects \in SUBSET Projects
  /\ attached = [p \in Projects |-> None]
  /\ name \in [Skills \cup Servers -> Names \cup {None}]
  /\ UniqueIn(Skills) /\ UniqueIn(Servers)
  /\ deleted = {}
  /\ llm \in [Llms -> {"new", "there"}] /\ dflt \in llms \cup {None}
  /\ migrated \in BOOLEAN /\ draft = None /\ saved = [s \in Sets |-> None] /\ changes = 0
  /\ load = [q \in Loads |-> Fresh]

Administer ==
  \/ \E s \in Sets, spec \in Specs : CreateSet(s, spec) \/ UpdateSet(s, spec)
  \/ InsertAgent \/ Rollback \/ CommitSet
  \/ \E s \in Sets : DeleteSet(s) \/ \E p \in Projects : AttachSet(p, s)
  \/ \E p \in Projects : CreateProject(p) \/ DeleteProject(p)
  \/ \E n \in Names :
       \/ \E e \in Skills : NameEntry(Skills, e, n)
       \/ \E e \in Servers : NameEntry(Servers, e, n)
  \/ \E e \in Skills : DeleteSkill(e)
  \/ \E e \in Servers : DeleteServer(e)
  \/ \E d \in Llms : CreateLlm(d) \/ DeleteLlm(d) \/ SetDefaultLlm(d)
  \/ ClearDefaultLlm

Run(q) ==
  \/ \E p \in Projects : ReadAttached(q, p)
  \/ ReadRows(q) \/ ReadSkills(q) \/ ReadServers(q) \/ ResolveSkill(q)
  \/ ReadOwnLlm(q) \/ ReadDefaultLlm(q) \/ ReadTools(q)

NextAgentSets == Administer \/ \E q \in Loads : Run(q)

SpecAgentSets == InitAgentSets /\ [][NextAgentSets]_agentSetsVars

-----------------------------------------------------------------------------
(* Properties.                                                             *)

\* Types; rows refer to sets, servers and attachments that are there, and to connections
\* too where the foreign key is declared.
AgentSetsTypeOK ==
  /\ rows \subseteq Born /\ sets \subseteq Sets /\ projects \subseteq Projects
  /\ \A i \in rows : agent[i].set \in sets /\ (migrated \/ agent[i].llm \in llms \cup {None})
                     /\ \A e \in agent[i].servers : name[e] # None
  /\ \A p \in Projects : attached[p] # None => p \in projects /\ attached[p] \in sets
  /\ name \in [Skills \cup Servers -> Names \cup {None}] /\ deleted \subseteq Skills \cup Servers
  /\ llm \in [Llms -> {"new", "there", "gone"}] /\ dflt \in llms \cup {None}
  /\ migrated \in BOOLEAN /\ changes \in 0..MaxChanges
  /\ draft # None => draft.set \in Sets /\ draft.spec \in Specs /\ draft.done \in 0..Len(draft.spec)

\* The agents of a set form trees of their own: a parent is an older agent of the
\* same set, whatever sets were saved, replaced and deleted in between.
ParentsInSet ==
  \A i \in rows : agent[i].parent # None =>
    /\ agent[i].parent \in rows /\ agent[i].parent < i
    /\ agent[agent[i].parent].set = agent[i].set

\* load_set is not one transaction: an agent may lose its skills and servers when its set
\* is replaced meanwhile, but it never gets those of another agent, and it has all of its
\* own while its row is there.
GivenAreItsOwn ==
  \A q \in Loads :
    LET l == load[q] IN
    /\ l.skills \subseteq l.row.skills /\ l.servers \subseteq l.row.servers
    /\ l.id \in rows /\ l.at \notin {"skills", "servers"} =>
         l.skills = l.row.skills /\ l.row.servers \ deleted \subseteq l.servers

\* The prompt and the tools of a run, resolved by name long after the set was loaded,
\* are the skills and servers given to the agent, except for names that were taken away
\* from an entry meanwhile; nothing that is still there is missing.
NamesMeanWhatWasGiven ==
  \A q \in Loads :
    LET l == load[q] IN
    /\ \A x \in l.prompt : x[2] \in l.skills \/ x[1] \in l.stale
    /\ \A x \in l.tools : x[2] \in l.servers \/ x[1] \in l.stale
    /\ l.at = "done" /\ l.stale = {} =>
         /\ l.skills \ deleted \subseteq {x[2] : x \in l.prompt}
         /\ l.servers \ deleted \subseteq {x[2] : x \in l.tools}

\* A run has no LLM only if at some moment of its two readings there was none for it;
\* its own connection, if it is there, comes before the default one.  Nothing is said of
\* one that came only after the run had loaded an agent that already named it.
ConfigIsBest ==
  \A q \in Loads :
    LET l == load[q] IN
    l.at \in {"tools", "done"} /\ l.row.llm \notin l.late =>
      /\ l.config = None => ~l.steady
      /\ l.row.llm \in llms => l.config = l.row.llm

\* What a run makes of its set is what its agent was given: the set as it is stored, as
\* it is loaded and as its names are resolved in the end.
RunGetsItsOwn ==
  AgentSetsTypeOK /\ ParentsInSet /\ GivenAreItsOwn /\ NamesMeanWhatWasGiven /\ ConfigIsBest

\* A set is always whole: its agents are those of the spec it was last saved with, each
\* under the parent it names there, and never some of the old and some of the new ones or
\* none of both, wherever a saving is refused, fails or stops, and whatever else goes on.
SetsAreWhole ==
  \A s \in sets :
    LET spec == saved[s].spec
        id(k) == saved[s].from + k IN
    /\ Members(s) = {id(k) : k \in DOMAIN spec}
    /\ \A k \in DOMAIN spec :
         /\ agent[id(k)].name = spec[k].name /\ agent[id(k)].listens = spec[k].listens
         /\ LET parent == agent[id(k)].parent IN
            IF \E j \in 1..k - 1 : spec[j].name = spec[k].parent
              THEN parent # None /\ agent[parent].name = spec[k].parent
              ELSE parent = None
=============================================================================
