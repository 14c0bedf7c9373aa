------------------------------ MODULE Territory ------------------------------
(***************************************************************************)
(* Territories of the agents of a set (scope.rs): the name of an agent is  *)
(* a folder of the project, where it may write; the folders of the agents  *)
(* below it are left out.  The agent without a parent is the root: its     *)
(* folder is the project itself and its name only a label.  Commands run   *)
(* in a sandbox of bind mounts made from the territory.                    *)
(*                                                                         *)
(* A path is the sequence of its components, so that "api/" is the prefix  *)
(* of a path exactly if <<"api">> is.  Names are unique in a set (trace.rs)*)
(* and stand for ids.                                                      *)
(***************************************************************************)
EXTENDS Integers, SequencesExt, FiniteSetsExt

CONSTANTS
  Components,  \* names of files and folders
  AgentNames,  \* names of agents, as paths
  Paths,       \* paths of the project
  Starts       \* pairs of components of which the first is how the second begins

ASSUME TerritoryAssumption == AgentNames \cup Paths \subseteq Seq(Components)

VARIABLE agents

Agent == [name : AgentNames, root : BOOLEAN]
Names(set) == {g.name : g \in set}

-----------------------------------------------------------------------------
(* The territory of an agent.                                              *)

Folder(g) == IF g.root THEN <<>> ELSE g.name

BelowText(folder, other) ==             \* faulty variant: starts_with without the slash
  \/ folder = <<>>
  \/ IsStrictPrefix(folder, other)
  \/ /\ Len(folder) <= Len(other)
     /\ Front(folder) = SubSeq(other, 1, Len(folder) - 1)
     /\ <<Last(folder), other[Len(folder)]>> \in Starts

\* is_descendant
Below(folder, other) == folder = <<>> \/ IsStrictPrefix(folder, other)

Inside(set, g) == {h \in set \ {g} : Below(Folder(g), h.name)}

\* Of nested folders only the nearest is excluded, it covers the others.
Excludes(set, g) ==
  {h.name : h \in {h \in Inside(set, g) :
     ~ \E other \in Inside(set, g) \ {h} : Below(other.name, h.name)}}

\* Territory::contains
Owns(set, g, path) ==
  /\ IsPrefix(Folder(g), path)
  /\ ~ \E e \in Excludes(set, g) : IsPrefix(e, path)

-----------------------------------------------------------------------------
(* The sandbox.                                                            *)

Bind(path, mode) == [path |-> path, mode |-> mode]

MountsOwnLast(set, g) ==                \* faulty variant: another order of the mounts
  LET excluded == SetToSeq({Bind(e, "ro") : e \in Excludes(set, g)}) IN
  IF Folder(g) = <<>>
    THEN excluded
    ELSE <<Bind(<<>>, "ro")>> \o excluded \o <<Bind(Folder(g), "rw")>>

\* sandbox_command: the project read-only, the own folder writable, the folders
\* of the agents below read-only again.
Mounts(set, g) ==
  LET excluded == SetToSeq({Bind(e, "ro") : e \in Excludes(set, g)}) IN
  IF Folder(g) = <<>>
    THEN excluded
    ELSE <<Bind(<<>>, "ro"), Bind(Folder(g), "rw")>> \o excluded

\* The last mount over a path hides the earlier ones.
Writable(set, g, path) ==
  LET mounts == Mounts(set, g)
      over   == {i \in DOMAIN mounts : IsPrefix(mounts[i].path, path)}
  IN over = {} \/ mounts[Max(over)].mode = "rw"

Writers(set, path) == {g \in set : Writable(set, g, path)}

-----------------------------------------------------------------------------
(* Editing the set.                                                        *)

InitTerritory == agents = {}

SetRoot(gs, isRoot) == {[g EXCEPT !.root = isRoot] : g \in gs}

\* update_agent_set with one agent more, the parent of some that were roots.
AddAgent(g, children) ==
  /\ g.name \notin Names(agents)
  /\ children \subseteq agents
  /\ agents' = {g} \cup (agents \ children) \cup SetRoot(children, FALSE)

\* update_agent_set with one agent less: those whose parent it was are roots now.
RemoveAgent(g, children) ==
  /\ g \in agents
  /\ children \subseteq agents \ {g}
  /\ agents' = (agents \ ({g} \cup children)) \cup SetRoot(children, TRUE)

NextTerritory ==
  \E g \in Agent :
    \/ \E children \in SUBSET {h \in agents : h.root} : AddAgent(g, children)
    \/ \E children \in SUBSET {h \in agents : ~h.root} : RemoveAgent(g, children)

SpecTerritory == InitTerritory /\ [][NextTerritory]_agents

-----------------------------------------------------------------------------
(* Properties.                                                             *)

\* A set is a finite number of agents, whose names are unique.
SetOK ==
  /\ agents \subseteq Agent /\ IsFiniteSet(agents)
  /\ \A g, h \in agents : g.name = h.name => g = h

\* The sandbox that bounds the commands of an agent draws the line where the
\* territory that the agent and its neighbours are told does.
SandboxKeepsTerritory ==
  \A g \in agents, path \in Paths :
    Writable(agents, g, path) <=> Owns(agents, g, path)

\* Two agents may write to one path only if both are roots, however folders are
\* nested and whoever is whose parent (update_agent_set takes several roots).  With
\* one root, whose label is not below the folder of another agent, every path has
\* exactly one agent that may write to it.
OneWriterPerPath ==
  \A path \in Paths :
    /\ \A g, h \in Writers(agents, path) : g = h \/ (g.root /\ h.root)
    /\ \A r \in agents :
         r.root /\ (\A g \in agents \ {r} : ~g.root /\ ~Below(g.name, r.name)) =>
           Cardinality(Writers(agents, path)) = 1
=============================================================================
