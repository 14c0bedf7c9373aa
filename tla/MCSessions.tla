----------------------------- MODULE MCSessions -----------------------------
(* Instances of Sessions for TLC: sessions, projects and closers are          *)
(* interchangeable, and so are stations.                                      *)
EXTENDS Sessions, FiniteSets, TLC

CONSTANTS
  MaxUnderWay,  \* bound: handlers and commands without one that are under way at once
  MaxEntered    \* bound: windows that have been entered

Symmetry == Permutations(Stations) \cup Permutations(Sessions)
              \cup Permutations(Projects) \cup Permutations(Closers)

\* The handlers that are under way, and what others left running.
UnderWay ==
  {<<"create", s>> : s \in {s \in Stations : creator[s] # "idle"}}
    \cup {<<"release", s>> : s \in {s \in Stations : releaser[s] # "idle"}}
    \cup {<<"delete", s>> : s \in {s \in Stations : deleter[s] # "idle"}}
    \cup {<<"open", c>> : c \in {c \in Sessions : at[c] \notin {"idle", "done"}}}
    \cup {<<"adrift", c>> : c \in {c \in Sessions : adrift[c] # "none"}}
    \cup {<<"close", k>> : k \in {k \in Closers : closing[k] # "idle"}}

Bounded ==
  Cardinality(UnderWay) <= MaxUnderWay /\ Cardinality(entered) <= MaxEntered
=============================================================================
