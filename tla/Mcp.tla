-------------------------------- MODULE Mcp --------------------------------
(***************************************************************************)
(* A client of one MCP server on a stdio pipe (mcp.rs): initialize, the    *)
(* pages of the list of tools, then calls, one request at a time.          *)
(*                                                                         *)
(* A request that takes too long is abandoned by dropping its future, but  *)
(* the pipe stays: the server may answer later, and a line whose writing   *)
(* was cut off is continued by the next line.                              *)
(***************************************************************************)
EXTENDS Naturals, Sequences

CONSTANTS
  MaxRequests,   \* bound on the requests of a client
  MaxNoise       \* bound on the lines a server prints of its own accord

ASSUME McpAssumption == MaxRequests \in Nat /\ MaxNoise \in Nat

VARIABLES
  phase,     \* off, initializing, listing, ready, or failed (and dropped)
  nextId,    \* McpClient.next_id
  exchange,  \* the request in flight: idle, writing or waiting
  torn,      \* stdin ends with a line that was cut off
  pending,   \* requests on stdin or with the server, not answered
  stdout,    \* lines the client has not read
  alive,     \* the server process lives
  noise,     \* lines that were no response so far
  taken      \* history: the last request that got an answer, and whose it was

clientVars == <<phase, nextId, exchange, torn>>
pipeVars   == <<pending, stdout, alive, noise>>
mcpVars == <<phase, nextId, exchange, torn, pending, stdout, alive, noise, taken>>

NoId == 0               \* of a line of the server that is no response
Connecting == phase \in {"initializing", "listing"}

-----------------------------------------------------------------------------
(* The client.                                                             *)

\* request: a new id; its line is about to be written.
Request ==
  /\ exchange = "idle" /\ nextId < MaxRequests
  /\ nextId' = nextId + 1
  /\ exchange' = "writing"
  /\ UNCHANGED <<torn, pipeVars, taken>>

\* connect spawns the process and sends the first request.
Connect ==
  /\ phase = "off"
  /\ phase' = "initializing"
  /\ Request

\* call_tool
CallTool ==
  /\ phase = "ready"
  /\ Request
  /\ UNCHANGED phase

\* A line completes on stdin.  What a time-out has cut off stands before it and
\* makes it unreadable; a line that asks for nothing leaves no other trace.
Written(requests) ==
  /\ pending' = IF torn THEN pending ELSE pending \cup requests
  /\ torn' = FALSE

WriteLine ==
  /\ exchange = "writing" /\ alive
  /\ exchange' = "waiting"
  /\ Written({nextId})
  /\ UNCHANGED <<phase, nextId, stdout, alive, noise, taken>>

\* What an exchange that failed leaves: a client that was connecting is dropped.
Fails ==
  /\ exchange' = "idle"
  /\ phase' = IF Connecting THEN "failed" ELSE phase

ArmedNever == FALSE                     \* faulty variant: no time-out

Armed == exchange # "idle"

\* CONNECT_TIMEOUT_SECS, CALL_TIMEOUT_SECS: the future is dropped wherever it is.
TimeOut ==
  /\ Armed
  /\ Fails
  /\ \/ /\ torn' \in IF exchange = "writing" THEN {torn, TRUE} ELSE {torn}
        /\ UNCHANGED stdout
     \/ /\ exchange = "waiting" /\ stdout # <<>> /\ Head(stdout).kind = "request"   \* within the refusal
        /\ stdout' = Tail(stdout)
        /\ torn' = TRUE
  /\ UNCHANGED <<nextId, pending, alive, noise, taken>>

\* The pipe is broken, or stdout ends.
FindClosed ==
  /\ ~alive
  /\ exchange = "writing" \/ (exchange = "waiting" /\ stdout = <<>>)
  /\ Fails
  /\ UNCHANGED <<nextId, torn, pipeVars, taken>>

\* is_response_to
IsResponseAny(line) == line.kind = "response"     \* faulty variant: any id

IsResponse(line) == line.kind = "response" /\ line.id = nextId

\* The notification "initialized" is one more line; the list may have more pages.
Accept ==
  \/ /\ phase = "initializing"
     /\ phase' = "listing" /\ nextId' = nextId + 1 /\ exchange' = "writing"
     /\ Written({})
  \/ /\ phase = "listing" /\ nextId < MaxRequests
     /\ nextId' = nextId + 1 /\ exchange' = "writing"
     /\ UNCHANGED <<phase, pending, torn>>
  \/ /\ phase = "listing"
     /\ phase' = "ready" /\ exchange' = "idle"
     /\ UNCHANGED <<nextId, pending, torn>>
  \/ /\ phase = "ready"
     /\ exchange' = "idle"
     /\ UNCHANGED <<phase, nextId, pending, torn>>
  \/ /\ Connecting                      \* the response is an error
     /\ Fails
     /\ UNCHANGED <<nextId, pending, torn>>

\* The next line of stdout: the response, or one that is skipped; a request of
\* the server is refused by a line of its own.
ReadLine ==
  /\ exchange = "waiting" /\ stdout # <<>>
  /\ LET line == Head(stdout) IN
       \/ /\ IsResponse(line)
          /\ Accept
          /\ taken' = [request |-> nextId, answer |-> line.id]
       \/ /\ ~IsResponse(line) /\ line.kind = "request"
          /\ Written({})
          /\ UNCHANGED <<phase, nextId, exchange, taken>>
       \/ /\ ~IsResponse(line) /\ line.kind # "request"
          /\ UNCHANGED <<clientVars, pending, taken>>
  /\ stdout' = Tail(stdout)
  /\ UNCHANGED <<alive, noise>>

-----------------------------------------------------------------------------
(* The server: any order, any delay, other output, an end at any time.      *)

\* kill_on_drop: a server whose client was dropped is gone.
Serving == alive /\ phase \notin {"off", "failed"}

ServerAnswers(id) ==
  /\ Serving /\ id \in pending
  /\ pending' = pending \ {id}
  /\ stdout' = Append(stdout, [kind |-> "response", id |-> id])
  /\ UNCHANGED <<clientVars, alive, noise, taken>>

ServerPrints ==
  /\ Serving /\ noise < MaxNoise
  /\ noise' = noise + 1
  /\ \E kind \in {"log", "request"} :
       stdout' = Append(stdout, [kind |-> kind, id |-> NoId])
  /\ UNCHANGED <<clientVars, pending, alive, taken>>

ServerDies ==
  /\ Serving
  /\ alive' = FALSE
  /\ UNCHANGED <<clientVars, pending, stdout, noise, taken>>

McpInit ==
  /\ phase = "off" /\ nextId = 0 /\ exchange = "idle" /\ torn = FALSE
  /\ pending = {} /\ stdout = <<>> /\ alive = TRUE /\ noise = 0
  /\ taken = [request |-> 0, answer |-> 0]

\* Steps of an exchange that is under way, and of the server.
Exchange == WriteLine \/ TimeOut \/ FindClosed \/ ReadLine
Server   == \/ ServerPrints \/ ServerDies
            \/ \E id \in pending : ServerAnswers(id)

McpNext == Connect \/ CallTool \/ Exchange \/ Server

McpSpec == McpInit /\ [][McpNext]_mcpVars

-----------------------------------------------------------------------------
(* Properties.                                                             *)

RequestIds == 1..(MaxRequests + 1)

McpTypeOK ==
  /\ phase \in {"off", "initializing", "listing", "ready", "failed"}
  /\ nextId \in 0..(MaxRequests + 1)
  /\ exchange \in {"idle", "writing", "waiting"}
  /\ torn \in BOOLEAN
  /\ pending \subseteq RequestIds
  /\ stdout \in Seq([kind : {"response", "log", "request"}, id : RequestIds \cup {NoId}])
  /\ alive \in BOOLEAN
  /\ noise \in 0..MaxNoise
  /\ taken \in [request : 0..MaxRequests + 1, answer : 0..MaxRequests + 1]

\* A request is never given the answer of another, although requests are given
\* up while the server works on them and its answers stay in the pipe.
AnswersOwnRequest == taken.request = taken.answer
=============================================================================
