------------------------------ MODULE Commands ------------------------------
(***************************************************************************)
(* Which commands a script calls (agent.rs, command_words): before a       *)
(* script of the LLM runs, the first word of each simple command in it is  *)
(* compared with the tools of the agent.  It guards against mistakes of    *)
(* the model; the boundary is the sandbox.                                 *)
(*                                                                         *)
(* A script is a sequence of pieces, each set apart by blanks but glued:   *)
(*   tool, other   a word, plain or quoted: an allowed command or builtin, *)
(*                 or not                                                  *)
(*   glued         text behind a substitution without a blank between, as  *)
(*                 in X=$(pwd)-dev; the worst there is, a tool's name      *)
(*   keyword       if, then, do, {, ...                                    *)
(*   assign        X=y              assignSubst   X=$(                     *)
(*   sep           ; | & && ||      newline                                *)
(*   redirect      > >> < 2>        dup           2>&1                     *)
(*   heredoc       <<EOF            eof           the line that ends one   *)
(*   subst         $(               tick          `                        *)
(*   group         (                close         )                        *)
(* Blanks, escapes, quotes and comments only decide where words end.       *)
(***************************************************************************)
EXTENDS Integers, SequencesExt, FiniteSetsExt

CONSTANT MaxPieces   \* bound on the pieces of a script
ASSUME CommandsAssumption == MaxPieces \in Nat

VARIABLE script

Words == {"tool", "other", "keyword", "assign", "glued"}
Pieces == Words \cup {"assignSubst", "sep", "newline", "redirect", "dup", "heredoc", "eof",
                      "subst", "tick", "group", "close"}

-----------------------------------------------------------------------------
(* The tokens of a script.                                                 *)

Word(w) == [is |-> "word", word |-> w]
Sep     == [is |-> "sep"]
Redir   == [is |-> "redir"]
Open    == [is |-> "open"]
Close   == [is |-> "close"]

\* parens: for each open "(" whether it is a substitution; heredocs: announced on
\* the line; bodies: still to be skipped.
NoTokens == [toks |-> <<>>, parens |-> <<>>, tick |-> FALSE, heredocs |-> 0, bodies |-> 0]

\* What is taken from a stack; from an empty one, FALSE.
Top(stack) == stack # <<>> /\ Last(stack)

Push(lex, toks) == [lex EXCEPT !.toks = @ \o toks]

\* The body of a heredoc is data up to its delimiter.
SkipBody(lex, p) == IF p = "eof" THEN [lex EXCEPT !.bodies = @ - 1] ELSE lex

\* A piece outside of a body.
LexPiece(lex, p) ==
  CASE p \in Words \cup {"eof"} -> Push(lex, <<Word(p)>>)
    [] p = "sep"          -> Push(lex, <<Sep>>)
    [] p = "newline"      -> [Push(lex, <<Sep>>) EXCEPT !.bodies = lex.heredocs, !.heredocs = 0]
    [] p = "redirect"     -> Push(lex, <<Redir>>)
    [] p = "dup"          -> Push(lex, <<Redir, Word("fd")>>)
    [] p = "heredoc"      -> [Push(lex, <<Redir, Word("delim")>>) EXCEPT !.heredocs = @ + 1]
    [] p = "subst"        -> [Push(lex, <<Word("empty"), Open>>) EXCEPT !.parens = Append(@, TRUE)]
    [] p = "assignSubst"  -> [Push(lex, <<Word("assign"), Open>>) EXCEPT !.parens = Append(@, TRUE)]
    [] p = "group"        -> [Push(lex, <<Sep>>) EXCEPT !.parens = Append(@, FALSE)]
    [] p = "close"        -> [Push(lex, IF Top(lex.parens) THEN <<Close>> ELSE <<Sep>>)
                                EXCEPT !.parens = Front(@)]
    [] p = "tick"         -> [Push(lex, IF lex.tick THEN <<Close>> ELSE <<Open>>)
                                EXCEPT !.tick = ~@]

Lex(lex, p) == IF lex.bodies > 0 THEN SkipBody(lex, p) ELSE LexPiece(lex, p)

\* The state of the reader after each number of pieces.
Reader(s) ==
  LET lex[n \in 0..Len(s)] == IF n = 0 THEN NoTokens ELSE Lex(lex[n - 1], s[n]) IN lex

Tokens(s) == Reader(s)[Len(s)].toks

-----------------------------------------------------------------------------
(* The words in the place of a command.                                    *)

AtStart == [start |-> TRUE, skip |-> FALSE, saved |-> <<>>, words |-> <<>>]

\* After a substitution the command it stands in goes on.
CloseSubst(st) == [st EXCEPT !.start = Top(st.saved), !.saved = Front(@)]

OpenInPlace(st) ==                      \* faulty variant: the place is not reset
  [st EXCEPT !.saved = Append(@, st.start)]

\* A substitution starts with a command wherever it stands.
OpenSubst(st) == [st EXCEPT !.saved = Append(@, st.start), !.start = TRUE]

TakeWord(st, w) ==
  CASE st.skip                      -> [st EXCEPT !.skip = FALSE]
    [] ~st.skip /\ ~st.start        -> st
    [] ~st.skip /\ st.start /\ w \in {"assign", "keyword"} -> st
    [] OTHER                        -> [st EXCEPT !.start = FALSE, !.words = Append(@, w)]

TakeToken(st, tok) ==
  CASE tok.is = "sep"   -> [st EXCEPT !.start = TRUE]
    [] tok.is = "redir" -> [st EXCEPT !.skip = TRUE]
    [] tok.is = "open"  -> OpenSubst(st)
    [] tok.is = "close" -> CloseSubst(st)
    [] tok.is = "word"  -> TakeWord(st, tok.word)

\* The state of the second pass after each number of tokens.
Pass(toks) ==
  LET st[n \in 0..Len(toks)] ==
        IF n = 0 THEN AtStart ELSE TakeToken(st[n - 1], toks[n])
  IN st

CommandWords(s) == Pass(Tokens(s))[Len(Tokens(s))].words

\* command_allowed: every word is a builtin or a tool of the agent.
CommandAllowed(s) ==
  \A k \in DOMAIN CommandWords(s) : CommandWords(s)[k] \in {"tool", "glued"}

-----------------------------------------------------------------------------
(* Reference: the commands sh finds in a script, by where a piece stands.  *)

HeredocsOfLine(s, n) ==   \* those announced on the line that n ends
  {h \in 1..n : s[h] = "heredoc" /\ "newline" \notin {s[k] : k \in h..(n - 1)}}
InBody(s, i) ==
  \E n \in 1..(i - 1) :
    /\ s[n] = "newline"
    /\ Cardinality({k \in (n + 1)..(i - 1) : s[k] = "eof"}) < Cardinality(HeredocsOfLine(s, n))

TicksTo(s, i) == Cardinality({k \in 1..i : s[k] = "tick" /\ ~InBody(s, k)})
Opens(s, i)  == /\ ~InBody(s, i)
                /\ \/ s[i] \in {"subst", "assignSubst", "group"}
                   \/ s[i] = "tick" /\ TicksTo(s, i) % 2 = 1
Closes(s, i) == /\ ~InBody(s, i)
                /\ s[i] = "close" \/ (s[i] = "tick" /\ TicksTo(s, i) % 2 = 0)
OpensTo(s, n)  == Cardinality({k \in 1..n : Opens(s, k)})
ClosesTo(s, n) == Cardinality({k \in 1..n : Closes(s, k)})

\* How deep piece i stands; the two pieces of a pair stand outside of it.
Depth(s, i) == OpensTo(s, i - 1) - ClosesTo(s, i)

\* The pieces before i of the simple command that goes on at depth d.
CommandAt(s, i, d) ==
  {j \in 1..(i - 1) :
     /\ Depth(s, j) = d /\ ~InBody(s, j)
     /\ \A k \in j..(i - 1) :
          /\ Depth(s, k) >= d
          /\ Depth(s, k) = d => s[k] \notin {"sep", "newline"}}

Before(s, i) == CommandAt(s, i, Depth(s, i))

IsTarget(s, i) == i > 1 /\ s[i - 1] = "redirect"

Preceding ==
  {"assign", "assignSubst", "close", "glued", "keyword", "redirect", "dup", "heredoc"}

\* Nothing before it but assignments, keywords and redirections.
InCommandPlace(s, i) ==
  \A j \in Before(s, i) :
    \/ IsTarget(s, j)
    \/ s[j] \in Preceding

IsCommand(s, i) ==
  s[i] \in {"tool", "other"} /\ ~InBody(s, i) /\ ~IsTarget(s, i) /\ InCommandPlace(s, i)

\* The commands of a script, in order.
CommandsOf(s) ==
  LET upTo[n \in 0..Len(s)] ==
        IF n = 0 THEN <<>>
        ELSE IF IsCommand(s, n) THEN Append(upTo[n - 1], s[n]) ELSE upTo[n - 1]
  IN upTo[Len(s)]

\* Some command is what a substitution returns.
HasComputed(s) ==
  \E i \in DOMAIN s :
    /\ s[i] \in {"subst", "tick"} /\ Opens(s, i) /\ ~IsTarget(s, i)
    /\ InCommandPlace(s, i)

\* The value of an assignment, or the target of a redirection, goes on behind a
\* substitution where a command may still follow.
HasGlued(s) == \E i \in DOMAIN s : s[i] = "glued" /\ InCommandPlace(s, i)

-----------------------------------------------------------------------------
(* The scripts that are compared, those of the grammar of sh made of the   *)
(* pieces above.  Not among them: a target of a redirection in backquotes  *)
(* or made by a process, functions, case, and for (which is not among the  *)
(* keywords); a substitution without a blank between it and what is before *)
(* it, other than X=$( .                                                   *)

\* What is open, and which heredocs are announced, behind the first n pieces.
OpenAt(s, n) ==
  {k \in 1..n : Opens(s, k) /\ \A j \in (k + 1)..n : Depth(s, j) > Depth(s, k)}
Announced(s, n) ==
  {h \in 1..n : s[h] = "heredoc" /\ "newline" \notin {s[k] : k \in h..n}}

\* Piece i may follow the ones before it.
Fits(s, i) ==
  LET p    == s[i]
      open == OpenAt(s, i - 1)
      here == {s[j] : j \in Before(s, i)}
  IN IF InBody(s, i)
       THEN p \in {"other", "tick", "eof"}
       ELSE /\ p # "eof"
            /\ IsTarget(s, i) => p \in Words \cup {"subst"}
            /\ p = "glued" => i > 1 /\ Closes(s, i - 1)
            /\ p \in {"close", "tick"} => Announced(s, i - 1) = {}
            /\ p = "close" => /\ open # {} /\ s[Max(open)] # "tick"
                              /\ Max(open) # i - 1
            /\ Closes(s, i) /\ p = "tick" => open # {} /\ s[Max(open)] = "tick"
            /\ p = "group" => here \subseteq {"keyword"}
            /\ "group" \in here /\ ~IsTarget(s, i) =>
                  p \in {"sep", "newline", "redirect", "dup", "close", "tick"}
            /\ p = "keyword" =>
                  IsTarget(s, i) \/ here \subseteq {"keyword"} \/ ~InCommandPlace(s, i)

InitCommands == script = <<>>

\* The script goes on.
AddPiece(p) ==
  /\ Len(script) < MaxPieces
  /\ Fits(Append(script, p), Len(script) + 1)
  /\ script' = Append(script, p)

NextCommands == \E p \in Pieces : AddPiece(p)

SpecCommands == InitCommands /\ [][NextCommands]_script

-----------------------------------------------------------------------------
(* Properties.                                                             *)

\* What is compared with the tools is exactly the commands sh finds, in their
\* order: nothing is left out behind a pipe, in a substitution or after a heredoc,
\* and no argument, target or text of a heredoc is taken for a command.  Where the
\* command itself is computed, a script that is let through calls tools only.
\* One construct is misread: in X=$(pwd)-dev make the reader takes -dev for the
\* command and never looks at make.
WordsAreCommands ==
  ~HasGlued(script) =>
    /\ ~HasComputed(script) => CommandWords(script) = CommandsOf(script)
    /\ CommandAllowed(script) =>
         \A i \in DOMAIN script : IsCommand(script, i) => script[i] = "tool"
=============================================================================
