------------------------------ MODULE Executor ------------------------------
(***************************************************************************)
(* The executor of harness functions: lib/dispatch/harness/executor.py and  *)
(* the matcher process it hands every pattern to (matcher.py).              *)
(*                                                                         *)
(* The file tree is a constant: entries with a parent and a kind, links     *)
(* with the entry they lead to.  An argument names an entry however it was  *)
(* spelled (relative, absolute, through ..), or is missing.  A result is    *)
(* its outcome and the set of entries whose names or contents it discloses; *)
(* which lines a pattern matches is left open.                              *)
(***************************************************************************)
EXTENDS FiniteSets

CONSTANTS
  Entries,     \* files, directories and links, inside and outside the root
  Root,        \* the working directory
  Parent,      \* each entry's directory; the topmost one's is itself
  Kind,        \* "file", "dir", "link" or "other"
  Target,      \* where a link leads
  Skipped,     \* directories that are never walked
  Binary,      \* files the handlers refuse or skip
  Large,       \* files the search skips
  Nowhere,     \* a name that leads to nothing
  NoPath       \* the argument is absent or empty

ASSUME TreeAssumption ==
  /\ Root \in Entries /\ Nowhere \notin Entries
  /\ Parent \in [Entries -> Entries]
  /\ \A e \in Entries : Kind[e] = "link" => Target[e] \in Entries

Real(e) == IF e \in Entries /\ Kind[e] = "link" THEN Target[e] ELSE e

\* An entry and its parents: the least set that has each one's parent.
Rooted(S) == \A x \in S : Parent[x] \in S
Ancestors ==
  [e \in Entries |-> {x \in Entries : \A S \in SUBSET Entries : e \in S /\ Rooted(S) => x \in S}]

Inside(e) == Root \in Ancestors[e]

\* What an argument resolves to, once links are followed.
Resolve(path) == IF path = NoPath THEN Root ELSE Real(path)

Admissible(path) == path # NoPath => path = Nowhere \/ Inside(Real(path))

\* Mutant: links to files are followed wherever they lead.
WalkLinks(start) ==
  {e \in Entries :
     /\ start \in Ancestors[e] \ {e}
     /\ Kind[Real(e)] = "file"
     /\ Skipped \intersect Ancestors[e] \subseteq Ancestors[start]}
\* Regular files under a directory: directories that are links are not
\* entered, links to files are kept when they lead inside.
Walk(start) ==
  {e \in Entries :
     /\ start \in Ancestors[e] \ {e}
     /\ Kind[Real(e)] = "file"
     /\ Kind[e] = "link" => Inside(Real(e))
     /\ Skipped \intersect Ancestors[e] \subseteq Ancestors[start]}

\* The matcher's share of a search: it skips what is large or binary.
Searchable(files) == {f \in files : Real(f) \notin Large \union Binary}

Refused == [outcome |-> "refused", shows |-> {}]
Failed == [outcome |-> "error", shows |-> {}]
Ok(shown) == [outcome |-> "ok", shows |-> shown]

\* A search ends with some of its candidates, with a bad pattern, or killed
\* at the call's deadline.
MatcherReplies(candidates) == {Ok(S) : S \in SUBSET candidates} \union {Failed}

FnRead(path) ==
  LET e == Resolve(path)
  IN  IF e = Nowhere \/ Kind[e] # "file" \/ e \in Binary THEN {Failed} ELSE {Ok({e})}

Children(d) == {e \in Entries : Parent[e] = d /\ e # d}

FnLs(path) ==
  LET e == Resolve(path)
  IN  IF e = Nowhere \/ Kind[e] # "dir" THEN {Failed} ELSE {Ok(Children(e))}

FnGlob(path) ==
  LET e == Resolve(path)
  IN  IF e = Nowhere \/ Kind[e] # "dir" THEN {Failed} ELSE MatcherReplies(Walk(e))

FnGrep(path) ==
  LET e == Resolve(path)
  IN  IF e = Nowhere \/ Kind[e] \notin {"file", "dir"} THEN {Failed}
      ELSE MatcherReplies(Searchable(IF Kind[e] = "file" THEN {e} ELSE Walk(e)))

Handlers == {"Read", "LS", "Glob", "Grep"}

Handled(name, path) ==
  CASE name = "Read" -> FnRead(path)
    [] name = "LS"   -> FnLs(path)
    [] name = "Glob" -> FnGlob(path)
    [] name = "Grep" -> FnGrep(path)

Admits(name, offered, readOnly, mutating) ==
  name \in offered /\ ~ (readOnly /\ mutating)

\* Arguments of the declared form: no other keys, the declared types, and the
\* one path that is required.
ArgumentsFit(name, path, wellFormed) == wellFormed /\ (name = "Read" => path # NoPath)

\* An admitted call goes to its handler, which may also fail at the call's
\* deadline or in a way nobody anticipated.
Run(name, path, wellFormed, offered, readOnly, mutating) ==
  IF /\ Admits(name, offered, readOnly, mutating)
     /\ ArgumentsFit(name, path, wellFormed)
     /\ name \in Handlers
     /\ Admissible(path)
  THEN Handled(name, path) \union {Failed}
  ELSE {Refused}
=============================================================================
