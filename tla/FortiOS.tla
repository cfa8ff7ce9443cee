------------------------------- MODULE FortiOS --------------------------------
(***************************************************************************)
(* netops-auditor: what it reads a FortiOS configuration as.               *)
(*                                                                         *)
(* A text is a sequence of lines, a line a sequence of characters, where a *)
(* whole word counts as one character: what the reader tells apart are the *)
(* blank, the quote, the backslash, the comment sign and the line break.   *)
(* A name or a value is a sequence of characters.                          *)
(*                                                                         *)
(* A tree is a function from the paths of its nodes to the nodes.  A step  *)
(* of a path is a "config" or an "edit" with its name, so that a section   *)
(* and an entry of one name are told apart as the two dictionaries of a    *)
(* node do.  The parser's stack is the path of the node it is in.          *)
(***************************************************************************)
EXTENDS Integers, SequencesExt

Blank     == " "
Quote     == "\""
Backslash == "\\"
Break     == "\n"
Comment   == "#"

\* sep.join(parts)
Joined(parts, sep) ==
  IF parts = <<>> THEN <<>>
  ELSE FoldLeft(LAMBDA all, part : all \o <<sep>> \o part, Head(parts), Tail(parts))

-----------------------------------------------------------------------------
(* Lines and tokens                                                        *)

\* Read(...Read(Read(start, s[1]), s[2])..., s[n]): FoldLeft, for sequences that
\* are too long for it; the set has TLC read s[n - 1] before s[n].
Reading(Read(_, _), start, s) ==
  LET after[n \in 0..Len(s)] ==
        IF n = 0 THEN start
        ELSE CHOOSE read \in {Read(before, s[n]) : before \in {after[n - 1]}} : TRUE
  IN  after[Len(s)]

\* A quote after a backslash does not count, whether or not the backslash is
\* itself escaped.
Quotes(buffer) ==
  {i \in DOMAIN buffer : buffer[i] = Quote /\ (i > 1 => buffer[i - 1] # Backslash)}

\* The line that began at start ends when its quotes are even.
Buffered(read, start, buffer) ==
  IF Cardinality(Quotes(buffer)) % 2 = 0
    THEN [number |-> read.number + 1, open |-> 0, buffer |-> <<>>,
          lines |-> Append(read.lines, [number |-> start, raw |-> buffer])]
    ELSE [read EXCEPT !.number = @ + 1, !.open = start, !.buffer = buffer]

\* open is the number of the line the logical line began on, 0 between two.
ReadLine(read, line) ==
  IF read.open = 0 THEN Buffered(read, read.number + 1, line)
  ELSE Buffered(read, read.open, read.buffer \o <<Break>> \o line)

LogicalLines(text) ==
  Reading(ReadLine, [number |-> 0, open |-> 0, buffer |-> <<>>, lines |-> <<>>], text)

ReadCharacter(read, c) ==
  CASE read.escaped ->
         [read EXCEPT !.current = Append(@, c), !.escaped = FALSE]
    [] ~read.escaped /\ c = Backslash /\ read.inQuotes ->
         [read EXCEPT !.escaped = TRUE]
    [] ~read.escaped /\ c = Quote ->
         [read EXCEPT !.inQuotes = ~@, !.quoted = TRUE]
    [] ~read.escaped /\ c = Blank /\ ~read.inQuotes ->
         IF read.current # <<>> \/ read.quoted
           THEN [read EXCEPT !.tokens = Append(@, read.current), !.current = <<>>,
                             !.quoted = FALSE]
           ELSE read
    [] OTHER -> [read EXCEPT !.current = Append(@, c)]

Tokens(read) ==
  IF read.current # <<>> \/ read.quoted
    THEN Append(read.tokens, read.current) ELSE read.tokens

Tokenize(raw) ==
  Tokens(Reading(ReadCharacter,
           [tokens |-> <<>>, current |-> <<>>, inQuotes |-> FALSE,
            escaped |-> FALSE, quoted |-> FALSE], raw))

IsComment(raw) ==
  \E i \in DOMAIN raw : raw[i] = Comment /\ \A j \in 1..(i - 1) : raw[j] = Blank

-----------------------------------------------------------------------------
(* The tree                                                                *)

NoAttributes == [name \in {} |-> 0]

\* Mutant: a block that comes again begins anew.
EnterAnew(state, kind, name, number) ==
  LET path == Append(state.path, [kind |-> kind, name |-> name]) IN
  [state EXCEPT
     !.path = path,
     !.tree = [p \in {q \in DOMAIN @ : ~IsPrefix(path, q)} \cup {path} |->
                 IF p = path THEN [line |-> number, attrs |-> NoAttributes] ELSE @[p]]]

\* A block that comes again is the node it was before.
Enter(state, kind, name, number) ==
  LET path == Append(state.path, [kind |-> kind, name |-> name]) IN
  [state EXCEPT
     !.path = path,
     !.tree = [p \in DOMAIN @ \cup {path} |->
                 IF p \in DOMAIN @ THEN @[p]
                 ELSE [line |-> number, attrs |-> NoAttributes]]]

\* The last of several assignments stands.
Assign(state, name, values, number, unset) ==
  LET attr == [values |-> values, line |-> number, unset |-> unset] IN
  [state EXCEPT
     !.tree[state.path].attrs =
        [n \in DOMAIN @ \cup {name} |-> IF n = name THEN attr ELSE @[n]]]

ReadTokens(state, tokens, number) ==
  LET name   == IF Len(tokens) > 1 THEN tokens[2] ELSE <<>>
      failed == [state EXCEPT !.ok = FALSE]
  IN
  IF tokens = <<>> THEN state ELSE
  CASE tokens[1] = <<"config">> -> Enter(state, "config", Joined(Tail(tokens), Blank), number)
    [] tokens[1] = <<"edit">>   -> Enter(state, "edit", name, number)
    [] tokens[1] = <<"set">>    ->
         IF Len(tokens) < 2 THEN failed
         ELSE Assign(state, name, SubSeq(tokens, 3, Len(tokens)), number, FALSE)
    [] tokens[1] = <<"unset">>  ->
         IF Len(tokens) < 2 THEN failed ELSE Assign(state, name, <<>>, number, TRUE)
    [] tokens[1] \in {<<"next">>, <<"end">>} ->
         IF state.path = <<>> THEN failed ELSE [state EXCEPT !.path = Front(@)]
    [] OTHER -> state

ReadCommand(state, line) ==
  IF ~state.ok \/ IsComment(line.raw) THEN state
  ELSE ReadTokens(state, Tokenize(line.raw), line.number)

\* ok is FALSE where the code raises a ParseError.
Parsed(state, open) ==
  [ok |-> state.ok /\ state.path = <<>> /\ open = 0, tree |-> state.tree]

ParseLines(logical) ==
  Parsed(Reading(ReadCommand,
           [ok |-> TRUE, path |-> <<>>,
            tree |-> [p \in {<<>>} |-> [line |-> 0, attrs |-> NoAttributes]]],
           logical.lines),
         logical.open)

Parse(text) == ParseLines(LogicalLines(text))

-----------------------------------------------------------------------------
(* Looking at a tree                                                       *)

Section(names) == [i \in DOMAIN names |-> [kind |-> "config", name |-> names[i]]]

HasSection(tree, names) == Section(names) \in DOMAIN tree

\* The paths of the entries of a section.
Entries(tree, names) ==
  {p \in DOMAIN tree :
     p # <<>> /\ Front(p) = Section(names) /\ Last(p).kind = "edit"}

EntryNames(tree, names) == {Last(p).name : p \in Entries(tree, names)}

Has(tree, path, name) ==
  name \in DOMAIN tree[path].attrs /\ ~tree[path].attrs[name].unset

Values(tree, path, name) ==
  IF Has(tree, path, name) THEN tree[path].attrs[name].values ELSE <<>>

\* The empty string where the code has none: no check tells them apart.
Value(tree, path, name) == Joined(Values(tree, path, name), Blank)

\* 0 where the code has none.
LineOf(tree, path, name) ==
  IF name \in DOMAIN tree[path].attrs THEN tree[path].attrs[name].line ELSE 0

LineOr(tree, path, name) ==
  IF LineOf(tree, path, name) # 0 THEN LineOf(tree, path, name) ELSE tree[path].line

PathNames(path) == [i \in DOMAIN path |-> path[i].name]

=============================================================================
