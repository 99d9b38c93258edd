--------------------------- MODULE ParsePipeline ---------------------------
(***************************************************************************)
(* parse_pipeline() of mysh.c on every line of up to MaxLine characters.   *)
(* A character is a letter, a blank (is_space()), the bar or the           *)
(* terminating NUL; each iteration of the outer loop is a step.            *)
(***************************************************************************)
EXTENDS Integers, Sequences, FiniteSets, SequencesExt, FiniteSetsExt

CONSTANTS MaxLine, MAX_COMMANDS, MAX_ARGS

ASSUME ParseAssumption ==
    MaxLine \in Nat /\ MAX_COMMANDS \in Nat \ {0} /\ MAX_ARGS \in Nat \ {0}

Letter == "a"
Blank == " "
Bar == "|"
NUL == "0"
Char == {Letter, Blank, Bar}
Parsing == -2

VARIABLES
    input,   \* the line as it was read
    line,    \* the buffer, which parsing cuts into words
    pos,     \* the position in it
    cmds,    \* the argv of the commands seen: sequences of positions in line
    result   \* Parsing, or the value returned

parseVars == <<input, line, pos, cmds, result>>

Lines == BoundedSeq(Char, MaxLine)

\* The call: parse_pipeline(l, cmds).
Parse(l) ==
    /\ input' = l
    /\ line' = Append(l, NUL)
    /\ pos' = 1
    /\ cmds' = << << >> >>
    /\ result' = Parsing

argc == Len(Last(cmds))

\* The first position from k on whose character is in C; NUL ends the search.
Find(k, C) == Min({j \in k .. Len(line) : line[j] \in C \cup {NUL}})

ParseReturn(r) == result' = r /\ UNCHANGED <<input, line, pos, cmds>>

\* The next command: cmd_index++, argc = 0.
NextCmd(cs) ==
    IF Len(cs) >= MAX_COMMANDS
    THEN result' = -1 /\ UNCHANGED cmds
    ELSE cmds' = Append(cs, << >>) /\ UNCHANGED result

AtEnd ==
    /\ result = Parsing
    /\ line[Find(pos, {Letter, Bar})] = NUL
    /\ ParseReturn(IF argc > 0 THEN Len(cmds) ELSE IF Len(cmds) = 1 THEN 0 ELSE -1)

\* Mutant: two bars in a row are let through.
AtBarLax ==
    /\ result = Parsing
    /\ LET k == Find(pos, {Letter, Bar})
       IN  /\ line[k] = Bar
           /\ pos' = k + 1 /\ NextCmd(cmds) /\ UNCHANGED <<input, line>>

AtBar ==
    /\ result = Parsing
    /\ LET k == Find(pos, {Letter, Bar})
       IN  /\ line[k] = Bar
           /\ IF argc = 0
              THEN ParseReturn(-1)
              ELSE pos' = k + 1 /\ NextCmd(cmds) /\ UNCHANGED <<input, line>>

\* A word, and the bar that ends it if one does.
AtWord ==
    /\ result = Parsing
    /\ LET k == Find(pos, {Letter, Bar})
           e == Find(k, {Blank, Bar})
           cs == [cmds EXCEPT ![Len(cmds)] = Append(@, k)]
       IN  /\ line[k] = Letter
           /\ IF argc >= MAX_ARGS - 1
              THEN ParseReturn(-1)
              ELSE /\ line' = [line EXCEPT ![e] = NUL]
                   /\ pos' = IF line[e] = NUL THEN e ELSE e + 1
                   /\ IF line[e] = Bar
                      THEN NextCmd(cs)
                      ELSE cmds' = cs /\ UNCHANGED result
                   /\ UNCHANGED input

ParseStep == AtEnd \/ AtBar \/ AtWord
-----------------------------------------------------------------------------
\* The definition parsing is checked against: the line cut at its bars, each
\* piece cut at its blanks into words <<first, last>>.
BarsBefore(k) == Cardinality({j \in 1 .. k - 1 : input[j] = Bar})

WordsOf(c) ==
    LET from == {k \in 1 .. Len(input) :
                    /\ input[k] = Letter /\ BarsBefore(k) = c - 1
                    /\ k = 1 \/ input[k - 1] # Letter}
        end(k) == Max({j \in k .. Len(input) : \A m \in k .. j : input[m] = Letter})
    IN  {<<k, end(k)>> : k \in from}

Pieces == BarsBefore(Len(input) + 1) + 1

Expected ==
    CASE \A k \in 1 .. Len(input) : input[k] = Blank -> 0
      [] \E c \in 1 .. Pieces : WordsOf(c) = {} -> -1
      [] Pieces > MAX_COMMANDS -> -1
      [] \E c \in 1 .. Pieces : Cardinality(WordsOf(c)) >= MAX_ARGS -> -1
      [] OTHER -> Pieces

\* The word that argv points to: up to the next NUL of the buffer.
WordAt(k) == <<k, Find(k, {}) - 1>>

\* parse_pipeline() accepts exactly the lines whose every piece is a command of
\* acceptable size, and then argv holds the words of each piece in order.
ParsesRight ==
    result # Parsing =>
        /\ result = Expected
        /\ result > 0 =>
              \A c \in 1 .. result :
                  /\ {WordAt(cmds[c][k]) : k \in 1 .. Len(cmds[c])} = WordsOf(c)
                  /\ \A k \in 2 .. Len(cmds[c]) : cmds[c][k - 1] < cmds[c][k]
=============================================================================
