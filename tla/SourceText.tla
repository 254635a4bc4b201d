----------------------------- MODULE SourceText -----------------------------
(***************************************************************************)
(* From source text to S-expressions: the lexer and its number scanner,    *)
(* the reading of the first expression only, the S-expression parser with  *)
(* its recovery, the completeness test of the interactive prompt, and the  *)
(* field scanner that read and string-to-field use at run time.            *)
(*                                                                         *)
(* The only action types one more character; the readers are functions of  *)
(* the text typed so far. A character is one of the classes the readers    *)
(* tell apart: "a" stands for the letters other than e, "0" for digits,    *)
(* "bad" for a character that starts no token. Tokens carry their extent   *)
(* [from, to) and not their spelling.                                      *)
(***************************************************************************)
EXTENDS Integers, Sequences, FiniteSets, SequencesExt

CONSTANTS
  Alphabet,     \* characters that may be typed
  MaxLength,    \* bound on the length of the text
  MaxNesting    \* MAX_SEXPR_NESTING_DEPTH

ASSUME SourceTextAssumption ==
  MaxLength \in Nat /\ MaxNesting \in Nat \ {0}

VARIABLE src

Space == {" ", "tab", "nl", "cr"}
Letters == {"a", "e"}

At(s, p) == IF p <= Len(s) THEN s[p] ELSE "end"

\* The first position from p on whose character is not in set C.
After(s, p, C) ==
  CHOOSE q \in p..(Len(s) + 1) :
    At(s, q) \notin C /\ \A r \in p..(q - 1) : s[r] \in C

Token(t, from, to) == [t |-> t, from |-> from, to |-> to]

is_symbol_char ==
  Letters \cup {"0", "-", ".", "*", "+", ">", "<", "=", "$", "[", "]", "\\"}

is_bracket_symbol_char ==
  (is_symbol_char \cup {"?", ":"}) \ {"<"}

-----------------------------------------------------------------------------
(* Numbers *)

\* is_symbol_continuation of the CLIPS scanner.
is_symbol_continuation == is_bracket_symbol_char

number_delimiter == {"end", "<", "\"", "(", ")", "&", "|", "~", ";", "bad"} \cup Space

\* One transition of scan_number: the next phase, or "stop" or "symbol".
Phase(phase, c) ==
  CASE phase = "sign" /\ c \in {"+", "-"} -> "integral"
    [] phase \in {"sign", "integral"} /\ c = "0" -> "integral"
    [] phase \in {"sign", "integral"} /\ c = "." -> "decimal"
    [] phase = "decimal" /\ c = "0" -> "decimal"
    [] phase \in {"sign", "integral", "decimal"} /\ c = "e" -> "exponent"
    [] phase = "exponent" /\ c \in {"0", "+", "-"} -> "value"
    [] phase = "value" /\ c = "0" -> "value"
    [] c \in number_delimiter -> "stop"
    [] OTHER -> "symbol"

\* An exponent without digits leaves a symbol.
HasExponent(s, from, to, phase) ==
  /\ phase # "exponent"
  /\ phase = "value" => s[to - 1] = "0"

\* scan_number from p on: the phases up to the one that ends the number.
scan_number(s, p) ==
  LET run[q \in p..(Len(s) + 2)] ==
        IF q = p THEN "sign"
        ELSE LET before == run[q - 1] IN
             IF before \in {"stop", "symbol"} THEN before
             ELSE Phase(before, At(s, q - 1))
      \* the first character that no number goes on with
      end == CHOOSE q \in p..(Len(s) + 1) :
               /\ run[q + 1] \in {"stop", "symbol"}
               /\ run[q] \notin {"stop", "symbol"}
      last == run[end]
      digits == \E q \in p..(end - 1) :
                  s[q] = "0" /\ run[q + 1] \in {"integral", "decimal"} IN
  IF run[end + 1] = "symbol"
  THEN Token("symbol", p, After(s, end + 1, is_symbol_continuation))
  ELSE Token(IF ~(digits /\ HasExponent(s, p, end, last)) THEN "symbol"
             ELSE IF last \in {"sign", "integral"} THEN "integer" ELSE "float",
             p, end)

-----------------------------------------------------------------------------
(* Lexer *)

\* The position after the closing quote of a string whose text starts at p, or
\* one past the end when it is not terminated; a backslash takes the next one.
Close(s, p) ==
  LET esc[q \in p..(Len(s) + 1)] ==
        q > p /\ s[q - 1] = "\\" /\ ~esc[q - 1]
      quotes == {q \in p..Len(s) : s[q] = "\"" /\ ~esc[q]} IN
  IF quotes = {} THEN 0 ELSE (CHOOSE q \in quotes : \A r \in quotes : q <= r) + 1

lex_string(s, p) ==
  LET q == Close(s, p + 1) IN
  IF q = 0 THEN Token("unterminated", p, Len(s) + 1) ELSE Token("string", p, q)

\* A name of a variable: it stops before an arrow that follows without a space.
NameEnd(s, p) ==
  LET q == After(s, p, is_symbol_char)
      arrows == {r \in p..(q - 1) : s[r] = "<" /\ At(s, r + 1) = "-"} IN
  IF arrows = {} THEN q ELSE CHOOSE r \in arrows : \A t \in arrows : r <= t

\* A module separator at p: two colons with a name after them.
Separator(s, p) ==
  At(s, p) = ":" /\ At(s, p + 1) = ":" /\ At(s, p + 2) \in is_symbol_char

\* The end of a symbol that may be qualified; any number of separators.
SymbolEnd(s, p) ==
  LET in[q \in p..(Len(s) + 1)] ==
        \/ q = p
        \/ /\ in[q - 1]
           /\ \/ s[q - 1] \in is_symbol_char
              \/ Separator(s, q - 1)
              \/ (q > p + 1 /\ Separator(s, q - 2) /\ in[q - 2])
      ends == {q \in p..(Len(s) + 1) : in[q]} IN
  CHOOSE q \in ends : \A r \in ends : r <= q

\* ?*name*, with at most one separator and not before the name; the closing star
\* is optional.
GlobalEnd(s, p) ==
  LET sep == {q \in p..Len(s) : /\ Separator(s, q) /\ q > p
                                /\ \A r \in p..(q - 1) : s[r] \in is_symbol_char \ {"*"}}
      from == IF sep = {} THEN p ELSE (CHOOSE q \in sep : TRUE) + 2
      q == After(s, from, is_symbol_char \ {"*"}) IN
  IF At(s, q) = "*" THEN q + 1 ELSE q

lex_variable(s, p) ==
  IF At(s, p + 1) = "*" THEN Token("global", p, GlobalEnd(s, p + 2))
  ELSE Token("single", p, NameEnd(s, p + 1))

lex_multivar(s, p) == Token("multi", p, NameEnd(s, p + 2))

lex_symbol(s, p) ==
  LET q == IF s[p] = "[" THEN After(s, p, is_bracket_symbol_char)
           ELSE SymbolEnd(s, p) IN
  Token(IF q - p > 2 /\ s[p] = "[" /\ s[q - 1] = "]" THEN "instance"
        ELSE "symbol", p, q)

\* The connective, unless it starts a symbol such as =>.
EqualsAt(s, p) ==
  IF At(s, p + 1) \in is_symbol_char THEN lex_symbol(s, p)
  ELSE Token("=", p, p + 1)

\* What lex_until does at p: the end of a run of space, a comment or one token.
LexAt(s, p) ==
  LET c == s[p] IN
  CASE c \in Space -> Token("space", p, p + 1)
    [] c = ";" -> Token("space", p, After(s, p + 1, Alphabet \ {"nl", "cr"}))
    [] c \in {"(", ")", "&", "|", "~", ":"} -> Token(c, p, p + 1)
    [] c = "\"" -> lex_string(s, p)
    [] c = "?" -> lex_variable(s, p)
    [] c = "$" -> IF At(s, p + 1) = "?" THEN lex_multivar(s, p) ELSE lex_symbol(s, p)
    [] c = "=" -> EqualsAt(s, p)
    [] c = "<" -> IF At(s, p + 1) = "-" THEN Token("<-", p, p + 2)
                  ELSE lex_symbol(s, p)
    [] c \in {"0", ".", "+", "-"} -> scan_number(s, p)
    [] c \in is_symbol_char -> lex_symbol(s, p)
    [] OTHER -> Token("unexpected", p, p + 1)

\* All items of the text in order, errors among them.
Items(s) ==
  LET upto[p \in 0..Len(s)] ==
        IF p = 0 THEN <<>>
        ELSE LET done == upto[p - 1]
                 next == IF done = <<>> THEN 1 ELSE done[Len(done)].to IN
             IF next = p THEN Append(done, LexAt(s, p)) ELSE done IN
  SelectSeq(upto[Len(s)], LAMBDA i : i.t # "space")

Errors == {"unterminated", "unexpected"}
IsError(i) == i.t \in Errors

\* lex_all: the tokens, or only the errors when there is one.
lex_all(items) ==
  LET errors == SelectSeq(items, IsError) IN
  IF errors = <<>> THEN [ok |-> TRUE, items |-> items]
  ELSE [ok |-> FALSE, items |-> errors]

\* The depth that lex_first counts after each item.
FirstDepth(items) ==
  [k \in 0..Len(items) |->
     FoldSeq(LAMBDA i, d : IF i.t = "(" THEN d + 1
                           ELSE IF i.t = ")" /\ d > 0 THEN d - 1 ELSE d,
             0, Reverse(SubSeq(items, 1, k)))]

\* Mutant: the text after the first expression is read as well.
FirstReadsOn(items) == {k \in 1..Len(items) : IsError(items[k])}

\* Where lex_first may stop: at an error, or when its depth is zero.
FirstStops(items) ==
  {k \in 1..Len(items) : IsError(items[k]) \/ FirstDepth(items)[k] = 0}

lex_first(items) ==
  LET stops == FirstStops(items) IN
  lex_all(IF stops = {} THEN items
          ELSE SubSeq(items, 1, CHOOSE k \in stops : \A j \in stops : k <= j))

-----------------------------------------------------------------------------
(* Lines *)

\* Lexer::advance: a newline after a carriage return moves nothing but the
\* offset.
advance(pos, c, cr) ==
  IF c = "nl" /\ cr THEN pos
  ELSE IF c \in {"nl", "cr"} THEN [line |-> pos.line + 1, column |-> 1]
  ELSE [pos EXCEPT !.column = @ + 1]

\* The position before each character of the text.
Positions(s) ==
  LET pos[p \in 1..(Len(s) + 1)] ==
        IF p = 1 THEN [line |-> 1, column |-> 1]
        ELSE LET before == pos[p - 1] IN
             advance(before, s[p - 1], p > 2 /\ s[p - 2] = "cr") IN
  pos

-----------------------------------------------------------------------------
(* S-expressions *)

Atom(k) == [kind |-> "atom", at |-> k, items |-> <<>>]
ListOf(items, from) == [kind |-> "list", at |-> from, items |-> items]

\* append_expr: to the innermost open list, or to the roots.
append_expr(st, e) ==
  IF st.frames = <<>> THEN [st EXCEPT !.exprs = Append(@, e)]
  ELSE [st EXCEPT !.frames[Len(st.frames)].items = Append(@, e)]

\* skip_current_list: the index after the list that starts at token k.
skip_current_list(toks, k) ==
  LET depth == [j \in k..Len(toks) |->
        Cardinality({i \in k..j : toks[i].t = "("})
        - Cardinality({i \in k..j : toks[i].t = ")"})]
      closed == {j \in k..Len(toks) : depth[j] = 0} IN
  IF closed = {} THEN Len(toks) + 1
  ELSE (CHOOSE j \in closed : \A i \in closed : j <= i) + 1

AtLimit(frames) == Len(frames) = MaxNesting

\* The state of parse_all after it has read the tokens up to k - 1; next is the
\* token it reads then, which a skip moves on.
ParseStep(toks, st, k) ==
  IF k < st.next THEN st
  ELSE CASE toks[k].t = "(" /\ AtLimit(st.frames) ->
              [st EXCEPT !.errors = Append(@, <<"too-deep", k>>),
                         !.next = skip_current_list(toks, k)]
         [] toks[k].t = "(" /\ ~AtLimit(st.frames) ->
              [st EXCEPT !.frames = Append(@, [from |-> k, items |-> <<>>]),
                         !.next = k + 1]
         [] toks[k].t = ")" /\ st.frames # <<>> ->
              LET f == st.frames[Len(st.frames)] IN
              append_expr([st EXCEPT !.frames = Front(@), !.next = k + 1],
                          ListOf(f.items, f.from))
         [] toks[k].t = ")" /\ st.frames = <<>> ->
              [st EXCEPT !.errors = Append(@, <<"unexpected-close", k>>),
                         !.next = k + 1]
         [] OTHER -> append_expr([st EXCEPT !.next = k + 1], Atom(k))

\* At the end every open list is reported and closed, the innermost first.
CloseAll(st) ==
  LET closing[n \in 0..Len(st.frames)] ==
        IF n = 0 THEN st
        ELSE LET s == closing[n - 1]
                 f == s.frames[Len(s.frames)] IN
             append_expr([s EXCEPT !.frames = Front(@),
                                   !.errors = Append(@, <<"unclosed", f.from>>)],
                         ListOf(f.items, f.from)) IN
  closing[Len(st.frames)]

parse_all(toks) ==
  LET run[k \in 0..Len(toks)] ==
        IF k = 0 THEN [frames |-> <<>>, exprs |-> <<>>, errors |-> <<>>, next |-> 1]
        ELSE LET st == run[k - 1] IN ParseStep(toks, st, k) IN
  CloseAll(run[Len(toks)])

\* parse_tokens: lexical errors leave no expression at all.
parse_tokens(lexed) ==
  IF lexed.ok THEN parse_all(lexed.items)
  ELSE [frames |-> <<>>, exprs |-> <<>>, next |-> 1,
        errors |-> [k \in DOMAIN lexed.items |-> <<lexed.items[k].t, k>>]]

-----------------------------------------------------------------------------
(* The prompt *)

\* One character of parens_balanced.
PromptStep(m, c) ==
  IF m.mode = "comment" THEN [m EXCEPT !.mode = IF c \in {"nl", "cr"} THEN "code" ELSE @]
  ELSE IF m.mode = "escaped" THEN [m EXCEPT !.mode = "string"]
  ELSE IF m.mode = "string"
  THEN [m EXCEPT !.mode = IF c = "\\" THEN "escaped"
                          ELSE IF c = "\"" THEN "code" ELSE "string"]
  ELSE [depth |-> m.depth + (IF c = "(" THEN 1 ELSE IF c = ")" THEN -1 ELSE 0),
        mode |-> CASE c = ";" -> "comment" [] c = "\"" -> "string" [] OTHER -> "code"]

Prompt(s) ==
  LET m[p \in 0..Len(s)] ==
        IF p = 0 THEN [depth |-> 0, mode |-> "code"]
        ELSE LET before == m[p - 1] IN PromptStep(before, s[p]) IN
  m[Len(s)]

parens_balanced(s) == Prompt(s).depth <= 0 /\ Prompt(s).mode \in {"code", "comment"}

-----------------------------------------------------------------------------
(* The field scanner *)

scan_variable(s, p) ==
  Token("other", p, IF At(s, p) \in Letters \cup {"*"}
                    THEN After(s, p, is_symbol_continuation) ELSE p)

\* next_token at p, where no space and no comment starts.
FieldAt(s, p) ==
  LET c == s[p]
      suffix == After(s, p + 1, is_symbol_continuation) IN
  CASE c \in Letters -> Token("symbol", p, suffix)
    [] c \in {"0", "-", "+", "."} -> scan_number(s, p)
    [] c = "\"" -> LET q == Close(s, p + 1) IN
                   IF q = 0 THEN Token("unterminated", p, Len(s) + 1)
                   ELSE Token("string", p, q)
    [] c = "?" -> [scan_variable(s, p + 1) EXCEPT !.from = p]
    [] c = "$" -> IF At(s, p + 1) = "?"
                  THEN [scan_variable(s, p + 2) EXCEPT !.from = p]
                  ELSE Token("symbol", p, suffix)
    [] c = "<" -> Token("symbol", p, suffix)
    [] c \in {"(", ")", "~", "|", "&"} -> Token(c, p, p + 1)
    [] c = "bad" -> Token("unexpected", p, p + 1)
    [] OTHER -> Token(IF suffix - p > 2 /\ c = "[" /\ s[suffix - 1] = "]"
                      THEN "instance" ELSE "symbol", p, suffix)

Fields(s) ==
  LET upto[p \in 0..Len(s)] ==
        IF p = 0 THEN <<>>
        ELSE LET done == upto[p - 1]
                 next == IF done = <<>> THEN 1 ELSE done[Len(done)].to IN
             IF next # p THEN done
             ELSE IF s[p] \in Space THEN Append(done, Token("space", p, p + 1))
             ELSE IF s[p] = ";"
             THEN Append(done, Token("space", p, After(s, p + 1, Alphabet \ {"nl", "cr"})))
             ELSE Append(done, FieldAt(s, p)) IN
  SelectSeq(upto[Len(s)], LAMBDA i : i.t # "space")

-----------------------------------------------------------------------------
TextInit == src = <<>>

Type(c) == Len(src) < MaxLength /\ src' = Append(src, c)

TextNext == \E c \in Alphabet : Type(c)

TextSpec == TextInit /\ [][TextNext]_src

-----------------------------------------------------------------------------
(* Properties *)

Texts(s, toks) == [k \in DOMAIN toks |-> SubSeq(s, toks[k].from, toks[k].to - 1)]

\* The text of the tokens with one space between them.
Joined(s, toks) ==
  FoldSeq(LAMBDA t, rest : t \o <<" ">> \o rest, <<>>, Texts(s, toks))

\* Writing the tokens of a text with single spaces between them and reading
\* them again gives the same tokens: nothing a token is depends on what stood
\* around it. Rules are shown and read again from slices of their source.
Rereads ==
  \A toks \in {Items(src)} : lex_all(toks).ok =>
    \A again \in {Items(Joined(src, toks))} :
      /\ Len(again) = Len(toks)
      /\ \A k \in DOMAIN again :
           /\ again[k].t = toks[k].t
           /\ again[k].to - again[k].from = toks[k].to - toks[k].from

\* Digits with at most one point and at least one digit.
Mantissa(w) ==
  /\ \A k \in DOMAIN w : w[k] \in {"0", "."}
  /\ \E k \in DOMAIN w : w[k] = "0"
  /\ Cardinality({k \in DOMAIN w : w[k] = "."}) <= 1

Unsigned(w) == IF w # <<>> /\ w[1] \in {"+", "-"} THEN Tail(w) ELSE w

Exponent(w) == Unsigned(w) # <<>> /\ \A k \in DOMAIN Unsigned(w) : Unsigned(w)[k] = "0"

FloatText(w) ==
  \/ Mantissa(w) /\ \E k \in DOMAIN w : w[k] = "."
  \/ \E k \in DOMAIN w : /\ w[k] = "e" /\ Mantissa(SubSeq(w, 1, k - 1))
                          /\ Exponent(SubSeq(w, k + 1, Len(w)))

IntegerText(w) == Mantissa(w) /\ \A k \in DOMAIN w : w[k] = "0"

\* The scanner, which decides as it goes, makes a token a number exactly when
\* its whole spelling is one: an exponent without digits, a second point or a
\* letter leaves a symbol.
NumbersExact ==
  \A i \in Range(Items(src)) : \A w \in {Unsigned(SubSeq(src, i.from, i.to - 1))} :
    /\ i.t = "integer" <=> src[i.from] \in {"0", "+", "-", "."} /\ IntegerText(w)
    /\ i.t = "float" <=> src[i.from] \in {"0", "+", "-", "."} /\ FloatText(w)

\* The line of every token is one more than the line ends before it, where a
\* carriage return and a newline that follows it are one.
LinesExact ==
  \A p \in {i.from : i \in Range(Items(src))} :
    Positions(src)[p].line =
      1 + Cardinality({q \in 1..(p - 1) :
            src[q] = "cr" \/ (src[q] = "nl" /\ ~(q > 1 /\ src[q - 1] = "cr"))})

\* The depth of token k: lists open before it, an unmatched closer opens none.
OpenBefore(toks, k) == FirstDepth(toks)[k - 1]

\* Tokens of a list that is too deep: those from its parenthesis to its end.
Skipped(toks) ==
  {k \in DOMAIN toks :
     \E j \in 1..k : /\ toks[j].t = "(" /\ OpenBefore(toks, j) = MaxNesting
                     /\ \A i \in (j + 1)..k : OpenBefore(toks, i) > MaxNesting}

RECURSIVE Leaves(_)
Leaves(e) ==
  IF e.kind = "atom" THEN <<e.at>>
  ELSE <<e.at>> \o FoldSeq(LAMBDA i, rest : Leaves(i) \o rest, <<>>, e.items)

RECURSIVE Height(_)
Height(e) ==
  IF e.kind = "atom" THEN 0
  ELSE 1 + FoldSeq(LAMBDA i, h : LET n == Height(i) IN IF n > h THEN n ELSE h,
                   0, e.items)

\* Whatever the parentheses, the parser keeps every other token, in order and
\* exactly once, except those of a list nested too deep; it reports an error
\* exactly when parentheses do not match or a list is too deep, and no tree is
\* deeper than the limit.
RecoveryExact ==
  \A toks \in {Items(src)} : lex_all(toks).ok =>
    \A parsed \in {parse_all(toks)} :
      /\ FoldSeq(LAMBDA e, rest : Leaves(e) \o rest, <<>>, parsed.exprs) =
           SelectSeq([k \in DOMAIN toks |-> k],
                     LAMBDA k : k \notin Skipped(toks) /\ toks[k].t # ")")
      /\ \A e \in Range(parsed.exprs) : Height(e) <= MaxNesting
      /\ parsed.errors = <<>> <=>
           /\ FirstDepth(toks)[Len(toks)] = 0
           /\ \A k \in DOMAIN toks : toks[k].t = ")" => OpenBefore(toks, k) > 0
           /\ Skipped(toks) = {}

\* The prompt asks for more exactly while the parser would miss a closing
\* parenthesis or the lexer a closing quote, as long as no parenthesis is
\* closed that was not open.
PromptAgrees ==
  \A items \in {Items(src)} :
    (\A k \in DOMAIN items : items[k].t = ")" => OpenBefore(items, k) > 0)
      => (parens_balanced(src) <=>
            /\ \A i \in Range(items) : i.t # "unterminated"
            /\ FirstDepth(items)[Len(items)] = 0)

\* The result of parse_first_sexpr, without where its tokens ended.
First(s) == parse_tokens(lex_first(Items(s)))

\* Once the first expression is a complete list, whatever is typed after it,
\* errors included, leaves what eval and build read as it is.
FirstIsFinal ==
  \A first \in {First(src)} :
    first.errors = <<>> /\ first.exprs # <<>> /\ first.exprs[1].kind = "list"
      => First(src') = first

\* Characters on which the two scanners have the same grammar.
Shared == {"(", ")", "\"", "\\", ";", " ", "nl", "cr", "a", "e", "0", "-", "+",
           ".", "[", "]", "&", "~", "|", "bad"}

\* The field scanner of read and string-to-field finds the same fields, with
\* the same extents and types, as the lexer does in source: over the characters
\* both give a meaning (Shared).
FieldsAgree == Range(src) \subseteq Shared => Fields(src) = Items(src)
=============================================================================
