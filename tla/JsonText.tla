------------------------------ MODULE JsonText ------------------------------
(***************************************************************************)
(* The texts of cJSON.c: parsing, printing and minifying.  A text is a     *)
(* sequence of bytes; the text to parse ends with a zero, as cJSON_Parse   *)
(* passes it.  The C functions are operators: a parser takes and returns a *)
(* buffer b, a printer a buffer p, each with the allocations made so far.  *)
(* The application writes a text, parses it and prints what it got.        *)
(*                                                                         *)
(* Numbers are signed digits, of which strtod and sprintf make the number  *)
(* and the same digits; fractions and exponents are left out.              *)
(***************************************************************************)
EXTENDS Integers, Sequences, FiniteSets, SequencesExt, FiniteSetsExt

CONSTANTS
  Seeds,               \* texts to begin with
  Pieces,              \* what may be added to a text
  MaxPieces,           \* bound: pieces added
  Lengths,             \* sizes of the buffer for cJSON_PrintBuffered
  CJSON_NESTING_LIMIT,
  NumberMax,           \* digits that fit number_c_string
  DefaultBuffer,       \* size of the buffer print begins with
  INT_MAX

ASSUME TextAssumption ==
  /\ \A s \in Seeds \cup Pieces : s \in Seq(1 .. 255)
  /\ Lengths \subseteq Nat
  /\ {MaxPieces, CJSON_NESTING_LIMIT, NumberMax, DefaultBuffer, INT_MAX} \subseteq Nat

VARIABLES
  text,     \* the text, without the zero at its end
  added,    \* pieces added to it
  parsed,   \* what cJSON_Parse returned
  printed   \* what a printer returned

vars == <<text, added, parsed, printed>>

None == [done |-> FALSE]

-----------------------------------------------------------------------------
(* Bytes. *)

Quote     == 34
Comma     == 44
Minus     == 45
Slash     == 47
Colon     == 58
LBracket  == 91
Backslash == 92
RBracket  == 93
LBrace    == 123
RBrace    == 125

Literals == [null  |-> <<110, 117, 108, 108>>,
             false |-> <<102, 97, 108, 115, 101>>,
             true  |-> <<116, 114, 117, 101>>]

IsDigit(c) == c \in 48 .. 57

(* The letter after a backslash for each byte with an escape of its own. *)
Escapes == {<<34, 34>>, <<92, 92>>, <<8, 98>>, <<12, 102>>, <<10, 110>>, <<13, 114>>, <<9, 116>>}

Letter(c) == (CHOOSE e \in Escapes : e[1] = c)[2]

Starts(t, i, s) == i + Len(s) <= Len(t) /\ SubSeq(t, i + 1, i + Len(s)) = s

(* A C string ends at its first zero. *)
CString(s) == IF 0 \in ToSet(s) THEN SubSeq(s, 1, SelectInSeq(s, LAMBDA c : c = 0) - 1) ELSE s

-----------------------------------------------------------------------------
(* Trees, as they are read: the texts of strings, names and digits. *)

Item(type, s, kids) == [type |-> type, text |-> s, named |-> FALSE, name |-> <<>>, kids |-> kids]

RECURSIVE Blocks(_)
(* The allocations a tree consists of. *)
Blocks(v) == 1 + (IF v.type = "string" THEN 1 ELSE 0) + (IF v.named THEN 1 ELSE 0)
             + FoldLeft(LAMBDA n, k : n + Blocks(k), 0, v.kids)

BlocksOf(kids) == FoldLeft(LAMBDA n, k : n + Blocks(k), 0, kids)

-----------------------------------------------------------------------------
(* Parsing. *)

Buffer(t, fail) == [t |-> t, off |-> 0, depth |-> 0, fail |-> fail, allocs |-> 0, live |-> 0,
                    over |-> FALSE, tight |-> TRUE]

(* The allocation number b.fail fails. *)
Allocate(b) == [b EXCEPT !.allocs = @ + 1, !.live = IF b.allocs + 1 = b.fail THEN @ ELSE @ + 1]

Fails(b) == b.allocs + 1 = b.fail

Free(b, n) == [b EXCEPT !.live = @ - n]

Advance(b, n) == [b EXCEPT !.off = @ + n]

can_access(b) == b.off < Len(b.t)

Sees(b, c) == can_access(b) /\ b.t[b.off + 1] = c

Parsed(b, v) == [b |-> b, ok |-> TRUE, v |-> v]
Failed(b)    == [b |-> b, ok |-> FALSE, v |-> <<>>]

(* At the end it stays there. *)
MutSkip(b) ==
  LET rest == {i \in b.off .. Len(b.t) - 1 : b.t[i + 1] > 32}
  IN  [b EXCEPT !.off = IF rest = {} THEN Len(b.t) ELSE Min(rest)]

(* At the end of the text it steps back to the last byte. *)
buffer_skip_whitespace(b) ==
  LET rest == {i \in b.off .. Len(b.t) - 1 : b.t[i + 1] > 32}
  IN  IF ~can_access(b) THEN b
      ELSE [b EXCEPT !.off = IF rest = {} THEN Len(b.t) - 1 ELSE Min(rest)]

skip_utf8_bom(b) ==
  IF Len(b.t) > 4 /\ Starts(b.t, 0, <<239, 187, 191>>) THEN Advance(b, 3) ELSE b

(* A sign and digits; without a digit nothing is a number. *)
strtod(s) ==
  LET first == IF s # <<>> /\ s[1] = Minus THEN 2 ELSE 1
      ends  == {j \in first .. Len(s) : \A i \in first .. j : IsDigit(s[i])}
  IN  IF ends = {} THEN 0 ELSE Max(ends)

parse_number(b) ==
  LET inNumber(c) == IsDigit(c) \/ c \in {43, Minus, 46, 69, 101}
      last == Max({n \in 0 .. NumberMax :
                     b.off + n <= Len(b.t) /\ \A i \in 1 .. n : inNumber(b.t[b.off + i])})
      run  == SubSeq(b.t, b.off + 1, b.off + last)
  IN  IF strtod(run) = 0 THEN Failed(b)
      ELSE Parsed(Advance(b, strtod(run)), Item("number", SubSeq(run, 1, strtod(run)), <<>>))

HexDigit(c) == IF IsDigit(c) THEN c - 48
               ELSE IF c \in 65 .. 70 THEN c - 55 ELSE IF c \in 97 .. 102 THEN c - 87 ELSE -1

(* Four bytes that are not all digits make 0. *)
parse_hex4(t, i) ==
  LET d(k) == HexDigit(t[i + k])
  IN  IF \E k \in 1 .. 4 : d(k) < 0 THEN 0
      ELSE d(1) * 4096 + d(2) * 256 + d(3) * 16 + d(4)

EncodeUtf8(cp) ==
  LET low(n) == 128 + ((cp \div (64 ^ n)) % 64)
  IN  IF cp < 128 THEN <<cp>>
      ELSE IF cp < 2048 THEN <<192 + (cp \div 64), low(0)>>
      ELSE IF cp < 65536 THEN <<224 + (cp \div 4096), low(1), low(0)>>
      ELSE <<240 + (cp \div 262144), low(2), low(1), low(0)>>

(* How many bytes of input the literal takes, 0 if it is not valid, and    *)
(* what it makes.                                                          *)
utf16_literal_to_utf8(t, i, end) ==
  LET bad    == [used |-> 0, out |-> <<>>]
      first  == parse_hex4(t, i + 2)
      second == parse_hex4(t, i + 8)
  IN  IF end - i < 6 \/ first \in 56320 .. 57343 THEN bad
      ELSE IF first \notin 55296 .. 56319 THEN [used |-> 6, out |-> EncodeUtf8(first)]
      ELSE IF end - i < 12 \/ ~Starts(t, i + 6, <<Backslash, 117>>) \/ second \notin 56320 .. 57343 THEN bad
      ELSE [used |-> 12, out |-> EncodeUtf8(65536 + (first % 1024) * 1024 + (second % 1024))]

RECURSIVE Closing(_, _, _)
(* Where the string ends, and how many escapes are in it. *)
Closing(t, i, skipped) ==
  IF i >= Len(t) \/ (t[i + 1] = Backslash /\ i + 1 >= Len(t)) THEN [found |-> FALSE, end |-> i, skipped |-> 0]
  ELSE IF t[i + 1] = Quote THEN [found |-> TRUE, end |-> i, skipped |-> skipped]
  ELSE IF t[i + 1] = Backslash THEN Closing(t, i + 2, skipped + 1)
  ELSE Closing(t, i + 1, skipped)

RECURSIVE Unescape(_, _, _, _)
(* Copies from i to end; stops at an escape that is none. *)
Unescape(t, i, end, out) ==
  LET c == t[i + 2]
      u == utf16_literal_to_utf8(t, i, end)
  IN  IF i >= end THEN [ok |-> TRUE, at |-> i, out |-> out]
      ELSE IF t[i + 1] # Backslash THEN Unescape(t, i + 1, end, Append(out, t[i + 1]))
      ELSE IF c = Slash THEN Unescape(t, i + 2, end, Append(out, Slash))
      ELSE IF \E e \in Escapes : e[2] = c
           THEN Unescape(t, i + 2, end, Append(out, (CHOOSE e \in Escapes : e[2] = c)[1]))
      ELSE IF c = 117 /\ u.used > 0 THEN Unescape(t, i + u.used, end, out \o u.out)
      ELSE [ok |-> FALSE, at |-> i, out |-> out]

(* The quote at the beginning stands for the zero at the end. *)
AllocationLength(b, end, skipped) == end - b.off - skipped

(* The name is forgotten. *)
MutNameBlocks(kids) == BlocksOf(kids) + 1

(* What a member without its value consists of, with the members before it. *)
NameBlocks(kids) == BlocksOf(kids) + 2

parse_string(b) ==
  LET close == Closing(b.t, b.off + 1, 0)
      start == Advance(b, 1)
      u     == Unescape(b.t, b.off + 1, close.end, <<>>)
      room  == AllocationLength(b, close.end, close.skipped)
      end   == IF u.ok THEN close.end ELSE u.at
      done  == [Allocate(b) EXCEPT !.off = end, !.tight = @ /\ Len(u.out) <= room]
  IN  IF ~can_access(b) THEN Failed([start EXCEPT !.over = TRUE])
      ELSE IF ~Sees(b, Quote) \/ ~close.found THEN Failed(start)
      ELSE IF Fails(b) THEN Failed(Allocate(start))
      ELSE IF ~u.ok THEN Failed(Free(done, 1))
      ELSE Parsed(Advance(done, 1), Item("string", CString(u.out), <<>>))

RECURSIVE parse_value(_), parse_elements(_, _), parse_members(_, _)

parse_array(b) ==
  LET c == buffer_skip_whitespace(Advance([b EXCEPT !.depth = @ + 1], 1))
  IN  IF b.depth >= CJSON_NESTING_LIMIT THEN Failed(b)
      ELSE IF Sees(c, RBracket) THEN Parsed(Advance([c EXCEPT !.depth = @ - 1], 1), Item("array", <<>>, <<>>))
      ELSE IF can_access(c) THEN parse_elements(Advance(c, -1), <<>>) ELSE Failed(Advance(c, -1))

(* Behind an element. *)
NextElement(d, kids) ==
  IF Sees(d, Comma) THEN parse_elements(d, kids)
  ELSE IF Sees(d, RBracket) THEN Parsed(Advance([d EXCEPT !.depth = @ - 1], 1), Item("array", <<>>, kids))
  ELSE Failed(Free(d, BlocksOf(kids)))

AddElement(r, kids) ==
  IF r.ok THEN NextElement(buffer_skip_whitespace(r.b), Append(kids, r.v))
  ELSE Failed(Free(r.b, BlocksOf(kids) + 1))

(* From the byte before an element: its item is allocated and linked, then *)
(* parsed.  On a failure the list is deleted, and the item with it.        *)
parse_elements(b, kids) ==
  IF Fails(b) THEN Failed(Free(Allocate(b), BlocksOf(kids)))
  ELSE AddElement(parse_value(buffer_skip_whitespace(Advance(Allocate(b), 1))), kids)

parse_object(b) ==
  LET c == buffer_skip_whitespace(Advance([b EXCEPT !.depth = @ + 1], 1))
  IN  IF b.depth >= CJSON_NESTING_LIMIT THEN Failed(b)
      ELSE IF Sees(c, RBrace) THEN Parsed(Advance([c EXCEPT !.depth = @ - 1], 1), Item("object", <<>>, <<>>))
      ELSE IF can_access(c) THEN parse_members(Advance(c, -1), <<>>) ELSE Failed(Advance(c, -1))

(* Behind a member. *)
NextMember(d, kids) ==
  IF Sees(d, Comma) THEN parse_members(d, kids)
  ELSE IF Sees(d, RBrace) THEN Parsed(Advance([d EXCEPT !.depth = @ - 1], 1), Item("object", <<>>, kids))
  ELSE Failed(Free(d, BlocksOf(kids)))

AddMember(r, name, kids) ==
  IF r.ok THEN NextMember(buffer_skip_whitespace(r.b), Append(kids, [r.v EXCEPT !.named = TRUE, !.name = name]))
  ELSE Failed(Free(r.b, NameBlocks(kids)))

(* Behind a name: the item holds it while the value is parsed into it. *)
NamedValue(e, name, kids) ==
  IF Sees(e, Colon) THEN AddMember(parse_value(buffer_skip_whitespace(Advance(e, 1))), name, kids)
  ELSE Failed(Free(e, NameBlocks(kids)))

NameMember(n, kids) ==
  IF n.ok THEN NamedValue(buffer_skip_whitespace(n.b), n.v.text, kids)
  ELSE Failed(Free(n.b, BlocksOf(kids) + 1))

parse_members(b, kids) ==
  IF Fails(b) THEN Failed(Free(Allocate(b), BlocksOf(kids)))
  ELSE NameMember(parse_string(buffer_skip_whitespace(Advance(Allocate(b), 1))), kids)

parse_value(b) ==
  LET literal == {l \in DOMAIN Literals : Starts(b.t, b.off, Literals[l])}
      l       == CHOOSE x \in literal : TRUE
  IN  IF literal # {} THEN Parsed(Advance(b, Len(Literals[l])), Item(l, <<>>, <<>>))
      ELSE IF Sees(b, Quote) THEN parse_string(b)
      ELSE IF can_access(b) /\ (IsDigit(b.t[b.off + 1]) \/ Sees(b, Minus)) THEN parse_number(b)
      ELSE IF Sees(b, LBracket) THEN parse_array(b)
      ELSE IF Sees(b, LBrace) THEN parse_object(b)
      ELSE Failed(b)

(* A text that has to end after the value may only have blanks after it. *)
RequireEnd(e, v) == IF Sees(e, 0) THEN Parsed(e, v) ELSE Failed(Free(e, Blocks(v)))

FinishParse(r, require_null_terminated) ==
  IF ~r.ok THEN Failed(Free(r.b, 1))
  ELSE IF require_null_terminated THEN RequireEnd(buffer_skip_whitespace(r.b), r.v) ELSE r

(* The root is allocated first, and deleted on every failure. *)
cJSON_ParseWithOpts(s, fail, require_null_terminated) ==
  LET b == Buffer(Append(s, 0), fail)
  IN  IF Fails(b) THEN Failed(Allocate(b))
      ELSE FinishParse(parse_value(buffer_skip_whitespace(skip_utf8_bom(Allocate(b)))), require_null_terminated)

-----------------------------------------------------------------------------
(* Printing. *)

(* A buffer of the given length for printing. *)
PrintBuffer(length, noalloc, format, realloc, fail) ==
  [text |-> <<>>, length |-> length, off |-> 0, depth |-> 0, noalloc |-> noalloc, format |-> format,
   realloc |-> realloc, fail |-> fail, allocs |-> 0, bufs |-> 1, gone |-> FALSE, ok |-> TRUE, over |-> FALSE]

Stop(p) == [p EXCEPT !.ok = FALSE]

(* Where the buffer cannot grow it is freed; realloc frees the old one, an *)
(* allocation of its own is followed by a copy and a free.                 *)
Grow(p, newsize) ==
  IF p.allocs + 1 = p.fail
  THEN [p EXCEPT !.allocs = @ + 1, !.bufs = @ - 1, !.length = 0, !.gone = TRUE, !.ok = FALSE]
  ELSE [p EXCEPT !.allocs = @ + 1, !.length = newsize,
                 !.text = IF p.realloc THEN @ ELSE SubSeq(@, 1, Min({p.off + 1, Len(@)}))]

(* What is in the buffer already is not counted. *)
MutEnsure(p, needed) ==
  IF needed + 1 <= p.length THEN p
  ELSE IF p.noalloc THEN Stop(p) ELSE Grow(p, 2 * (needed + 1))

ensure(p, needed) ==
  LET need == needed + p.off + 1
  IN  IF p.length > 0 /\ p.off >= p.length THEN Stop(p)
      ELSE IF needed > INT_MAX THEN Stop(p)
      ELSE IF need <= p.length THEN p
      ELSE IF p.noalloc \/ need > INT_MAX THEN Stop(p)
      ELSE Grow(p, IF need > INT_MAX \div 2 THEN INT_MAX ELSE 2 * need)

(* The bytes at the offset; what was there before is overwritten. *)
Store(p, s) ==
  IF ~p.ok THEN p
  ELSE [p EXCEPT !.text = SubSeq(@, 1, p.off) \o s, !.over = @ \/ p.off + Len(s) > p.length]

update_offset(p) ==
  LET zeros == {i \in p.off + 1 .. Len(p.text) : p.text[i] = 0}
  IN  IF ~p.ok THEN p
      ELSE IF zeros = {} THEN [p EXCEPT !.over = TRUE] ELSE [p EXCEPT !.off = Min(zeros) - 1]

Move(p, n) == IF p.ok THEN [p EXCEPT !.off = @ + n] ELSE p
Nest(p, n) == IF p.ok THEN [p EXCEPT !.depth = @ + n] ELSE p

(* Reserve, write, and go on behind it. *)
Emit(p, needed, s, n) == IF p.ok THEN Move(Store(ensure(p, needed), s), n) ELSE p

Tabs(n) == [i \in 1 .. n |-> 9]

HexLetter(n) == IF n < 10 THEN 48 + n ELSE 87 + n

(* A backslash is copied as it is. *)
MutEscaped(c) == IF c = Backslash THEN <<c>>
                 ELSE IF \E e \in Escapes : e[1] = c THEN <<Backslash, Letter(c)>> ELSE <<c>>

Escaped(c) ==
  IF \E e \in Escapes : e[1] = c THEN <<Backslash, Letter(c)>>
  ELSE IF c < 32 THEN <<Backslash, 117, 48, 48, HexLetter(c \div 16), HexLetter(c % 16)>>
  ELSE <<c>>

(* Five bytes for every byte that needs an escape. *)
MutEscapeCharacters(s) ==
  FoldLeft(LAMBDA n, c : n + (IF c < 32 \/ (\E e \in Escapes : e[1] = c) THEN 5 ELSE 0), 0, s)

(* One byte for every byte that needs an escape, and five for a literal. *)
EscapeCharacters(s) ==
  FoldLeft(LAMBDA n, c : n + (IF \E e \in Escapes : e[1] = c THEN 1 ELSE IF c < 32 THEN 5 ELSE 0), 0, s)

print_string_ptr(p, s) ==
  LET output_length == Len(s) + EscapeCharacters(s)
      body          == FoldLeft(LAMBDA out, c : out \o Escaped(c), <<>>, s)
  IN  Emit(p, output_length + 3, <<Quote>> \o body \o <<Quote, 0>>, 0)

print_number(p, s) == Emit(p, Len(s) + 1, Append(s, 0), Len(s))

RECURSIVE print_value(_, _), PrintElements(_, _), PrintMembers(_, _)

print_array(p, v) ==
  LET open == Nest(Emit(p, 1, <<LBracket>>, 1), 1)
  IN  Nest(Emit(PrintElements(open, v.kids), 2, <<RBracket, 0>>, 0), -1)

(* With the zero that the next text overwrites. *)
Punctuate(p, s) == Emit(p, Len(s) + 1, Append(s, 0), Len(s))

MoreElements(q, rest) ==
  IF rest = <<>> THEN q
  ELSE PrintElements(Punctuate(q, IF q.format THEN <<Comma, 32>> ELSE <<Comma>>), rest)

PrintElements(p, kids) ==
  IF kids = <<>> \/ ~p.ok THEN p
  ELSE MoreElements(update_offset(print_value(p, kids[1])), Tail(kids))

CloseObject(q) ==
  LET close == IF q.format THEN Tabs(q.depth - 1) \o <<RBrace, 0>> ELSE <<RBrace, 0>>
  IN  Nest(Emit(q, IF q.format THEN q.depth + 1 ELSE 2, close, 0), -1)

print_object(p, v) ==
  LET brace == IF p.format THEN <<LBrace, 10>> ELSE <<LBrace>>
  IN  CloseObject(PrintMembers(Nest(Emit(p, Len(brace) + 1, brace, Len(brace)), 1), v.kids))

PrintMembers(p, kids) ==
  LET indented == IF p.format THEN Emit(p, p.depth, Tabs(p.depth), p.depth) ELSE p
      named    == update_offset(print_string_ptr(indented, kids[1].name))
      colon    == IF p.format THEN <<Colon, 9>> ELSE <<Colon>>
      q        == update_offset(print_value(Emit(named, Len(colon), colon, Len(colon)), kids[1]))
      end      == (IF Len(kids) > 1 THEN <<Comma>> ELSE <<>>) \o (IF p.format THEN <<10>> ELSE <<>>)
  IN  IF kids = <<>> \/ ~p.ok THEN p
      ELSE PrintMembers(Punctuate(q, end), Tail(kids))

print_value(p, v) ==
  IF ~p.ok THEN p
  ELSE CASE v.type = "number" -> print_number(p, v.text)
         [] v.type = "string" -> print_string_ptr(p, v.text)
         [] v.type = "array"  -> print_array(p, v)
         [] v.type = "object" -> print_object(p, v)
         [] OTHER -> LET s == Append(Literals[v.type], 0) IN Emit(p, Len(s), s, 0)

(* The allocation of the first buffer. *)
FirstBuffer(length, format, realloc, fail) ==
  [PrintBuffer(length, FALSE, format, realloc, fail) EXCEPT
     !.allocs = 1, !.ok = fail # 1, !.bufs = IF fail = 1 THEN 0 ELSE 1]

(* A buffer that could not grow is gone: free of NULL does nothing. *)
FreeUnlessOk(p) == [p EXCEPT !.bufs = IF p.ok \/ p.gone THEN @ ELSE @ - 1]

FinishPrint(p) ==
  IF ~p.ok THEN FreeUnlessOk(p)
  ELSE IF p.allocs + 1 = p.fail THEN FreeUnlessOk(Stop(p))
  ELSE [p EXCEPT !.allocs = @ + 1, !.length = p.off + 1]

(* print, for cJSON_Print and cJSON_PrintUnformatted: at the end the       *)
(* buffer is cut to what is in it, or the text copied to one of its own.   *)
print(v, format, realloc, fail) ==
  LET p == FirstBuffer(DefaultBuffer, format, realloc, fail)
  IN  IF p.ok THEN FinishPrint(update_offset(print_value(p, v))) ELSE p

cJSON_PrintBuffered(v, prebuffer, format, realloc, fail) ==
  LET p == FirstBuffer(prebuffer, format, realloc, fail)
  IN  IF p.ok THEN FreeUnlessOk(print_value(p, v)) ELSE p

cJSON_PrintPreallocated(v, length, format) ==
  print_value(PrintBuffer(length, TRUE, format, TRUE, 0), v)

-----------------------------------------------------------------------------
(* Minifying. *)

(* The mark at its end is left in the text. *)
MutCommentEnd(s, i, mark) ==
  LET ends == {j \in i .. Len(s) - Len(mark) : Starts(s, j, mark)}
  IN  IF ends = {} THEN Len(s) ELSE Min(ends)

(* The first place at or after i where a comment ends, behind the mark. *)
CommentEnd(s, i, mark) ==
  LET ends == {j \in i .. Len(s) - Len(mark) : Starts(s, j, mark)}
  IN  IF ends = {} THEN Len(s) ELSE Min(ends) + Len(mark)

RECURSIVE MinifyString(_, _)
(* From behind the opening quote: a quote after a backslash does not end   *)
(* the string, even when the backslash is itself escaped.                  *)
MinifyString(s, i) ==
  IF i >= Len(s) THEN Len(s)
  ELSE IF s[i + 1] = Quote THEN i + 1
  ELSE IF Starts(s, i, <<Backslash, Quote>>) THEN MinifyString(s, i + 2)
  ELSE MinifyString(s, i + 1)

RECURSIVE MinifyFrom(_, _, _)
MinifyFrom(s, i, out) ==
  LET close == MinifyString(s, i + 1)
  IN  IF i >= Len(s) THEN out
      ELSE IF s[i + 1] \in {32, 9, 13, 10} THEN MinifyFrom(s, i + 1, out)
      ELSE IF Starts(s, i, <<Slash, Slash>>) THEN MinifyFrom(s, CommentEnd(s, i + 2, <<10>>), out)
      ELSE IF Starts(s, i, <<Slash, 42>>) THEN MinifyFrom(s, CommentEnd(s, i + 2, <<42, Slash>>), out)
      ELSE IF s[i + 1] = Slash THEN MinifyFrom(s, i + 1, out)
      ELSE IF s[i + 1] = Quote THEN MinifyFrom(s, close, out \o SubSeq(s, i + 1, close))
      ELSE MinifyFrom(s, i + 1, Append(out, s[i + 1]))

cJSON_Minify(s) == MinifyFrom(s, 0, <<>>)

-----------------------------------------------------------------------------
(* The application. *)

Init == text \in Seeds /\ added = 0 /\ parsed = None /\ printed = None

Write ==
  /\ added < MaxPieces /\ parsed = None
  /\ \E s \in Pieces : text' = text \o s
  /\ added' = added + 1
  /\ UNCHANGED <<parsed, printed>>

(* What is left of a parser: the tree, and where and how it ended. *)
Outcome(r, fail, require) ==
  [done |-> TRUE, failed |-> fail > 0, require |-> require, ok |-> r.ok, v |-> r.v,
   off |-> r.b.off, depth |-> r.b.depth, live |-> r.b.live, over |-> r.b.over \/ ~r.b.tight]

(* Any of the allocations on the way may fail. *)
Parse ==
  /\ parsed = None
  /\ \E fail \in 0 .. cJSON_ParseWithOpts(text, 0, FALSE).b.allocs, require \in BOOLEAN :
       parsed' = Outcome(cJSON_ParseWithOpts(text, fail, require), fail, require)
  /\ UNCHANGED <<text, added, printed>>

CanPrint == parsed.done /\ parsed.ok /\ ~parsed.failed /\ printed = None

(* What is left of a printer: the text up to the zero, and the buffer. *)
Output(by, p) == [done |-> TRUE, by |-> by, ok |-> p.ok, over |-> p.over, bufs |-> p.bufs,
                  text |-> IF p.ok THEN CString(p.text) ELSE <<>>]

Minify ==
  /\ parsed.done /\ ~parsed.failed /\ printed = None
  /\ printed' = [done |-> TRUE, by |-> "minify", text |-> cJSON_Minify(text)]
  /\ UNCHANGED <<text, added, parsed>>

PrintToNew ==
  /\ CanPrint
  /\ \E format, realloc \in BOOLEAN, fail \in 0 .. 4 :
       printed' = Output("print", print(parsed.v, format, realloc, fail))
  /\ UNCHANGED <<text, added, parsed>>

PrintBuffered ==
  /\ CanPrint
  /\ \E format, realloc \in BOOLEAN, prebuffer \in Lengths, fail \in 0 .. 3 :
       printed' = Output("buffered", cJSON_PrintBuffered(parsed.v, prebuffer, format, realloc, fail))
  /\ UNCHANGED <<text, added, parsed>>

(* Into a buffer with room for the text and a few bytes more. *)
PrintPreallocated ==
  /\ CanPrint
  /\ \E format \in BOOLEAN, spare \in 0 .. 6 :
       LET full == print(parsed.v, format, TRUE, 0)
       IN  /\ full.ok
           /\ printed' = Output(IF spare = 6 THEN "five more" ELSE "preallocated",
                                cJSON_PrintPreallocated(parsed.v, full.off + spare, format))
  /\ UNCHANGED <<text, added, parsed>>

Next == Write \/ Parse \/ Minify \/ PrintToNew \/ PrintBuffered \/ PrintPreallocated

Spec == Init /\ [][Next]_vars

-----------------------------------------------------------------------------
(* What a text should be. *)

BlankAt(s, i, j) == \A k \in i + 1 .. j : s[k] <= 32

(* The ends of the strings, numbers and values that begin at i. *)
StringEnds(s, i) ==
  {j \in i + 2 .. Len(s) :
     /\ s[i + 1] = Quote
     /\ LET c == Closing(Append(s, 0), i + 1, 0)
        IN  c.found /\ c.end = j - 1 /\ Unescape(s, i + 1, j - 1, <<>>).ok}

NumberEnds(s, i) ==
  LET sign == IF s[i + 1] = Minus THEN 1 ELSE 0
  IN  {j \in i + 1 + sign .. Len(s) :
         /\ j - i <= NumberMax
         /\ \A k \in i + 1 + sign .. j : IsDigit(s[k])
         /\ j < Len(s) /\ j - i < NumberMax => ~IsDigit(s[j + 1])}

RECURSIVE ValueEnds(_, _, _), ListEnds(_, _, _, _)
ValueEnds(s, i, depth) ==
  IF i >= Len(s) THEN {}
  ELSE {i + Len(Literals[l]) : l \in {x \in DOMAIN Literals : Starts(s, i, Literals[x])}}
         \cup StringEnds(s, i) \cup NumberEnds(s, i)
         \cup (IF depth = 0 \/ s[i + 1] \notin {LBracket, LBrace} THEN {}
               ELSE LET close == s[i + 1] + 2
                    IN  {j + 1 : j \in {k \in i + 1 .. Len(s) - 1 :
                                        s[k + 1] = close
                                          /\ (BlankAt(s, i + 1, k)
                                               \/ k \in ListEnds(s, i + 1, depth - 1, s[i + 1] = LBrace))}})

(* Where a list of values, or of members, with blanks around them may end. *)
ListEnds(s, i, depth, members) ==
  LET starts == {k \in i .. Len(s) : BlankAt(s, i, k)}
      after  == IF ~members THEN starts
                ELSE UNION {UNION {{l \in k .. Len(s) : s[k] = Colon /\ BlankAt(s, k, l)} :
                                   k \in {x \in j + 1 .. Len(s) : BlankAt(s, j, x - 1)}} :
                            j \in UNION {StringEnds(s, k) : k \in {x \in starts : x < Len(s)}}}
      ends   == UNION {{k \in j .. Len(s) : BlankAt(s, j, k)} : j \in UNION {ValueEnds(s, l, depth) : l \in after}}
  IN  ends \cup UNION {ListEnds(s, k + 1, depth, members) : k \in {x \in ends : x < Len(s) /\ s[x + 1] = Comma}}

(* Blanks, one value, blanks. *)
IsJson(s) ==
  LET bom == IF Len(s) > 3 /\ Starts(s, 0, <<239, 187, 191>>) THEN 3 ELSE 0
  IN  \E i \in bom .. Len(s) : BlankAt(s, bom, i) /\ \E j \in ValueEnds(s, i, CJSON_NESTING_LIMIT) : BlankAt(s, j, Len(s))

(* From i to j stands a comment, ended or cut off by the end of the text. *)
IsComment(s, i, j) ==
  \/ /\ Starts(s, i, <<Slash, Slash>>) /\ j >= i + 2
     /\ j = Len(s) \/ (j > i + 2 /\ s[j] = 10)
     /\ \A k \in i + 3 .. j - 1 : s[k] # 10
  \/ /\ Starts(s, i, <<Slash, 42>>) /\ j >= i + 2
     /\ j = Len(s) \/ (j > i + 3 /\ Starts(s, j - 2, <<42, Slash>>))
     /\ \A k \in i + 2 .. j - 3 : ~Starts(s, k, <<42, Slash>>)

RECURSIVE WithoutComments(_, _)
(* The text from i on, a blank for every comment outside a string. *)
WithoutComments(s, i) ==
  LET comments == {j \in i .. Len(s) : IsComment(s, i, j)}
      close    == Closing(s, i + 1, 0)
      end      == IF s[i + 1] # Quote THEN i + 1 ELSE Min({close.end + 1, Len(s)})
  IN  IF i >= Len(s) THEN <<>>
      ELSE IF comments # {} THEN <<32>> \o WithoutComments(s, Min(comments))
      ELSE SubSeq(s, i + 1, end) \o WithoutComments(s, end)

(* A quote follows an escaped backslash, and so is not escaped itself. *)
EscapedEnd(s) ==
  \E i \in 0 .. Len(s), n \in 1 .. Len(s) :
    /\ i = 0 \/ s[i] # Backslash
    /\ Starts(s, i, [k \in 1 .. 2 * n |-> Backslash] \o <<Quote>>)

-----------------------------------------------------------------------------
(* Properties. *)

(* The parser never looks behind the zero at the end of the text, although *)
(* blanks skip over it and parse_string reads without a check, never goes  *)
(* deeper than the nesting limit, and what it makes of a string always     *)
(* fits the room estimated for it.  A printer writes only where ensure has *)
(* reserved room, also while the buffer grows.                             *)
InBounds ==
  /\ parsed.done => /\ ~parsed.over
                    /\ parsed.off \in 0 .. Len(text) + 1
                    /\ parsed.depth \in 0 .. CJSON_NESTING_LIMIT
  /\ printed.done /\ printed.by # "minify" => ~printed.over

(* Whichever allocation fails, and wherever the text is wrong, a failed    *)
(* parse has freed all it allocated, and a good one has allocated exactly  *)
(* the items and strings of its tree.  A printer that fails has freed its  *)
(* buffer once; one that succeeds hands over exactly one.                  *)
KeepsNothing ==
  /\ parsed.done => parsed.live = IF parsed.ok THEN Blocks(parsed.v) ELSE 0
  /\ printed.done /\ printed.by \in {"print", "buffered"} => printed.bufs = IF printed.ok THEN 1 ELSE 0

(* With require_null_terminated, exactly the JSON texts within the nesting *)
(* limit are accepted (with cJSON's liberties: control bytes in strings    *)
(* and as blanks, leading zeros).                                          *)
AcceptsJson == parsed.done /\ ~parsed.failed /\ parsed.require => (parsed.ok <=> IsJson(text))

Yields(r, v) == r.ok /\ r.v = v

ParsesTo(s, v) == Yields(cJSON_ParseWithOpts(s, 0, TRUE), v)

(* What is printed, formatted or not, parses to the tree it was printed    *)
(* from.                                                                   *)
RoundTrip ==
  printed.done /\ printed.by # "minify" /\ printed.ok => ParsesTo(printed.text, parsed.v)

(* The 5 bytes more than needed of cJSON.h:162 always do for               *)
(* cJSON_PrintPreallocated.                                                *)
FiveMoreEnough == printed.done /\ printed.by = "five more" => printed.ok

(* cJSON_Minify takes the comments out and nothing that a tree holds: what *)
(* parses with a blank for every comment parses, minified, to the same     *)
(* tree.  A comment mark in a string is none, and a quote in a comment     *)
(* opens no string.  Not where a string ends in an escaped backslash:      *)
(* minify_string takes the quote behind it for an escaped one.             *)
MinifyKeepsTree ==
  printed.done /\ printed.by = "minify" /\ ~EscapedEnd(text) =>
    LET r == cJSON_ParseWithOpts(WithoutComments(text, 0), 0, TRUE)
    IN  r.ok => ParsesTo(printed.text, r.v)

=============================================================================
