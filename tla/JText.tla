-------------------------------- MODULE JText --------------------------------
(***************************************************************************)
(* jvalue.c: JSON text, out (yod_jvalue_encode) and in (yod_jvalue_decode).*)
(*                                                                         *)
(* Decode reads the text twice.  The first pass makes a value for each     *)
(* that it meets, chains them in the order of the text, and counts the     *)
(* items, the bytes of names and the lengths of strings.  The second pass  *)
(* takes the values off the chain one by one, allocates what the first     *)
(* has counted, and writes into it: nothing compares the passes again.     *)
(* A step is one turn of the loop, which sees one character; a step that   *)
(* does not move sets the flags in which the next one sees it again.       *)
(*                                                                         *)
(* Characters are tokens: the literal words, and what may follow the u of  *)
(* an escape, are one each.  Left out: a byte order mark, the line and     *)
(* column of the messages, lengths beyond YOD_JVALUE_MAX_SIZE, the value   *)
(* and the sign of numbers.  The byte behind the text is taken to be 0     *)
(* (the tests for the literal words look one byte too far).                *)
(***************************************************************************)
EXTENDS JValue

CONSTANTS Alphabets, \* [from, more]: a text has tokens of more behind from
          MaxLen,    \* bound: tokens of such a text (Code needs it below 7)
          Docs,      \* the documents that are encoded, and decoded again
          MayFail    \* calloc or malloc may fail

(* In the order of strcmp. *)
Tokens == <<"\n", " ", "\"", "*", ",", "-", ".", "/", "0", "1", ":", "[", "\\",
            "]", "e", "false", "nope", "null", "t", "true", "u000a", "u00e9",
            "uzz", "x", "{", "}">>
Space  == {"\n", " "}
Digits == {"0", "1"}
Words  == {"false", "nope", "null", "t", "true"}  \* t: any t, f or n

(* A document: its values in the order of its text, each with its parent (0 for the
   first), the name it has there and the text of a string. *)
Nodes == [type : {"object", "array", "string", "boolean"}, parent : Nat,
          name : Seq(Range(Tokens)), str : Seq(Range(Tokens))]

ASSUME JTextAssumption ==
    /\ \A a \in Alphabets :
          /\ a.from \in Seq(Range(Tokens)) /\ a.more \subseteq Range(Tokens)
          /\ "\\" \in a.more => a.more \cap Words \subseteq {"t"}
    /\ MaxLen \in 0..6 /\ Docs \subseteq Seq(Nodes) /\ MayFail \in BOOLEAN

VARIABLES text,
          alphabet, \* more tokens of it may follow; empty: the text is complete
          doc,      \* the document that the text is from, or empty
          room,     \* what encode(NULL) answered for it
          d         \* decode: its locals, and the values on its chain

textVars == <<text, alphabet, doc, room, d>>

NoNumber == [digits |-> 0, zero |-> FALSE, exp |-> FALSE, sign |-> FALSE]

(* The locals at the start of a pass. *)
Start(pass, values) ==
    [pass |-> pass, pos |-> 1, flags |-> {"seek"}, top |-> 0, values |-> values,
     taken |-> 0, str |-> <<>>, number |-> NoNumber, from |-> 0,
     status |-> "reading"]

TextInit ==
    /\ room = 0
    /\ \/ /\ doc = <<>> /\ d = Start(1, <<>>)
          /\ \E a \in Alphabets : text = a.from /\ alphabet = a.more
       \/ /\ doc \in Docs /\ d = [Start(1, <<>>) EXCEPT !.status = "none"]
          /\ text = <<>> /\ alphabet = {}

-----------------------------------------------------------------------------
(* yod_jvalue_encode: the walk keeps its place in each container in its
   _reserved.index, and ends when it leaves the value without a parent. *)

(* Mutant of Escape: the quote is written as it is. *)
EscapeNoQuote(c) ==
    CASE c = "\\" -> <<"\\", c>> [] c \in {"\n"} -> <<"\\", "u000a">>
      [] OTHER -> <<c>>

Escape(c) ==
    CASE c \in {"\"", "\\"} -> <<"\\", c>> [] c = "\n" -> <<"\\", "u000a">>
      [] OTHER -> <<c>>

(* Bytes of a token. *)
Width(c) ==
    CASE c \in {"null", "nope", "true"} -> 4 [] c \in {"false", "u000a", "u00e9"} -> 5
      [] c = "uzz" -> 3 [] OTHER -> 1

Widths(s) == FoldLeft(LAMBDA n, c : n + Width(c), 0, s)

(* What encode_strlen counts: the 2 of an escape falls through to the 1. *)
Measure(c) == CASE c \in {"\"", "\\"} -> 3 [] c = "\n" -> 6 [] OTHER -> Width(c)

Quoted(s) == <<"\"">> \o FlattenSeq([i \in DOMAIN s |-> Escape(s[i])]) \o <<"\"">>
Measured(s) == FoldLeft(LAMBDA n, c : n + Measure(c), 2, s)

(* Writes the tokens w, and counts n for them. *)
Emit(s, w, n) == [s EXCEPT !.out = @ \o w, !.count = @ + n]
Marked(s, w) == Emit(s, w, Widths(w))

Bracket(type) == IF type = "object" THEN <<"{", "}">> ELSE <<"[", "]">>

(* One visit of the value at hand: to the next item, or back to the parent. *)
Visit(s) ==
    LET v == s.value
        node == doc[v]
        items == SelectSeq([i \in DOMAIN doc |-> i], LAMBDA i : doc[i].parent = v)
        n == s.index[v]
        item == items[n + 1]
        up(t) == [t EXCEPT !.value = node.parent, !.index[v] = 0]
        opened == IF n = 0 THEN Marked(s, <<Bracket(node.type)[1]>>) ELSE s
        parted == IF n > 0 THEN Marked(opened, <<",">>) ELSE opened
        named == IF node.type = "object"
                 THEN Emit(parted, Quoted(doc[item].name) \o <<":">>,
                           Measured(doc[item].name) + 1)
                 ELSE parted
    IN CASE node.type = "string" -> up(Emit(s, Quoted(node.str), Measured(node.str)))
         [] node.type = "boolean" -> up(Marked(s, node.str))
         [] OTHER -> IF n = Len(items)
                     THEN up(Marked(opened, <<Bracket(node.type)[2]>>))
                     ELSE [named EXCEPT !.value = item, !.index[v] = n + 1]

(* A container is visited once more than it has items. *)
Encoded ==
    LET run[n \in Nat] ==
            IF n = 0 THEN [value |-> 1, index |-> [v \in DOMAIN doc |-> 0],
                           out |-> <<>>, count |-> 0]
            ELSE LET s == run[n - 1] IN IF s.value = 0 THEN s ELSE Visit(s)
    IN  run[2 * Len(doc)]

(* yod_jvalue_dump: room for what encode(NULL) counts, with the 0 at the end. *)
Encode ==
    /\ d.status = "none"
    /\ text' = Encoded.out /\ room' = Encoded.count + 1
    /\ d' = [d EXCEPT !.status = "reading"]
    /\ UNCHANGED <<alphabet, doc>>

-----------------------------------------------------------------------------
(* yod_jvalue_decode: its locals are s, with an operator for each thing it does. *)

Char(s) == IF s.pos > Len(text) THEN "end" ELSE text[s.pos]
Type(s) == IF s.top = 0 THEN "none" ELSE s.values[s.top].type
Inside(s) == Type(s) \in {"object", "array"}
Has(s, f) == f \in s.flags
Set(s, F) == [s EXCEPT !.flags = @ \cup F]
Clear(s, F) == [s EXCEPT !.flags = @ \ F]
Move(s, n) == [s EXCEPT !.pos = @ + n]
Fail(s) == [s EXCEPT !.status = "failed"]

(* A string without quotes begins at this character. *)
Word(s) == [Set(s, {"string", "quote"}) EXCEPT !.str = <<>>]

Value(type, p) ==
    [type |-> type, parent |-> p, size |-> 0, names |-> 0, len |-> 0, data |-> 0,
     items |-> <<>>, place |-> 0, used |-> 0, name |-> 0, str |-> <<>>]

(* What the second pass allocates: nothing for a container without items. *)
Needs(s) ==
    LET v == s.values[s.taken + 1] IN
    v.type = "string" \/ (v.size > 0 /\ v.type \in {"object", "array"})

(* yod_jvalue_decode_new: the next value is made, or taken off the chain and its
   data allocated.  Where the chain ends or has another type next the passes part:
   what the program does from then on is not modelled. *)
Make(s, type) ==
    LET v == s.taken + 1
        types == IF type = "integer" THEN {"integer", "double", "string"} ELSE {type}
    IN CASE s.pass = 1 ->
              [s EXCEPT !.values = Append(@, Value(type, s.top)), !.top = Len(s.values) + 1]
         [] s.pass = 2 /\ v \in DOMAIN s.values /\ s.values[v].type \in types ->
              [s EXCEPT !.taken = v, !.top = v, !.values[v].data = s.values[v].size]
         [] OTHER -> [s EXCEPT !.status = "astray"]

(* The value v goes into the record p of its parent.  An object whose place names no
   entry (v is a word where comments are allowed) forgets it, or what was there. *)
Put(p, v) ==
    CASE p.type = "array"  -> [p EXCEPT !.items = Append(@, Entry(0, v))]
      [] p.type = "object" -> [p EXCEPT !.place = 0,
             !.items = IF @ = <<>> THEN @ ELSE [@ EXCEPT ![p.place + 1].value = v]]

(* The value at the top is done.  The size of its parent counts it, in both passes:
   in the second only the record of the size grows. *)
Ascend(s) ==
    LET v == s.top p == s.values[v].parent IN
    IF p = 0 THEN Set(s, {"comma", "done"})
    ELSE LET t == IF s.values[p].type = "array" THEN {"comma", "seek"} ELSE {"comma"}
             q == [s.values[p] EXCEPT !.size = @ + 1]
            name == IF q.items = <<>> THEN 0 ELSE q.items[q.place + 1].name
         IN [Set(s, t) EXCEPT !.top = p,
                 !.values[p] = IF s.pass = 1 THEN q ELSE Put(q, v),
                 !.values[v].name = IF q.type = "array" THEN 0 ELSE name]

(* Names as numbers in the order of strcmp, for JValue's search by halves. *)
Rank(c) == CHOOSE i \in DOMAIN Tokens : Tokens[i] = c
Code(name) ==
    FoldLeft(LAMBDA n, i : n * (Len(Tokens) + 1)
                           + (IF i \in DOMAIN name THEN Rank(name[i]) ELSE 0),
             0, [i \in 1..MaxLen |-> i])

(* The name at the end of the object's entry: counted, or entered where the search
   finds it or its place, or behind the entries of an object that is full. *)
KeyEnd(s) ==
    LET o == s.values[s.top]
        f == Halve(o.items, Code(s.str))
        bytes == Len(s.str) + 1
        full == ~f.found /\ Len(o.items) >= o.size
        items == IF f.found \/ full THEN o.items
                 ELSE Opened(o.items, f.index, Entry(Code(s.str), None))
    IN Set([s EXCEPT !.values[s.top] =
                IF s.pass = 1 THEN [@ EXCEPT !.names = @ + bytes]
                ELSE [@ EXCEPT !.items = items, !.used = @ + bytes,
                               !.place = IF full THEN Len(items) ELSE f.index]],
           {"seek", "colon"})

(* The end of a string that is a value; one behind the root goes nowhere. *)
ValueEnd(s) ==
    LET t == [s EXCEPT !.values[s.top] =
                 IF s.pass = 1 THEN [@ EXCEPT !.len = Len(s.str)]
                 ELSE [@ EXCEPT !.str = s.str]]
    IN IF Has(s, "done") THEN t ELSE Ascend(t)

-----------------------------------------------------------------------------
(* The turns of the loop. *)

(* What the loop does with the next character follows from the flags, and where
   none says it, from the value at the top. *)
Mode(s) ==
    CASE Has(s, "string") /\ Has(s, "escaped")                  -> "escape"
      [] Has(s, "string") /\ ~Has(s, "escaped")                 -> "string"
      [] ~Has(s, "string") /\ s.flags \cap {"line", "block"} # {} -> "comment"
      [] OTHER -> CASE Char(s) = "/"   -> "slash"
                    [] Has(s, "done") /\ Char(s) # "/" -> "done"
                    [] Has(s, "seek") /\ ~Has(s, "done") /\ Char(s) # "/" -> "seek"
                    [] OTHER -> Type(s)

(* This character and the next are in the text, or it is complete. *)
Known == alphabet = {} \/ Len(text) > d.pos

At(mode) == d.status = "reading" /\ Known /\ Mode(d) = mode
Go(s) == d' = s /\ UNCHANGED <<text, alphabet, doc, room>>

(* The text as it comes: any, up to a bound. *)
Extend ==
    /\ d.status = "reading" /\ ~Known
    /\ \/ \E c \in alphabet : /\ Len(text) < MaxLen
                              /\ text' = Append(text, c) /\ UNCHANGED alphabet
       \/ alphabet' = {} /\ UNCHANGED text
    /\ UNCHANGED <<doc, room, d>>

(* Control characters are one here, and so are those of two bytes and more. *)
Unescaped(c) ==
    CASE c \in {"t", "u000a"} -> <<"\n">> [] c = "u00e9" -> <<"x", "x">>
      [] OTHER -> <<c>>

ReadEscape ==
    /\ At("escape")
    /\ LET c == Char(d) IN
       Go(IF c \in {"end", "uzz"} THEN Fail(d)
          ELSE Move([Clear(d, {"escaped"}) EXCEPT !.str = @ \o Unescaped(c)], 1))

(* A word ends before a delimiter, a quoted string behind its quote. *)
Ends(c) ==
    IF Has(d, "quote")
    THEN c \in Space \cup {",", "]", "}"} \/ (Type(d) = "object" /\ c = ":")
    ELSE c = "\""

ReadString ==
    /\ At("string")
    /\ LET c == Char(d)
           wrong == c = "end" \/ (Has(d, "quote") /\ c = "\"")
           end == Move(Clear(d, {"string", "quote"}), IF Has(d, "quote") THEN 0 ELSE 1)
       IN \/ wrong /\ Go(Fail(d))
          \/ ~wrong /\ c = "\\" /\ Go(Move(Set(d, {"escaped"}), 1))
          \/ ~wrong /\ Ends(c) /\ Go(IF Type(d) = "object" THEN KeyEnd(end) ELSE ValueEnd(end))
          \/ ~wrong /\ c # "\\" /\ ~Ends(c) /\ Go(Move([d EXCEPT !.str = Append(@, c)], 1))

ReadComment ==
    /\ At("comment")
    /\ LET c == Char(d) closed == c = "*" /\ Char(Move(d, 1)) = "/" IN
       IF Has(d, "line")
       THEN Go(IF c \in {"\n", "end"} THEN Clear(d, {"line"}) ELSE Move(d, 1))
       ELSE Go(CASE c = "end" -> Fail(d)
                 [] closed -> Move(Clear(d, {"block"}), 2)
                 [] OTHER -> Move(d, 1))

(* A comment, or else a word: in a container, and behind the root if that is one. *)
ReadSlash ==
    /\ At("slash")
    /\ LET c == Char(Move(d, 1))
           refused == d.flags \cap {"seek", "done"} = {} /\ Type(d) # "object"
       IN \/ refused /\ Go(Fail(d))
          \/ ~refused /\ c = "/" /\ Go(Move(Set(d, {"line"}), 2))
          \/ ~refused /\ c = "*" /\ Go(Move(Set(d, {"block"}), 2))
          \/ ~refused /\ c \notin {"/", "*"} /\ Go(
                IF c # "end" /\ Inside(d) THEN Word(Make(Clear(d, {"seek"}), "string"))
                ELSE Fail(d))

(* Behind the root only space may follow; then the second pass, and the end. *)
ReadDone ==
    /\ At("done")
    /\ LET c == Char(d) IN
       Go(CASE c \in Space -> Move(d, 1)
            [] c = "end" /\ d.pass = 1 -> Start(2, d.values)
            [] c = "end" /\ d.pass = 2 -> [d EXCEPT !.status = "done"]
            [] OTHER -> Fail(d))

(* Where a value may come: the end of an array, and the separators. *)
ReadSeparator ==
    /\ At("seek")
    /\ LET c == Char(d)
           needs == IF Has(d, "comma") THEN "comma" ELSE "colon"
       IN \/ c \in Space /\ Go(Move(d, 1))
          \/ c = "]" /\ Go(IF Type(d) = "array"
                           THEN Move(Ascend(Clear(d, {"comma", "seek"})), 1) ELSE Fail(d))
          \/ /\ c \notin Space \cup {"]"} /\ d.flags \cap {"comma", "colon"} # {}
             /\ Go(IF c = (IF Has(d, "comma") THEN "," ELSE ":")
                   THEN Move(Clear(d, {needs}), 1) ELSE Fail(d))

ValueComes == /\ At("seek") /\ d.flags \cap {"comma", "colon"} = {}
              /\ Char(d) \notin Space \cup {"]"}

(* The test for null is turned round: a word of four that begins with n and has none
   of its other letters (nope) is the null, and null is a string. *)
TypeOf(c) ==
    CASE c = "{" -> "object" [] c = "[" -> "array" [] c \in {"true", "false"} -> "boolean"
      [] c = "nope" -> "null" [] c \in Digits \cup {"-"} -> "integer"
      [] c \in {"\"", "t", "null"} \/ (c \notin {"{", "["} /\ Inside(d)) -> "string"
      [] OTHER -> "none"

(* Mutant of Skipped: a sign ends a number in the second pass. *)
SkippedToSign(s) ==
    CHOOSE i \in s.pos .. Len(text) + 1 :
        /\ i > Len(text) \/ text[i] \notin Digits \cup {".", "e"}
        /\ \A j \in s.pos .. i - 1 : text[j] \in Digits \cup {".", "e"}

(* Behind the characters that a number may have. *)
Skipped(s) ==
    CHOOSE i \in s.pos .. Len(text) + 1 :
        /\ i > Len(text) \/ text[i] \notin Digits \cup {"-", ".", "e"}
        /\ \A j \in s.pos .. i - 1 : text[j] \in Digits \cup {"-", ".", "e"}

(* A number is read in the first pass and skipped in the second, where one that
   turned out to be a word is read as that. *)
NumberBegins(s) ==
    CASE s.pass = 1 -> Move([s EXCEPT !.number = NoNumber, !.from = s.pos],
                            IF Char(s) = "-" THEN 1 ELSE 0)
      [] s.pass = 2 /\ Type(s) = "string" -> Word(s)
      [] s.pass = 2 /\ Type(s) # "string" -> Ascend([s EXCEPT !.pos = Skipped(s)])

ReadValue ==
    /\ ValueComes
    /\ LET c == Char(d)
           type == TypeOf(c)
           s == Make(Clear(d, {"seek"}), type)
           is == [s EXCEPT !.values[s.top].str = <<c>>]
       IN Go(CASE type = "none"            -> Fail(d)
               [] s.status # "reading"     -> s
               [] type = "object"          -> Move(s, 1)
               [] type = "array"           -> Move(Set(s, {"seek"}), 1)
               [] type \in {"boolean", "null"} -> Move(Ascend(is), 1)
               [] type = "integer"         -> NumberBegins(s)
               [] c = "\""                 -> Move([Set(s, {"string"}) EXCEPT !.str = <<>>], 1)
               [] OTHER                    -> Word(s))

(* In an object, where the next name or its end may come. *)
ReadName ==
    /\ At("object")
    /\ LET c == Char(d) comma == Has(d, "comma") IN
       \/ c \in Space /\ Go(Move(d, 1))
       \/ c = "}" /\ Go(Move(Ascend(Clear(d, {"comma"})), 1))
       \/ c = "," /\ comma /\ Go(Move(Clear(d, {"comma"}), 1))
       \/ c = "\"" /\ ~comma /\ Go(Move([Set(d, {"string"}) EXCEPT !.str = <<>>], 1))
       \/ c \notin Space \cup {"}", "\""} /\ ~comma /\ Go(Word(d))
       \/ c \notin Space \cup {"}", ","} /\ comma /\ Go(Fail(d))

(* The number at the top goes on. *)
AtNumber == At("integer") \/ At("double")

Number(n) == [d EXCEPT !.number = n]
Retype(s, type) == [s EXCEPT !.values[s.top].type = type]

ReadDigit ==
    /\ AtNumber /\ Char(d) \in Digits
    /\ LET n == [d.number EXCEPT !.digits = IF @ < 2 THEN @ + 1 ELSE 2]
           first == n.digits = 1 /\ Char(d) = "0"
       IN Go(CASE n.exp -> Move(Number([n EXCEPT !.sign = TRUE]), 1)
               [] ~n.exp /\ Type(d) = "double" -> Move(Number(n), 1)
               [] ~n.exp /\ Type(d) = "integer" /\ n.zero -> Fail(d)
               [] OTHER -> Move(Number([n EXCEPT !.zero = first]), 1))

(* A sign, a point or an exponent, where a number may have one. *)
ReadNumberPart ==
    /\ AtNumber
    /\ LET c == Char(d) n == d.number IN
       \/ /\ c = "-" /\ n.exp /\ ~n.sign
          /\ Go(Move(Number([n EXCEPT !.sign = TRUE]), 1))
       \/ /\ c = "." /\ Type(d) = "integer"
          /\ Go(IF n.digits = 0 THEN Fail(d)
                ELSE Move(Retype(Number([n EXCEPT !.digits = 0]), "double"), 1))
       \/ /\ c = "e" /\ ~n.exp
          /\ Go(IF Type(d) = "double" /\ n.digits = 0 THEN Fail(d)
                ELSE Move(Retype(Number([n EXCEPT !.digits = 0, !.zero = FALSE,
                                                  !.exp = TRUE]), "double"), 1))

(* Any other character ends it, and one that is no comma makes it a word that is
   read again from its start. *)
ReadNumberEnd ==
    /\ AtNumber
    /\ LET c == Char(d) n == d.number IN
       /\ c \notin Digits
       /\ ~(c = "-" /\ n.exp /\ ~n.sign) /\ ~(c = "." /\ Type(d) = "integer")
       /\ ~(c = "e" /\ ~n.exp)
       /\ Go(CASE Type(d) = "double" /\ n.digits = 0 -> Fail(d)
               [] c = "," /\ ~(Type(d) = "double" /\ n.digits = 0) -> Ascend(d)
               [] OTHER -> Word([Retype(d, "string") EXCEPT !.pos = d.from]))

(* calloc fails in the first pass, or malloc in the second.  (What is freed then is
   not modelled: an object frees an entry whose value was not read yet.) *)
MallocFails ==
    /\ MayFail
    /\ \/ ValueComes /\ TypeOf(Char(d)) # "none"
       \/ At("slash") /\ Inside(d) /\ Char(Move(d, 1)) \notin {"/", "*", "end"}
    /\ d.pass = 2 => d.taken < Len(d.values) /\ Needs(d)
    /\ Go([d EXCEPT !.status = "nomem"])

TextNext ==
    \/ Encode \/ Extend
    \/ ReadEscape \/ ReadString \/ ReadComment \/ ReadSlash \/ ReadDone
    \/ ReadSeparator \/ ReadValue \/ ReadName
    \/ ReadDigit \/ ReadNumberPart \/ ReadNumberEnd \/ MallocFails

-----------------------------------------------------------------------------
(* What encode and decode promise. *)

Decoded == DOMAIN d.values
ItemsOf(v) == {d.values[v].items[i].value : i \in DOMAIN d.values[v].items}

(* The passes agree on every text: the second takes each value that the first made,
   refuses nothing that the first took, and writes within what the first counted,
   into names, strings and items; and it uses all of it. *)
PassesAgree ==
    /\ d.status # "astray"
    /\ d.pass = 2 =>
        /\ d.status # "failed"
        /\ "string" \in d.flags =>
              LET v == d.values[d.top] IN
              IF v.type = "object" THEN v.data > 0 /\ v.used + Len(d.str) < v.names
              ELSE Len(d.str) <= v.len
        /\ \A v \in 1..d.taken : LET r == d.values[v] IN
              Len(r.items) <= r.data /\ (r.data > 0 => r.place < r.data)
    /\ d.status = "done" =>
        /\ d.taken = Len(d.values)
        /\ \A v \in Decoded : LET r == d.values[v] IN
              /\ Len(r.str) = r.len \/ r.type # "string"
              /\ r.used = r.names /\ r.place = 0

(* Each value of a text without a word that begins like a comment is an item of its
   parent once it is decoded, unless a later one has taken its name; the items of an
   array are in the order of the text, those of an object in that of their names. *)
ItemsKept ==
    d.status = "done" /\ (\A v \in Decoded : ~IsPrefix(<<"/">>, d.values[v].str)) =>
        \A v \in Decoded \ {1} :
            LET r == d.values[v] p == d.values[r.parent]
                Later == {w \in Decoded : w > v /\ d.values[w].parent = r.parent}
            IN /\ \/ v \in ItemsOf(r.parent)
                  \/ p.type = "object" /\ \E w \in Later : d.values[w].name = r.name
               /\ \A i, j \in DOMAIN p.items : i < j =>
                     IF p.type = "array" THEN p.items[i].value < p.items[j].value
                     ELSE p.items[i].name < p.items[j].name

(* A document of strings, booleans and containers fits into what encode(NULL) asks
   for, and is what its text is decoded to; no other text loses a value either. *)
ReadsBack ==
    /\ ItemsKept
    /\ doc # <<>> /\ d.status # "none" =>
        /\ Widths(text) + 1 <= room
        /\ d.status \notin {"failed", "astray"}
        /\ d.status = "done" =>
            /\ Len(d.values) = Len(doc)
            /\ \A v \in Decoded : LET r == d.values[v] IN
                  /\ r.type = doc[v].type /\ r.parent = doc[v].parent
                  /\ r.str = doc[v].str
                  /\ v > 1 => \E i \in DOMAIN d.values[r.parent].items :
                        d.values[r.parent].items[i] = Entry(Code(doc[v].name), v)
=============================================================================
