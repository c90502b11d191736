----------------------------- MODULE BindValues -----------------------------
(***************************************************************************)
(* Execute of a portal whose statement has more than 20 parameters         *)
(* (src/pg_conn.go PgConn.Execute, maxInputArgsUsePrepared): instead of    *)
(* binding the values to the engine statement, bindValues writes them into *)
(* the SQL text, which is then prepared afresh.  The values are those      *)
(* ParseBindMessage (src/message.go) decoded from the client's Bind frame: *)
(* NULL (length -1) or tryParseValue of the text, so an int64, a float64   *)
(* or a string.                                                            *)
(*                                                                         *)
(* Text is a sequence of one-character strings.  One step of the model is  *)
(* one iteration of the loop of bindValues; lastIndex keeps the code's     *)
(* 0-based offset.  A Go panic ends the process.                           *)
(***************************************************************************)
EXTENDS Naturals, Sequences, SequencesExt

CONSTANTS
    SqlChars,     \* characters the statement text is made of
    ParamTexts,   \* texts the client sends as text-format Bind values
    MaxSql,       \* bound on the length of the statement text
    MaxArgs       \* bound on the number of Bind values

ASSUME MaxSql \in Nat /\ MaxArgs \in Nat

\* A Bind value on the wire: length -1 (NULL), or a text.
Null == [isNull |-> TRUE, text |-> <<>>]
Sent(t) == [isNull |-> FALSE, text |-> t]
\* A decoded Go value: kind, number (int64, or a float64's whole part), fraction digits, string.
Value(k, n, frac, s) == [k |-> k, n |-> n, frac |-> frac, s |-> s]

VARIABLES
    sql,          \* p.stmt.query: the statement text
    texts,        \* the Bind values as the client sent them
    args,         \* p.values: the decoded values, <<>> before Bind
    out,          \* sb: the text written so far
    lastIndex,    \* lastIndex: 0-based offset of the unscanned rest of sql
    pc            \* "bind", "scan" (the loop of bindValues), "done", "crashed"

vars == <<sql, texts, args, out, lastIndex, pc>>

Digits == {"0", "1", "2", "3", "4", "5", "6", "7", "8", "9"}
DigitChar == [n \in 0..9 |-> <<"0", "1", "2", "3", "4", "5", "6", "7", "8", "9">>[n + 1]]
DigitValue == [c \in Digits |-> CHOOSE n \in 0..9 : DigitChar[n] = c]

\* strconv.ParseInt(s, 10, 64) of a digit string (no overflow at these lengths).
ParseDecimal(d) == FoldLeft(LAMBDA acc, c : 10 * acc + DigitValue[c], 0, d)

\* strconv.FormatInt(n, 10).
RECURSIVE FormatInt(_)
FormatInt(n) == IF n < 10 THEN <<DigitChar[n]>>
                ELSE FormatInt(n \div 10) \o <<DigitChar[n % 10]>>

AllDigits(t) == t # <<>> /\ \A k \in DOMAIN t : t[k] \in Digits
DotAt(t) == SelectInSeq(t, LAMBDA c : c = ".")

(***************************************************************************)
(* tryParseValue: ParseInt succeeds on a decimal integer; else ParseFloat  *)
(* on a decimal with one point and a digit, or on "inf", "infinity",      *)
(* "nan" in any case; else the text stays a string.  A finite float64 is  *)
(* kept as its decimal digits: whole part, and fraction without trailing   *)
(* zeros (at these lengths every such decimal round-trips).                *)
(***************************************************************************)
TryParseValue(t) ==
    LET d == DotAt(t)
        whole == SubSeq(t, 1, d - 1)
        frac == SubSeq(t, d + 1, Len(t))
        fracDigits == SubSeq(frac, 1, SelectLastInSeq(frac, LAMBDA c : c # "0"))
    IN CASE AllDigits(t) -> Value("int", ParseDecimal(t), <<>>, <<>>)
         [] d > 0 /\ (whole = <<>> \/ AllDigits(whole)) /\ (frac = <<>> \/ AllDigits(frac))
                  /\ Len(t) > 1
              -> Value("float", ParseDecimal(whole), fracDigits, <<>>)
         [] t \in {<<"i","n","f">>, <<"i","n","f","i","n","i","t","y">>}
              -> Value("inf", 0, <<>>, <<>>)
         [] t = <<"n","a","n">> -> Value("nan", 0, <<>>, <<>>)
         [] OTHER -> Value("string", 0, <<>>, t)

\* The value loop of ParseBindMessage: length -1 is nil, else tryParseValue.
DecodeValue(w) == IF w.isNull THEN Value("nil", 0, <<>>, <<>>) ELSE TryParseValue(w.text)

(***************************************************************************)
(* The literal bindValues writes for a value: "null" for nil; a string     *)
(* single-quoted with every ' doubled (strings.ReplaceAll); an int64 by    *)
(* FormatInt; a float64 by FormatFloat(v, 'f', -1, 64), which writes +Inf  *)
(* and NaN for the non-finite ones.                                        *)
(***************************************************************************)
NullText == <<"n", "u", "l", "l">>
Literal(v) ==
    CASE v.k = "nil"    -> NullText
      [] v.k = "string" -> <<"'">> \o ReplaceAllSubSeqs(<<"'", "'">>, <<"'">>, v.s) \o <<"'">>
      [] v.k = "int"    -> FormatInt(v.n)
      [] v.k = "float"  -> FormatInt(v.n) \o (IF v.frac = <<>> THEN <<>> ELSE <<".">> \o v.frac)
      [] v.k = "inf"    -> <<"+", "I", "n", "f">>
      [] v.k = "nan"    -> <<"N", "a", "N">>

Init ==
    /\ sql \in BoundedSeq(SqlChars, MaxSql)
    /\ texts \in BoundedSeq({Null} \cup {Sent(t) : t \in ParamTexts}, MaxArgs)
    /\ args = <<>>
    /\ out = <<>>
    /\ lastIndex = 0
    /\ pc = "bind"

\* Bind: the portal keeps the values ParseBindMessage decoded.
Bind ==
    /\ pc = "bind"
    /\ args' = [i \in DOMAIN texts |-> DecodeValue(texts[i])]
    /\ pc' = "scan"
    /\ UNCHANGED <<sql, texts, out, lastIndex>>

\* The number of digits after the '$' at seg[1]: the inner for loop of bindValues.
DigitRun(seg) ==
    LET k == SelectInSeq(Tail(seg), LAMBDA c : c \notin Digits)
    IN IF k = 0 THEN Len(seg) - 1 ELSE k - 1

\* Bug variant of Consumed: lastIndex skips one character past the digits.
ConsumedTooMany(i) == i + 2

\* Bug variant of Consumed: lastIndex skips the digits but not the '$'.
ConsumedOffByOne(i) == i

\* lastIndex += i + 1: the '$' and its i digits are consumed.
Consumed(i) == i + 1

(***************************************************************************)
(* One iteration of the loop of bindValues.  No '$' left: write the rest   *)
(* and return.  Else write up to the '$'; a '$' without digits is copied;  *)
(* $N with N > len(args) becomes null; else args[N-1] is written, which    *)
(* for N = 0 indexes args[-1] and panics.                                  *)
(***************************************************************************)
Scan ==
    /\ pc = "scan"
    /\ LET rest == SubSeq(sql, lastIndex + 1, Len(sql))
           idx == SelectInSeq(rest, LAMBDA c : c = "$") - 1
           seg == SubSeq(rest, idx + 1, Len(rest))
           i == DigitRun(seg)
           n == ParseDecimal(SubSeq(seg, 2, i + 1))
           before == out \o SubSeq(rest, 1, idx)
       IN IF idx < 0
          THEN /\ out' = out \o rest
               /\ pc' = "done"
               /\ UNCHANGED lastIndex
          ELSE CASE i = 0 ->
                      /\ out' = before \o <<"$">>
                      /\ lastIndex' = lastIndex + idx + 1
                      /\ UNCHANGED pc
                 [] i > 0 /\ n > Len(args) ->
                      /\ out' = before \o NullText
                      /\ lastIndex' = lastIndex + idx + Consumed(i)
                      /\ UNCHANGED pc
                 [] i > 0 /\ n = 0 ->
                      /\ pc' = "crashed"
                      /\ UNCHANGED <<out, lastIndex>>
                 [] OTHER ->
                      /\ out' = before \o Literal(args[n])
                      /\ lastIndex' = lastIndex + idx + Consumed(i)
                      /\ UNCHANGED pc
    /\ UNCHANGED <<sql, texts, args>>

Next == Bind \/ Scan

Spec == Init /\ [][Next]_vars

-----------------------------------------------------------------------------
TypeOK ==
    /\ sql \in BoundedSeq(SqlChars, MaxSql)
    /\ lastIndex \in 0..Len(sql)
    /\ pc \in {"bind", "scan", "done", "crashed"}
    /\ pc \in {"scan", "done"} => Len(args) = Len(texts)

\* The digits that follow a '$' (a placeholder's number).
RECURSIVE DigitPrefix(_)
DigitPrefix(t) == IF t # <<>> /\ Head(t) \in Digits THEN <<Head(t)>> \o DigitPrefix(Tail(t)) ELSE <<>>

(***************************************************************************)
(* The substitution spec section 4.3.4 asks for, written as a recursion    *)
(* over the text: each $N becomes the literal of the N-th bound value (a   *)
(* placeholder with no value becomes null, as in the DESCRIBE probe of     *)
(* inferStmtOutputNamesAndTypes); every other character is kept.          *)
(***************************************************************************)
RECURSIVE Substituted(_, _)
Substituted(s, a) ==
    IF s = <<>> THEN <<>>
    ELSE IF Head(s) # "$" \/ DigitPrefix(Tail(s)) = <<>>
         THEN <<Head(s)>> \o Substituted(Tail(s), a)
         ELSE LET d == DigitPrefix(Tail(s))
                  n == ParseDecimal(d)
              IN (IF n \in 1..Len(a) THEN Literal(a[n]) ELSE NullText)
                 \o Substituted(SubSeq(s, Len(d) + 2, Len(s)), a)

(***************************************************************************)
(* When bindValues returns, the text it built is the specified             *)
(* substitution of the Bind values into the statement: its index          *)
(* arithmetic over lastIndex, the '$' offset and the digit run is exact.   *)
(***************************************************************************)
SubstitutionMatchesSpec == pc = "done" => out = Substituted(sql, args)

-----------------------------------------------------------------------------
(***************************************************************************)
(* How the engine reads a statement: the lexical rules of the PostgreSQL   *)
(* grammar DuckDB's parser uses.  A quoted string ('' is a quote inside    *)
(* it), a parameter $N, a number (digits, optionally a point and digits),  *)
(* an identifier or keyword (a letter, then letters, digits or $), any     *)
(* other character on its own, a space too.                               *)
(***************************************************************************)
Letters == {"a", "f", "i", "l", "n", "t", "u", "x", "y", "I", "N"}
Tok(t, n, frac, s) == [t |-> t, n |-> n, frac |-> frac, s |-> s]

\* The length of the run of elements satisfying P from index from on.
RunLen(s, from, P(_)) ==
    LET k == SelectInSubSeq(s, from, Len(s), LAMBDA c : ~P(c))
    IN IF k = 0 THEN Len(s) - from + 1 ELSE k - from

\* The index of the quote closing a string whose text starts at index i, 0 if none.
RECURSIVE StrEnd(_, _)
StrEnd(s, i) ==
    IF i > Len(s) THEN 0
    ELSE IF s[i] # "'" THEN StrEnd(s, i + 1)
    ELSE IF i < Len(s) /\ s[i + 1] = "'" THEN StrEnd(s, i + 2)
    ELSE i

Unquote(s) == ReplaceAllSubSeqs(<<"'">>, <<"'", "'">>, s)

RECURSIVE Lex(_)
Lex(s) ==
    IF s = <<>> THEN <<>>
    ELSE LET c == Head(s)
             Rest(k) == SubSeq(s, k + 1, Len(s))
             e == StrEnd(s, 2)
             w == RunLen(s, 1, LAMBDA x : x \in Digits)
             f == IF w < Len(s) /\ s[w + 1] = "." THEN RunLen(s, w + 2, LAMBDA x : x \in Digits) ELSE 0
             frac == SubSeq(s, w + 2, w + 1 + f)
             p == IF Len(s) > 1 THEN RunLen(s, 2, LAMBDA x : x \in Digits) ELSE 0
             id == RunLen(s, 2, LAMBDA x : x \in Letters \cup Digits \cup {"$"})
         IN CASE c = " " -> <<Tok("sp", 0, <<>>, <<>>)>> \o Lex(Tail(s))
              [] c = "'" /\ e = 0 -> <<Tok("open", 0, <<>>, Unquote(Tail(s)))>>
              [] c = "'" /\ e > 0 -> <<Tok("str", 0, <<>>, Unquote(SubSeq(s, 2, e - 1)))>> \o Lex(Rest(e))
              [] c = "$" /\ p > 0 -> <<Tok("param", ParseDecimal(SubSeq(s, 2, p + 1)), <<>>, <<>>)>> \o Lex(Rest(p + 1))
              [] c \in Digits /\ f = 0 -> <<Tok("num", ParseDecimal(SubSeq(s, 1, w)), <<>>, <<>>)>> \o Lex(Rest(w))
              [] c \in Digits /\ f > 0 ->
                    <<Tok("num", ParseDecimal(SubSeq(s, 1, w)),
                          SubSeq(frac, 1, SelectLastInSeq(frac, LAMBDA x : x # "0")), <<>>)>>
                    \o Lex(Rest(w + 1 + f))
              [] c \in Letters -> <<Tok("id", 0, <<>>, SubSeq(s, 1, id + 1))>> \o Lex(Rest(id + 1))
              [] OTHER -> <<Tok("chr", 0, <<>>, <<c>>)>> \o Lex(Tail(s))

\* The token a bound value stands for when the engine binds it to a parameter.
ValueToken(v) ==
    CASE v.k = "nil"    -> Tok("id", 0, <<>>, NullText)
      [] v.k = "string" -> Tok("str", 0, <<>>, v.s)
      [] v.k \in {"int", "float"} -> Tok("num", v.n, v.frac, <<>>)
      [] v.k \in {"inf", "nan"} -> Tok(v.k, 0, <<>>, <<>>)

\* No two operands (strings, parameters, numbers, names) without a space or an
\* operator between them: such a statement is no expression, and the engine
\* rejects it on either path.
NoGluedOperands(toks) ==
    \A j \in 1..(Len(toks) - 1) :
        ~(toks[j].t \in {"str", "param", "num", "id"} /\ toks[j + 1].t \in {"str", "param", "num", "id"})

\* The statement lexes (no unterminated string) and every parameter of it has a
\* bound value: the statements the prepared path runs.
AllBound(toks, a) ==
    \A j \in DOMAIN toks :
        /\ toks[j].t # "open"
        /\ toks[j].t = "param" => toks[j].n \in 1..Len(a)

Bound(toks, a) == [j \in DOMAIN toks |-> IF toks[j].t = "param" THEN ValueToken(a[toks[j].n]) ELSE toks[j]]

(***************************************************************************)
(* A statement with more than 20 parameters means what it means with       *)
(* fewer: the text bindValues builds reads, token for token, as the        *)
(* statement with each parameter replaced by the value bound to it, which  *)
(* is what the engine runs on the prepared path (spec section 4.3.4).      *)
(***************************************************************************)
SubstitutionKeepsMeaning ==
    (pc = "done" /\ NoGluedOperands(Lex(sql)) /\ AllBound(Lex(sql), args)) => Lex(out) = Bound(Lex(sql), args)

=============================================================================
