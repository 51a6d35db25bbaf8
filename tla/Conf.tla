-------------------------------- MODULE Conf --------------------------------
(***************************************************************************)
(* The configuration file: readconf() of main.c with trim() and splitKey() *)
(* of trim.c.  A line is a sequence of tokens: "sp" for a blank or a tab,  *)
(* "nl" for the end of the line, "#", "\\", and words, each of which       *)
(* stands for a run of other characters.                                   *)
(***************************************************************************)
EXTENDS Integers, SequencesExt

CONSTANTS
    Tokens,             \* what lines are made of
    Files,              \* the files considered: sequences of lines
    NumberOf,           \* what atoi() makes of each token
    LineMax             \* tokens that fgets() returns at most

(* A line ends with its first "nl". *)
ASSUME ConfAssumption ==
    /\ LineMax \in Nat \ {0}
    /\ {"sp", "nl"} \subseteq Tokens /\ NumberOf \in [Tokens -> Int]
    /\ Files \subseteq Seq(Seq(Tokens))
    /\ \A f \in Files : \A k \in DOMAIN f : \A i \in 1..(Len(f[k]) - 1) : f[k][i] # "nl"

VARIABLES
    file,               \* history: the whole file
    rest,               \* what of it is still to be read
    reader              \* line, isMultiline and conf of readconf()

vars == <<file, rest, reader>>

White == {"sp", "nl"}

(* The indices of s, and the least of some, or past the end. *)
FirstOf(s, S) == Min(S \cup {Len(s) + 1})

DropWhite(s) ==
    LET Text == {i \in 1..Len(s) : s[i] \notin White} IN SubSeq(s, FirstOf(s, Text), Len(s))

(* A mutant of CommentMarks: any '#' opens a comment. *)
CommentMarksAny(s) == {i \in 2..Len(s) : s[i] = "#"}

(* A '#' opens a comment only at the start or after a blank. *)
CommentMarks(s) == {i \in 2..Len(s) : s[i] = "#" /\ s[i - 1] = "sp"}

(* The backslashes that end the line; one before a blank does not. *)
Backslashes(s) ==
    {i \in 1..Len(s) : s[i] = "\\" /\ \A j \in i..Len(s) : s[j] \in {"nl", "\\"}}

(* A mutant of Continued: a comment does not "invalidate multiline". *)
ContinuedComment(s) == Backslashes(s) # {}

Continued(s) == CommentMarks(s) = {} /\ Backslashes(s) # {}

(* trim(): leading blanks, a comment and trailing blanks go.  A backslash  *)
(* at the end becomes a blank and makes the line continue, unless there    *)
(* is a comment.                                                           *)
trim(s) ==
    LET u == DropWhite(s)
        cut == FirstOf(u, CommentMarks(u)) - 1
        kept == [i \in 1..Len(u) |-> IF Continued(u) /\ i \in Backslashes(u) THEN "sp" ELSE u[i]]
        last == Max({0} \cup {i \in 1..cut : u[i] \notin White})
    IN IF u # << >> /\ u[1] = "#" THEN [text |-> << >>, multiline |-> FALSE]
       ELSE [text |-> SubSeq(kept, 1, last), multiline |-> Continued(u)]

(* splitKey(): the first word, and what follows it, empty if nothing does. *)
splitKey(s) ==
    LET u == DropWhite(s)
        gap == FirstOf(u, {i \in 1..Len(u) : u[i] = "sp"})
    IN [key |-> SubSeq(u, 1, gap - 1), args |-> DropWhite(SubSeq(u, gap, Len(u)))]

----------------------------------------------------------------------------
Conf0 == [port |-> 8000, led |-> 0, starfrit |-> FALSE, starfrit_args |-> << >>]

Keys == {<<"port">>, <<"led">>, <<"starfrit">>, <<"starfrit_url">>}

(* The chain of strcmp().  A key without a value is handed on as NULL to   *)
(* atoi() or strcmp().                                                     *)
Assign(r, key, args) ==
    IF key \notin Keys THEN r
    ELSE IF args = << >> THEN [r EXCEPT !.crashed = TRUE]
    ELSE CASE key = <<"port">> -> [r EXCEPT !.conf.port = NumberOf[args[1]]]
           [] key = <<"led">> -> [r EXCEPT !.conf.led = NumberOf[args[1]]]
           [] key = <<"starfrit">> -> [r EXCEPT !.conf.starfrit = (args = <<"ON">>)]
           [] key = <<"starfrit_url">> -> [r EXCEPT !.conf.starfrit_args = args]

(* A mutant of Whole: strcpy() for strcat(). *)
WholeCopies(r, text) == text

Whole(r, text) == IF r.isMultiline THEN r.line \o text ELSE text

(* One turn of the loop of readconf(). *)
Line(r, s) ==
    LET t == trim(s)
        read == [r EXCEPT !.line = Whole(r, t.text), !.isMultiline = t.multiline]
        kv == splitKey(read.line)
    IN IF r.crashed \/ t.text = << >> THEN r
       ELSE IF t.multiline THEN read
       ELSE Assign(read, kv.key, kv.args)

Reader0 == [line |-> << >>, isMultiline |-> FALSE, conf |-> Conf0, crashed |-> FALSE]

Init ==
    /\ file \in Files
    /\ rest = file
    /\ reader = Reader0

(* fgets() returns a line, or as much of it as fits. *)
fgets(lines) == SubSeq(Head(lines), 1, Min({LineMax, Len(Head(lines))}))
Remaining(lines) ==
    IF Len(Head(lines)) <= LineMax THEN Tail(lines)
    ELSE <<SubSeq(Head(lines), LineMax + 1, Len(Head(lines)))>> \o Tail(lines)

readconf ==
    /\ rest # << >> /\ ~reader.crashed
    /\ reader' = Line(reader, fgets(rest))
    /\ rest' = Remaining(rest)
    /\ UNCHANGED file

Next == readconf

Spec == Init /\ [][Next]_vars

----------------------------------------------------------------------------
(* Files without lines that fgets() cuts, read to their end. *)
ReadWhole == rest = << >> /\ ~reader.crashed /\ \A k \in DOMAIN file : Len(file[k]) <= LineMax

ReadAll(lines) == FoldLeft(Line, Reader0, lines)

HasText(l) == \E i \in DOMAIN l : l[i] \notin White

(* The file as it would be without its comments and empty lines. *)
OpensComment(l, i) == l[i] = "#" /\ \/ i > 1 /\ l[i - 1] = "sp"
                                    \/ \A j \in 1..(i - 1) : l[j] = "sp"
WithoutComment(l) ==
    IF \E i \in DOMAIN l : OpensComment(l, i)
    THEN SubSeq(l, 1, Min({i \in DOMAIN l : OpensComment(l, i)}) - 1) \o <<"nl">>
    ELSE l
Clean(lines, l) ==
    IF HasText(WithoutComment(l)) THEN Append(lines, WithoutComment(l)) ELSE lines
Uncommented == FoldLeft(Clean, << >>, file)

(* The same with each continued line written as one: blanks stand for the  *)
(* backslashes at its end.                                                 *)
Continues(l) == \E i \in DOMAIN l : l[i] = "\\" /\ \A j \in (i + 1)..Len(l) : l[j] = "nl"
Opened(l) == [i \in 1..Max(Backslashes(l)) |-> IF i \in Backslashes(l) THEN "sp" ELSE l[i]]
Join(lines, l) ==
    IF lines # << >> /\ Continues(Last(lines))
    THEN Append(Front(lines), Opened(Last(lines)) \o DropWhite(l))
    ELSE Append(lines, l)
Joined == FoldLeft(Join, << >>, Uncommented)

(* Comments and empty lines mean nothing wherever they stand, also between *)
(* the lines of a continued one, as in the irbrgd.conf that is shipped.    *)
CommentsIgnored == ReadWhole => reader.conf = ReadAll(Uncommented).conf

(* A line that is continued reads as if it had been written as one.        *)
ContinuationJoins == ReadWhole => reader.conf = ReadAll(Joined).conf

(* The lines that name a key and are not continued past the end, and what  *)
(* stands after the key from the first text to the last.                   *)
KeyAt(l) == Min({i \in DOMAIN l : l[i] \notin White})
Names(l, key) == l[KeyAt(l)] = key /\ (KeyAt(l) < Len(l) => l[KeyAt(l) + 1] \in White)
Value(l) ==
    LET Text == {i \in (KeyAt(l) + 1)..Len(l) : l[i] \notin White} IN SubSeq(l, Min(Text), Max(Text))
Given(key) == {k \in DOMAIN Joined : Names(Joined[k], key) /\ ~Continues(Joined[k])}
ValueOf(key) == Value(Joined[Max(Given(key))])

(* Each key has the value of the last line that gives it one, or its       *)
(* default, whatever stands on the other lines: none is swallowed by a     *)
(* comment or a continuation of another.                                   *)
ValuesAsWritten ==
    ReadWhole =>
       /\ reader.conf.port = IF Given("port") = {} THEN 8000 ELSE NumberOf[ValueOf("port")[1]]
       /\ reader.conf.led = IF Given("led") = {} THEN 0 ELSE NumberOf[ValueOf("led")[1]]
       /\ reader.conf.starfrit = (Given("starfrit") # {} /\ ValueOf("starfrit") = <<"ON">>)
       /\ reader.conf.starfrit_args = IF Given("starfrit_url") = {} THEN << >> ELSE ValueOf("starfrit_url")
=============================================================================
