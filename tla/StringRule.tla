----------------------------- MODULE StringRule -----------------------------
(***************************************************************************)
(* rules/strings.rs: names and command lines in a file's text, over what   *)
(* is held of it or window by window over all of it.  A text is a sequence *)
(* of characters; what no rule looks into, such as "curl" or "-d", is one  *)
(* character of a word, and a word is a run of them.                       *)
(***************************************************************************)
EXTENDS Integers, Sequences, SequencesExt, FiniteSetsExt

CONSTANTS PatternSpan, Lookback, TextChunk, MaxTextStream,
          MaxWalkBack, MaxAssignments, MaxPipeTokens, MaxFormArg,
          MinSample, TextPrefix,
          Scripts          \* last components of paths with a script's extension

Punctuation ==
    {" ", "nl", "cr", "nul", ";", "|", "&", "(", ")", "<", ">", "tick", "double", "single", "back", "/", "~",
     "{", "}", "!", "@", "=", "$", "#!", "markup", "other", "end"}
Dashed == {"-d", "-D", "--decode", "-r", "-F", "-T", "--data", "--data-binary", "--upload-file",
           "-u", "-C", "-S", "-n"}
Digits == {"0"}

IsWord(c) == c \notin Punctuation
IsSpace(c) == c = " "
NotSpace(c) == c # " "
IsPath(c) == IsWord(c) \/ c = "/"
NotSlash(c) == c # "/"
IsBackslash(c) == c = "back"
InToken(c) == c \notin {" ", ";", "|", "&", "(", ")", "<", ">", "double", "single", "tick", "end"}

At(line, i) == IF i \in DOMAIN line THEN line[i] ELSE "end"

\* Where a run of characters from i ends, and where one that ends before i began.
Past(line, i, In(_)) == Min({j \in i..Len(line) : ~In(line[j])} \cup {Len(line) + 1})
Since(line, i, In(_)) == Max({j \in 1..(i - 1) : ~In(line[j])} \cup {0}) + 1
Occurs(text, needle) ==
    {i \in 1..(Len(text) - Len(needle) + 1) : SubSeq(text, i, i + Len(needle) - 1) = needle}
-----------------------------------------------------------------------------
\* Names, and those that must not go on as a longer word.
Bounded == {<<"|", " ", "sh">>, <<"|", " ", "bash">>}
Markers == Bounded \cup {<<"NSAppleScript">>, <<"osascript">>, <<"dlopen">>, <<"SecKeychain">>,
                         <<"curl", " ">>}

\* contains_token: what follows the end of a text that is not the last is not known.
MarkersIn(text, last) ==
    {m \in Markers : \E i \in Occurs(text, m) :
       m \in Bounded => LET c == At(text, i + Len(m)) IN IF c = "end" THEN last ELSE ~IsWord(c)}

MaxMarkerLen == Max({Len(m) : m \in Markers})

\* Mutant: a window keeps what a name takes, and no more.
StreamOverlap_Names == MaxMarkerLen

StreamOverlap == Max({MaxMarkerLen, PatternSpan + Lookback})

\* debug_assert!(overlap < STREAM_CHUNK).
ASSUME StringAssumption ==
    /\ PatternSpan \in Nat \ {0} /\ Lookback \in Nat /\ TextChunk \in Nat
    /\ StreamOverlap < TextChunk
-----------------------------------------------------------------------------
\* Command position.
Introducers == {<<w>> : w \in {"sudo", "exec", "eval", "then", "do", "else", "nohup", "time",
                               "command", "builtin", "env"}}

IsEscaped(line, i) == (i - Since(line, i, IsBackslash)) % 2 = 1

IsBackgroundOrAnd(line, i) == At(line, i - 1) \notin {">", "<", "|"} /\ At(line, i + 1) # ">"

ClosesGroup(line, from) == At(line, Past(line, from, IsSpace)) \in {"}", ")"}

\* What the text before s, up to j, says of a command at s; from t on is the
\* word there, which may be an assignment.
Before(line, s, j, t, cut) ==
    LET c == At(line, j - 1)
        k == Since(line, j, IsWord)
        escaped == c \in {";", "|", "(", "&"} /\ IsEscaped(line, j - 1)
        opens == \/ c \in {";", "|", "tick", "(", "double", "single"}
                 \/ c = "&" /\ IsBackgroundOrAnd(line, j - 1)
                 \/ c \in {"{", "!"} /\ j < s /\ (j = 2 \/ IsSpace(line[j - 2]))
                 \/ SubSeq(line, k, j - 1) \in Introducers /\ (k > 1 \/ ~cut)
        equals == {i \in t..(j - 1) : line[i] = "="}
        name == SubSeq(line, t, Min(equals \cup {j}) - 1)
        assigns == /\ equals # {} /\ name # <<>> /\ name[1] \notin Digits
                   /\ \A i \in DOMAIN name : IsWord(name[i]) /\ name[i] \notin Dashed
    IN IF j = 1 THEN (IF cut THEN "no" ELSE "yes")
       ELSE IF escaped THEN "no"
       ELSE IF opens THEN "yes"
       ELSE IF assigns /\ c # "&" THEN "look before" ELSE "no"

CommandStep(line, st, cut) ==
    LET j == Since(line, st.at, IsSpace)
        t == Max({Since(line, j, NotSpace), j - MaxWalkBack})
    IN [says |-> Before(line, st.at, j, t, cut), at |-> t]

\* at_command_position.
AtCommandPosition(line, s, cut) ==
    LET step(st, n) == IF st.says = "look before" THEN CommandStep(line, st, cut) ELSE st
    IN FoldLeft(step, [says |-> "look before", at |-> s], [n \in 1..(MaxAssignments + 1) |-> n]).says
         = "yes"

\* command_start of the word from s to e: 0 for none.
CommandStart(line, s, e, cut) ==
    LET path == At(line, s - 1) = "/"
        back == Max({Since(line, s, IsPath), s - MaxWalkBack})
        start == IF path THEN IF At(line, back - 1) = "~" THEN back - 1 ELSE back
                 ELSE IF At(line, s - 1) = "back" THEN s - 1 ELSE s
    IN IF path /\ At(line, e) = "/" THEN 0
       ELSE IF AtCommandPosition(line, start, cut) THEN start ELSE 0

\* is_alternation: words between the pipes back to a parenthesis.
IsAlternation(line, pipe) ==
    \E o \in Max({1, pipe - MaxWalkBack - 1})..(pipe - 2) :
      /\ line[o] = "(" /\ At(line, o - 1) \notin {"$", "<", ">"}
      /\ IsWord(line[o + 1]) /\ IsWord(line[pipe - 1])
      /\ \A i \in (o + 1)..(pipe - 1) :
           IsWord(line[i]) \/ (line[i] = "|" /\ IsWord(line[i + 1]))

DirectlyInSubstitution(line, s) ==
    LET j == Since(line, s, IsSpace)
    IN At(line, j - 1) = "(" /\ At(line, j - 2) \in {"<", "$"} /\ ~IsEscaped(line, j - 2)
-----------------------------------------------------------------------------
\* Pipes into a shell.
ShellWords == {<<"sh">>, <<"bash">>, <<"zsh">>}
SudoArgFlags == {<<"-u">>, <<"-C">>, <<"-r">>}
EnvArgFlags == {<<"-u">>, <<"-C">>, <<"-S">>}

\* shell_token: its characters, and where it ends; none of them for no token.
ShellToken(line, i) ==
    LET from == IF At(line, i) \in {"double", "single"} THEN i + 1 ELSE i
        to == Past(line, from, InToken)
    IN [word |-> SubSeq(line, from, to - 1), to |-> to]

BaseName(word) == SubSeq(word, Since(word, Len(word) + 1, NotSlash), Len(word))

\* The word after one option, which may take another word.
SkipOne(line, i, argFlags, assignments) ==
    LET token == ShellToken(line, i)
        option == token.word # <<>> /\ token.word[1] \in Dashed
        next == Past(line, token.to, IsSpace)
    IN IF option /\ token.word \in argFlags
       THEN LET arg == ShellToken(line, next)
            IN IF arg.word = <<>> THEN next ELSE Past(line, arg.to, IsSpace)
       ELSE IF option \/ (assignments /\ "=" \in Range(token.word)) THEN next ELSE i

SkipOptions(line, i, argFlags, assignments) ==
    FoldLeft(LAMBDA at, n : SkipOne(line, at, argFlags, assignments), i, [n \in 1..MaxPipeTokens |-> n])

PipeStep(line, st, cut) ==
    LET token == ShellToken(line, st.at)
        name == BaseName(token.word)
        next == Past(line, token.to, IsSpace)
        touches == token.to = Len(line) + 1 /\ cut
    IN IF token.word # <<>> /\ name \in ShellWords
       THEN [st EXCEPT !.on = FALSE, !.end = IF touches THEN 0 ELSE token.to]
       ELSE CASE name = <<"sudo">> -> [st EXCEPT !.at = SkipOptions(line, next, SudoArgFlags, FALSE)]
              [] name = <<"env">> -> [st EXCEPT !.at = SkipOptions(line, next, EnvArgFlags, TRUE)]
              [] name \in {<<"exec">>, <<"command">>} -> [st EXCEPT !.at = next]
              [] OTHER -> [st EXCEPT !.on = FALSE]

\* pipe_to_shell: where the name of the shell ends, 0 for none.
PipeToShell(line, pipe, cut) ==
    LET after == IF At(line, pipe + 1) = "&" THEN pipe + 2 ELSE pipe + 1
        step(st, n) == IF st.on THEN PipeStep(line, st, cut) ELSE st
    IN IF "|" \in {At(line, pipe - 1), At(line, pipe + 1)} THEN 0
       ELSE FoldLeft(step, [at |-> Past(line, after, IsSpace), on |-> TRUE, end |-> 0],
                     [n \in 1..MaxPipeTokens |-> n]).end
-----------------------------------------------------------------------------
\* One line.  Where each token last was, 0 for nowhere.
Decoders == {"base64", "openssl", "xxd"}
FlagsOf == [base64 |-> {<<"-d">>, <<"-D">>, <<"--decode">>}, openssl |-> {<<"-d">>}, xxd |-> {<<"-r">>}]
Downloaders == {<<"curl">>, <<"wget">>}
Heads == Downloaders \cup ShellWords \cup {<<d>> : d \in Decoders} \cup {<<"eval">>, <<"osascript">>}

LineState ==
    [downloader |-> 0, curl |-> 0, shellish |-> 0, osascript |-> 0, runs |-> FALSE,
     dec |-> [d \in Decoders |-> [start |-> 0, subcommand |-> FALSE, flag |-> FALSE]]]

WithinSpan(start, end) == start # 0 /\ end - start <= PatternSpan

\* words_follow: the two words of AppleScript's "do shell script".
ShellScriptFollows(line, e) ==
    LET s == Past(line, e, IsSpace)
        t == Past(line, s, IsWord)
        u == Past(line, t, IsSpace)
    IN /\ s # e /\ SubSeq(line, s, t - 1) = <<"shell">>
       /\ u # t /\ SubSeq(line, u, Past(line, u, IsWord) - 1) = <<"script">>

\* upload_flag: whether it names a file, or slices the line backwards.
UploadFlag(line, word, e, curl) ==
    LET s == Past(line, e, IsSpace)
        limit == Min({curl + PatternSpan, s + MaxFormArg, Len(line) + 1})
        arg == Min({Past(line, s, NotSpace), limit})
        names == \/ word \in {<<"--data-binary">>, <<"--data">>, <<"-d">>} /\ At(line, s) = "@"
                 \/ /\ word = <<"-F">>
                    /\ \E i \in s..(arg - 2) : line[i] = "=" /\ line[i + 1] = "@"
                 \/ word = <<"-T">> /\ At(line, e) = " " /\ s <= Len(line)
                 \/ word = <<"--upload-file">>
    IN IF word = <<"-F">> /\ limit < s THEN {"panic"} ELSE IF names THEN {"upload"} ELSE {}

\* A command begins at h, for a word that is one.
Began(st, word, h) ==
    [st EXCEPT
       !.downloader = IF word \in Downloaders THEN h ELSE @,
       !.curl = IF word = <<"curl">> THEN h ELSE @,
       !.shellish = IF word \in ShellWords \cup {<<"eval">>} THEN h ELSE @,
       !.osascript = IF word = <<"osascript">> THEN h ELSE @,
       !.runs = @ /\ word # <<"osascript">>,
       !.dec = [d \in Decoders |-> IF word # <<d>> THEN st.dec[d]
                                   ELSE [start |-> h, subcommand |-> d # "openssl", flag |-> FALSE]]]

Qualified(line, st, word, s, e) ==
    LET applescript == word = <<"do">> /\ ShellScriptFollows(line, e)
    IN [st EXCEPT
          !.osascript = IF applescript /\ @ = 0 THEN s ELSE @,
          !.runs = @ \/ applescript,
          !.dec = [d \in Decoders |->
                     [st.dec[d] EXCEPT !.flag = @ \/ word \in FlagsOf[d],
                                       !.subcommand = @ \/ (d = "openssl" /\ word \in {<<"enc">>, <<"base64">>})]]]

WordHits(line, st, word, h, e) ==
    {p \in {"download", "osascript"} : word \in Downloaders /\
       CASE p = "download" -> h # 0 /\ DirectlyInSubstitution(line, h) /\ WithinSpan(st.shellish, e)
         [] p = "osascript" -> st.runs /\ WithinSpan(st.osascript, e)}
    \cup IF WithinSpan(st.curl, e) THEN UploadFlag(line, word, e, st.curl) ELSE {}

AddWord(line, a, word, s, h) ==
    LET e == s + Len(word)
        st == Qualified(line, IF h = 0 THEN a.st ELSE Began(a.st, word, h), word, s, e)
    IN [a EXCEPT !.st = st, !.hits = @ \cup WordHits(line, st, word, h, e), !.next = e]

AtWord(line, a, s, e, cutStart, cutEnd) ==
    LET word == SubSeq(line, s, e - 1)
    IN IF (s = 1 /\ cutStart) \/ (e = Len(line) + 1 /\ cutEnd) THEN [a EXCEPT !.next = e]
       ELSE AddWord(line, a, word, s, IF word \in Heads THEN CommandStart(line, s, e, cutStart) ELSE 0)

AtPipe(line, a, end) ==
    LET decodes(d) == d.subcommand /\ d.flag /\ WithinSpan(d.start, end)
    IN [a EXCEPT !.hits = @ \cup
          {p \in {"download", "decode"} :
             CASE p = "download" -> WithinSpan(a.st.downloader, end)
               [] p = "decode" -> \E d \in Decoders : decodes(a.st.dec[d])}]

\* A separator outside quotes ends the command, unless a group closes with it.
EndsCommand(line, i) ==
    \/ line[i] = ";" /\ ~ClosesGroup(line, i + 1)
    \/ line[i] = "&" /\ IsBackgroundOrAnd(line, i) /\ ~ClosesGroup(line, i + 1)
    \/ line[i] = "|" /\ At(line, i + 1) = "|"

LineStep(line, a, i, cutStart, cutEnd) ==
    LET c == line[i]
        literal == ~IsWord(At(line, i + 1)) /\ At(line, i + 1) \notin {" ", "end"}
        b == [a EXCEPT !.next = i + 1,
                       !.st = IF a.quote = "none" /\ EndsCommand(line, i) THEN LineState ELSE @]
        end == IF c = "|" THEN PipeToShell(line, i, cutEnd) ELSE 0
    IN IF c = "back" /\ a.quote # "single" THEN [a EXCEPT !.next = IF literal THEN i + 2 ELSE i + 1]
       ELSE IF c \in {"single", "double"} /\ a.quote \in {"none", c}
       THEN [a EXCEPT !.next = i + 1, !.quote = IF a.quote = c THEN "none" ELSE c]
       ELSE IF IsWord(c) THEN AtWord(line, b, i, Past(line, i, IsWord), cutStart, cutEnd)
       ELSE IF end = 0 \/ IsAlternation(line, i) THEN b ELSE AtPipe(line, b, end)

\* scan_line; an edge that is cut is the edge of a window.
ScanLine(line, cutStart, cutEnd) ==
    FoldLeft(LAMBDA a, i : IF i < a.next THEN a ELSE LineStep(line, a, i, cutStart, cutEnd),
             [st |-> LineState, next |-> 1, quote |-> "none", hits |-> {}],
             [i \in 1..Len(line) |-> i]).hits
-----------------------------------------------------------------------------
\* The lines of a text, where each began and ended; a backslash joins two.
LineEnd(text, a, i) ==
    LET newline == CASE text[i] = "nl" -> 1
                     [] text[i] = "cr" /\ At(text, i + 1) = "nl" -> 2
                     [] OTHER -> 0
        part(to) == a.joined \o SubSeq(text, a.start, to)
    IN IF i <= Len(text) /\ newline > 0 /\ i > a.start /\ text[i - 1] = "back"
       THEN [a EXCEPT !.joined = Append(part(i - 2), " "), !.start = i + newline]
       ELSE [lines |-> Append(a.lines, [text |-> part(i - 1), from |-> a.from, to |-> i]),
             from |-> i + 1, start |-> i + 1, joined |-> <<>>]

Lines(text) ==
    FoldLeft(LAMBDA a, i : IF i < a.start \/ At(text, i) \notin {"nl", "cr", "nul", "end"} THEN a
                           ELSE LineEnd(text, a, i),
             [lines |-> <<>>, from |-> 1, start |-> 1, joined |-> <<>>],
             [i \in 1..(Len(text) + 1) |-> i]).lines

TccIn(text) == IF Occurs(text, <<"TCC", ".db">>) # {} THEN {"tcc"} ELSE {}

\* scan_patterns.
PatternsIn(text, first, last) ==
    TccIn(text) \cup UNION {ScanLine(l.text, l.from = 1 /\ ~first, l.to = Len(text) + 1 /\ ~last) :
                              l \in Range(Lines(text))}

ScanWindow(text, first, last) ==
    [markers |-> MarkersIn(text, last), patterns |-> PatternsIn(text, first, last)]

\* for_each_window: every window but the first begins with the end of the one before.
WindowCount(text) == (Len(text) + TextChunk - 1) \div TextChunk
Window(text, k) ==
    SubSeq(text, Max({1, (k - 1) * TextChunk + 1 - StreamOverlap}), Min({k * TextChunk, Len(text)}))

Together(hits) ==
    [markers |-> UNION {h.markers : h \in hits}, patterns |-> UNION {h.patterns : h \in hits}]

\* The first n windows.
StreamHits(text, n) ==
    Together({ScanWindow(Window(text, k), k = 1, k = WindowCount(text)) : k \in 1..n})
-----------------------------------------------------------------------------
PatternWeight == [download |-> 15, decode |-> 15, osascript |-> 15, tcc |-> 10, upload |-> 10]
NameWeight == 2
NameCap == 5

\* classify_text: a script by its first line or its name, or all but unprintable.
ReadsAsText(content, path) ==
    LET prefix == SubSeq(content, 1, Min({TextPrefix, Len(content)}))
        printable == SelectSeq(prefix, LAMBDA c : c \notin {"nul", "other"})
    IN \/ At(content, 1) = "#!" \/ Last(path) \in Scripts
       \/ /\ Len(prefix) >= MinSample
          /\ (Len(printable) * 100) \div Len(prefix) >= 85

\* score: names count in text only.
Score(hits, text) ==
    MapThenSumSet(LAMBDA p : PatternWeight[p], hits.patterns)
    + IF text THEN Min({NameWeight * Cardinality(hits.markers), NameCap}) ELSE 0

\* evaluate, of what a scan found; a stream that failed with nothing to show is
\* not a clean one.
Strings(hits, text, failed) ==
    LET weight == IF "panic" \in hits.patterns THEN 0 ELSE Score(hits, text)
    IN [weight |-> weight, hits |-> hits,
        says |-> IF "panic" \in hits.patterns THEN "panic"
                 ELSE IF weight > 0 THEN "finding" ELSE IF failed THEN "not applicable" ELSE "clean"]
=============================================================================
