---------------------------- MODULE MCArguments ----------------------------
(***************************************************************************)
(* Instances of Arguments: families of scripts, each with all the texts of *)
(* some characters up to a length.                                         *)
(***************************************************************************)
EXTENDS Readings

\* The table Ascii by the places of its characters, which is a short expression.  TLC
\* evaluates what stands for a constant again and again, and a definition once.
Characters == " !\"#$%&'()*+,-./0123456789:;<=>?@ABCDEFGHIJKLMNOPQRSTUVWXYZ[\\]^_abcdefghijklmnopqrstuvwxyz{|}~"
InOrder ==
  [c \in {SubSeq(Characters, i, i) : i \in 1 .. Len(Characters)} |->
     LET i == CHOOSE i \in 1 .. Len(Characters) : SubSeq(Characters, i, i) = c
     IN  IF i <= 64 THEN 31 + i ELSE 32 + i]
Codes == InOrder

Script(lines) == [readable |-> TRUE, lines |-> lines]
Options(posix, sandbox, extended, bytes) ==
  [posix |-> posix, sandbox |-> sandbox, extended |-> extended, bytes |-> bytes]
Plain0 == Options(FALSE, FALSE, FALSE, FALSE)
JobOf(scripts, o) ==
  [scripts |-> scripts, posix |-> o.posix, sandbox |-> o.sandbox,
   extended |-> o.extended, bytes |-> o.bytes]
OneScript(lines, o) == JobOf(<<Script(lines)>>, o)

\* All the lines between two texts, of up to n characters
Around(before, chars, n, after) ==
  LET b == T(before)
      a == T(after)
  IN  {b \o s \o a : s \in SeqOf(Bytes(chars), n)}

\* 1~2p and its like
AddressJobs ==
  {OneScript(<<l>>, Plain0) : l \in Around("", "01,~$+ ", 4, "p")}

\* s/a/b/ with flags
FlagJobs ==
  {OneScript(<<l>>, o) : l \in Around("s/a/b/", "gpe20i ;", 3, ""),
     o \in {Plain0, Options(TRUE, FALSE, FALSE, FALSE), Options(FALSE, TRUE, FALSE, FALSE)}}

\* Where a regular expression ends
PatternJobs(before, chars, n, after) ==
  {OneScript(<<l>>, Plain0) : l \in Around(before, chars, n, after)}

\* A quantifier, in a basic and in an extended expression, and delimiters that are
\* parts of one
QuantifierJobs ==
  {OneScript(<<T("s") \o d \o l \o d \o T("b") \o d>>, o) :
     d \in {T(","), T("}"), T("{")}, l \in Around("", "\\{1,}", 4, ""),
     o \in {Plain0, Options(FALSE, FALSE, TRUE, FALSE)}}

\* The text of a, c, i and e
TextLines == SeqOf(Bytes("k\\ "), 2)
TextJobs ==
  {OneScript(<<c \o l, m, T("d")>>, Plain0) :
     c \in {T("a"), T("e")}, l \in SeqOf(Bytes("k\\ "), 3), m \in TextLines}

\* What is between the delimiters of s and what it means
MeaningJobs ==
  {OneScript(<<l>>, o) : l \in Around("s/", "a.*\\^$1", 4, "/b/"),
     o \in {Plain0, Options(FALSE, FALSE, TRUE, TRUE)}}

\* One line of each kind of command, argument, end and error
CommandLines ==
  {"", "#n", "# k", ";;", "d;p", "d}", "{p;}", "{p", "}", "{!}", "! p", "!!p", "1!{d;}", "k",
   ":a", ":", "ba", "b;t x-1;T", ":a;b a", "b?", "l", "l 5", "l99", "q3;d", "Q", "1,2Q",
   "rf", "r", "0r f", "0p", "w f", "w", "Wf", "v", "v4.2", "v4.9.1", "v5", "v.7", "v4.x", "v1.+2.0", "v4...",
   "e", "ed", "e\\", "a", "ak", "a\\", "a\\k\\n", "1i k", "$ck", "z", "F", "=", "1x;N",
   "/a/p", "/a/I,/b/ p", "\\,a,d", "\\", "\\\\a\\", "/a/,+1p", "/a*/Id", "/\\d092/p", "//d", "0,/a/d", "0,3d", "/a",
   "1,", "1~", "1, p", "1,~", "1~$p", "3~~2p", "1,~3p", "1,p", "1,99p", "+1p", "1p,", "1,+p",
   "s", "s/a", "s/a/b", "s/a/b/}", "s/a/b/k", "s/a/b/w f", "s/a/b/w", "s/a/b/gm;p", "s//b/g", "s//b/I",
   "s/a/\\1/", "s/\\(a\\)/\\1&/", "s/\\(a\\)/\\2/", "s/a.c/[&]\\n\\&\\//", "s,a\\,b,\\,\\q,", "s&a&\\&&",
   "s/a\\{1,2\\}/b/", "s/a\\{,2\\}/b/", "s/a\\{2,1\\}/b/", "s/a\\{9\\}/b/", "s/a\\{1,2,3\\}/b/", "s/a\\{1",
   "s/a\\{k\\}/b/", "s/\\}/b/", "s/a{1,2}/b/", "s/a{1/b/", "s{a\\{1\\}{b{", "s}a\\{1\\}}b}",
   "s/[[:a:]]/b/", "s/[[:a]/b/", "s/[[a]/b/", "s/[[", "s/[\\n\\q]/b/", "s/[\\", "s/[^]a]/b/",
   "s/\\x41\\d065\\o101\\cA\\u0041\\U00000041/\\x26\\t/", "s/\\x/b/", "s/\\u41/b/", "s/\\uD800/b/", "s/a\\",
   "s/\\c", "s/\\x5c/b/", "s/\\d092/b/", "s/\\(a\\)\\1/b/", "s/a\\", "s\\a\\b\\", "s/^a$/b/M",
   "y/ab/cd/", "y/ab/c/", "y/a\\/\\\\/\\nb\\q/", "y", "y/a", "y/a/b", "y/a/b/p", "y/a/b\\", "y\\a\\b\\"}

Bare == {Plain0, Options(TRUE, FALSE, FALSE, FALSE), Options(FALSE, TRUE, FALSE, FALSE),
         Options(FALSE, FALSE, TRUE, FALSE), Options(FALSE, FALSE, FALSE, TRUE)}

\* a, c and i of POSIX, a text that goes on, and the end of the script after it
Continued ==
  {<<"a\\", "k\\", "  m">>, <<"i\\ ", "k">>, <<"c\\", "">>, <<"a\\">>, <<"a\\", "k\\">>, <<"a k">>,
   <<"s/a/b\\", "c/;p">>, <<"s/a/b", "c/">>, <<"s/a/b\\">>, <<"{", "p", "}">>, <<"e\\", "d">>,
   <<"e k\\">>}

\* Bytes that are not ASCII: e with an acute accent, and its second byte alone.
Accent == <<195, 169>>
AccentLines ==
  {T("s/") \o Accent \o T("./b/"), T("s/\\") \o Accent \o T("/b/"), T("s/\\c") \o Accent \o T("/b/"),
   T("y/") \o Accent \o T("/b/"), T("y/a/") \o Accent \o T("b/"), T("y/") \o Tail(Accent) \o T("/b/"),
   T("y/a/\\xe9/"), T("s/\\xe9*/b/"), T("s/") \o Tail(Accent) \o T("*/b/"), <<Code["s"], 0>>,
   T("s/\\(") \o Tail(Accent) \o T("\\)\\1/b/"), T("s/") \o Tail(Accent) \o T("/b/")}

Missing == [readable |-> FALSE, lines |-> <<>>]
Texts2(lines) == [i \in DOMAIN lines |-> T(lines[i])]

\* Several -e and -f, with and without lines, and one that cannot be read
ScriptJobs ==
  {JobOf(<<Script(<<>>), Script(Texts2(lines)), Script(<<>>), last>>, o) :
     lines \in {<<"#n">>, <<"d", "#n">>, <<"a\\">>, <<"s/a/b\\">>, <<"a\\", "k\\">>},
     last \in {Missing, Script(Texts2(<<"#n", "m/;p">>)), Script(<<>>)},
     o \in {Plain0, Options(TRUE, FALSE, FALSE, FALSE)}}

CommandJobs == {OneScript(<<T(l)>>, o) : l \in CommandLines, o \in Bare}
ContinuedJobs == {OneScript(Texts2(lines), o) : lines \in Continued, o \in Bare}
AccentJobs == {OneScript(<<l>>, o) : l \in AccentLines, o \in Bare}

AllJobs ==
  {CommandJobs, ContinuedJobs, AccentJobs, ScriptJobs,
   AddressJobs, FlagJobs, TextJobs, MeaningJobs,
   PatternJobs("s/", "a/\\[]^", 5, "/b/"), PatternJobs("s/[a[", ":.]/[", 4, "]/b/"),
   PatternJobs("s[", "a[\\]", 4, "[b["), PatternJobs("s^", "[^]a", 4, "^b^"),
   PatternJobs("s/", "]^[$\\(1", 4, "/b/"),
   PatternJobs("s/", "\\c[/", 5, "/b/"), PatternJobs("s1", "\\dx1c", 4, "1b1"),
   PatternJobs("1,/[[:a", ":.]/", 5, ":]]/p"), PatternJobs("s/a/b/;s,", "[^],", 4, ",b,"),
   QuantifierJobs}

\* What is compiled is what the script says: its addresses, the flags of its s, and
\* the text of its a and e, which the code takes from the line byte by byte, a state
\* of its loops at a time.  What is refused says nothing.
ReadsBack ==
  /\ (Final /\ job \in AddressJobs) => AddressesAsRead
  /\ (Final /\ job \in FlagJobs) => FlagsAsRead
  /\ (Final /\ job \in TextJobs) => TextAsRead
=============================================================================
