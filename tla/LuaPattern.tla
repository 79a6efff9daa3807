----------------------------- MODULE LuaPattern -----------------------------
(***************************************************************************)
(* Pattern matching of the string library (src/3rd/lua-5.3.5/src/          *)
(* lstrlib.c): `match' with its captures and its backtracking, string.find *)
(* and string.match, string.gmatch and string.gsub.                        *)
(*                                                                         *)
(* A string is a sequence of characters, and a character is a string of    *)
(* length one.  A position is an index; the one after the last character   *)
(* is the end, and the character found there is NUL.                       *)
(*                                                                         *)
(* A definition whose name ends in Slip is the one after it with a         *)
(* plausible programming slip; no specification uses it.                    *)
(***************************************************************************)
EXTENDS Integers, Sequences, FiniteSets, SequencesExt

CONSTANTS
    Order,      \* the characters in the order of their codes
    Classes,    \* the characters in each class: "a", "d", ...
    MaxCCalls,  \* how deep `match' may recurse
    MaxCaptures \* LUA_MAXCAPTURES

NUL == "NUL"
Esc == "%"
Digits == <<"1", "2", "3", "4", "5", "6", "7", "8", "9">>
Unfinished == -1
Position == -2

Code(c) == IF c = NUL THEN 0 ELSE CHOOSE i \in DOMAIN Order : Order[i] = c
At(str, i) == IF i \in DOMAIN str THEN str[i] ELSE NUL
End(str) == Len(str) + 1

-----------------------------------------------------------------------------
(* Single characters. *)

Error == [kind |-> "error"]

\* classend: the position after the class at p, or 0 for a malformed one.
RECURSIVE BracketEnd(_, _)
BracketEnd(pat, p) ==
    IF p = End(pat) THEN 0
    ELSE LET q == IF pat[p] = Esc /\ p + 1 < End(pat) THEN p + 2 ELSE p + 1
         IN  IF At(pat, q) = "]" THEN q + 1 ELSE BracketEnd(pat, q)
ClassEnd(pat, p) ==
    CASE At(pat, p) = Esc -> IF p + 1 = End(pat) THEN 0 ELSE p + 2
      [] At(pat, p) = "[" -> BracketEnd(pat, IF At(pat, p + 1) = "^" THEN p + 2 ELSE p + 1)
      [] OTHER            -> p + 1

MatchClass(c, cl) == IF cl \in DOMAIN Classes THEN c \in Classes[cl] ELSE c = cl

\* matchbracketclass from position p up to the bracket that closes it, at ec.
RECURSIVE InSet(_, _, _, _)
InSet(c, pat, p, ec) ==
    IF p >= ec THEN FALSE
    ELSE IF pat[p] = Esc THEN MatchClass(c, pat[p + 1]) \/ InSet(c, pat, p + 2, ec)
    ELSE IF At(pat, p + 1) = "-" /\ p + 2 < ec
         THEN (Code(pat[p]) <= Code(c) /\ Code(c) <= Code(pat[p + 2])) \/ InSet(c, pat, p + 3, ec)
    ELSE c = pat[p] \/ InSet(c, pat, p + 1, ec)
MatchBracketClass(c, pat, p, ec) ==
    IF At(pat, p + 1) = "^" THEN ~InSet(c, pat, p + 2, ec) ELSE InSet(c, pat, p + 1, ec)

SingleMatch(ms, s, p, ep) ==
    /\ s < End(ms.src)
    /\ CASE At(ms.pat, p) = "." -> TRUE
         [] At(ms.pat, p) = Esc -> MatchClass(ms.src[s], ms.pat[p + 1])
         [] At(ms.pat, p) = "[" -> MatchBracketClass(ms.src[s], ms.pat, p, ep - 1)
         [] OTHER               -> ms.pat[p] = ms.src[s]

\* matchbalance: the position after the balanced string at s, or 0.
RECURSIVE Balance(_, _, _, _, _)
Balance(src, s, b, e, cont) ==
    IF s >= End(src) THEN 0
    ELSE IF src[s] = e THEN (IF cont = 1 THEN s + 1 ELSE Balance(src, s + 1, b, e, cont - 1))
    ELSE Balance(src, s + 1, b, e, IF src[s] = b THEN cont + 1 ELSE cont)
MatchBalance(ms, s, p) ==
    IF At(ms.src, s) # ms.pat[p] THEN 0
    ELSE Balance(ms.src, s + 1, ms.pat[p], ms.pat[p + 1], 1)

-----------------------------------------------------------------------------
(* match: the result has the MatchState after it, whether it matched or not. *)

Found(ms, s) == [kind |-> "match", s |-> s, ms |-> ms]
Fail(ms) == [kind |-> "fail", ms |-> ms]
Failed(r) == r.kind = "fail"

\* check_capture of a digit, capture_to_close: a level, or 0.
CheckCapture(ms, digit) ==
    LET l == IF digit = "0" THEN 0 ELSE CHOOSE i \in DOMAIN Digits : Digits[i] = digit
    IN  IF l = 0 \/ l > ms.level \/ ms.capture[l].len = Unfinished THEN 0 ELSE l
CaptureToClose(ms) ==
    LET open == {l \in 1 .. ms.level : ms.capture[l].len = Unfinished}
    IN  IF open = {} THEN 0 ELSE CHOOSE l \in open : \A k \in open : k <= l
CaptureAt(ms, l) == SubSeq(ms.src, ms.capture[l].init, ms.capture[l].init + ms.capture[l].len - 1)

\* What is undone when the rest does not match.
UndoStart(r) == IF Failed(r) THEN [r EXCEPT !.ms.level = @ - 1] ELSE r
\* The slip: a capture that was closed stays closed.
UndoEndSlip(r, l) == r
UndoEnd(r, l) == IF Failed(r) THEN [r EXCEPT !.ms.capture[l].len = Unfinished] ELSE r
Leave(r) == IF r = Error THEN r ELSE [r EXCEPT !.ms.matchdepth = @ + 1]

RECURSIVE Match(_, _, _), DoMatch(_, _, _), Default(_, _, _, _),
          MaxExpand(_, _, _, _, _), MinExpand(_, _, _, _)

Match(ms, s, p) ==
    IF ms.matchdepth = 0 THEN Error
    ELSE Leave(DoMatch([ms EXCEPT !.matchdepth = @ - 1], s, p))

StartCapture(ms, s, p, what) ==
    IF ms.level >= MaxCaptures THEN Error
    ELSE UndoStart(Match([ms EXCEPT !.level = @ + 1,
                                    !.capture[ms.level + 1] = [init |-> s, len |-> what]], s, p))

EndCapture(ms, s, p) ==
    LET l == CaptureToClose(ms)
    IN  IF l = 0 THEN Error
        ELSE UndoEnd(Match([ms EXCEPT !.capture[l].len = s - ms.capture[l].init], s, p), l)

MatchCapture(ms, s, p) ==
    LET l == CheckCapture(ms, ms.pat[p])
        len == ms.capture[l].len
    IN  IF l = 0 THEN Error
        \* (size_t)CAP_POSITION is greater than any length
        ELSE IF len # Position /\ End(ms.src) - s >= len
                /\ SubSeq(ms.src, s, s + len - 1) = CaptureAt(ms, l)
        THEN DoMatch(ms, s + len, p + 1)
        ELSE Fail(ms)

Frontier(ms, s, p) ==
    LET ep == ClassEnd(ms.pat, p)
    IN  IF At(ms.pat, p) # "[" \/ ep = 0 THEN Error
        ELSE IF /\ ~MatchBracketClass(At(ms.src, s - 1), ms.pat, p, ep - 1)
                /\ MatchBracketClass(At(ms.src, s), ms.pat, p, ep - 1)
        THEN DoMatch(ms, s, ep)
        ELSE Fail(ms)

Balanced(ms, s, p) ==
    IF p >= End(ms.pat) - 1 THEN Error
    ELSE IF MatchBalance(ms, s, p) = 0 THEN Fail(ms)
    ELSE DoMatch(ms, MatchBalance(ms, s, p), p + 2)

DoMatch(ms, s, p) ==
    LET c == At(ms.pat, p)
        d == At(ms.pat, p + 1)
    IN  CASE p = End(ms.pat)              -> Found(ms, s)
          [] c = "(" /\ d = ")"           -> StartCapture(ms, s, p + 2, Position)
          [] c = "(" /\ d # ")"           -> StartCapture(ms, s, p + 1, Unfinished)
          [] c = ")"                      -> EndCapture(ms, s, p + 1)
          [] c = "$" /\ p + 1 = End(ms.pat) -> IF s = End(ms.src) THEN Found(ms, s) ELSE Fail(ms)
          [] c = Esc /\ d = "b"           -> Balanced(ms, s, p + 2)
          [] c = Esc /\ d = "f"           -> Frontier(ms, s, p + 2)
          [] c = Esc /\ d \in {"0"} \cup ToSet(Digits) -> MatchCapture(ms, s, p + 1)
          [] OTHER                        -> Default(ms, s, p, ClassEnd(ms.pat, p))

\* A class with its suffix at ep.
Default(ms, s, p, ep) ==
    LET suffix == At(ms.pat, ep)
    IN  IF ep = 0 THEN Error
        ELSE IF ~SingleMatch(ms, s, p, ep)
        THEN IF suffix \in {"*", "?", "-"} THEN DoMatch(ms, s, ep + 1) ELSE Fail(ms)
        ELSE CASE suffix = "?" -> LET r == Match(ms, s + 1, ep + 1)
                                  IN  IF Failed(r) THEN DoMatch(r.ms, s, ep + 1) ELSE r
               [] suffix = "+" -> MaxExpand(ms, s + 1, p, ep, 0)
               [] suffix = "*" -> MaxExpand(ms, s, p, ep, 0)
               [] suffix = "-" -> MinExpand(ms, s, p, ep)
               [] OTHER        -> DoMatch(ms, s + 1, ep)

\* max_expand: as many as there are, then one fewer each time.
RECURSIVE Shrink(_, _, _, _)
Shrink(ms, s, ep, i) ==
    IF i < 0 THEN Fail(ms)
    ELSE LET r == Match(ms, s + i, ep + 1)
         IN  IF Failed(r) THEN Shrink(r.ms, s, ep, i - 1) ELSE r
MaxExpand(ms, s, p, ep, i) ==
    IF SingleMatch(ms, s + i, p, ep) THEN MaxExpand(ms, s, p, ep, i + 1)
    ELSE Shrink(ms, s, ep, i)

MinExpand(ms, s, p, ep) ==
    LET r == Match(ms, s, ep + 1)
    IN  IF ~Failed(r) THEN r
        ELSE IF SingleMatch(r.ms, s, p, ep) THEN MinExpand(r.ms, s + 1, p, ep)
        ELSE r

-----------------------------------------------------------------------------
(* find, match, gmatch and gsub. *)

PrepState(src, pat) ==
    [src |-> src, pat |-> pat, matchdepth |-> MaxCCalls, level |-> 0,
     capture |-> [l \in 1 .. MaxCaptures |-> [init |-> 1, len |-> 0]]]
ReprepState(ms) == [ms EXCEPT !.level = 0]

\* push_onecapture: a capture that was not closed is an error.
CaptureOf(ms, l) ==
    IF ms.capture[l].len = Position THEN [at |-> ms.capture[l].init, text |-> <<>>]
    ELSE [at |-> 0, text |-> CaptureAt(ms, l)]
Captures(ms) == [l \in 1 .. ms.level |-> CaptureOf(ms, l)]
Unclosed(ms) == \E l \in 1 .. ms.level : ms.capture[l].len = Unfinished

NoSpecials(pat) == ToSet(pat) \cap {"^", "$", "*", "+", "?", ".", "(", "[", Esc, "-"} = {}

\* lmemfind in src from position i on.
Occurs(src, pat, i) == SubSeq(src, i, i + Len(pat) - 1) = pat
MemFind(src, pat, i) ==
    LET at == {k \in i .. End(src) - Len(pat) : Occurs(src, pat, k)}
    IN  IF at = {} THEN 0 ELSE CHOOSE k \in at : \A l \in at : k <= l

\* The first match from position s on, where it starts and the state after it.
RECURSIVE Search(_, _, _)
Search(ms, s, anchor) ==
    LET r == Match(ReprepState(ms), s, 1)
    IN  IF r = Error THEN r
        ELSE IF ~Failed(r)
        THEN IF Unclosed(r.ms) THEN Error
             ELSE [kind |-> "match", from |-> s, to |-> r.s, captures |-> Captures(r.ms), ms |-> r.ms]
        ELSE IF s < End(ms.src) /\ ~anchor THEN Search(r.ms, s + 1, anchor)
        ELSE r

\* str_find_aux with find, from the first character.
Find(src, pat) ==
    IF NoSpecials(pat)
    THEN LET i == MemFind(src, pat, 1)
         IN  IF i = 0 THEN [kind |-> "fail", ms |-> PrepState(src, pat)]
             ELSE [kind |-> "match", from |-> i, to |-> i + Len(pat), captures |-> <<>>,
                   ms |-> PrepState(src, pat)]
    ELSE IF At(pat, 1) = "^" THEN Search(PrepState(src, Tail(pat)), 1, TRUE)
    ELSE Search(PrepState(src, pat), 1, FALSE)

\* gmatch_aux, again and again: the matches as pairs of start and end.  An empty
\* match where the last one ended is passed over.
RECURSIVE Gmatch(_, _, _)
Gmatch(ms, s, last) ==
    IF s > End(ms.src) THEN [kind |-> "match", matches |-> <<>>]
    ELSE LET r == Match(ReprepState(ms), s, 1)
         IN  IF r = Error THEN Error
             ELSE IF Failed(r) \/ r.s = last THEN Gmatch(r.ms, s + 1, last)
             ELSE LET rest == Gmatch(r.ms, r.s, r.s)
                  IN  IF rest = Error \/ Unclosed(r.ms) THEN Error
                      ELSE [rest EXCEPT !.matches = << <<s, r.s>> >> \o @]

\* The loop of str_gsub with a replacement of one character.
RECURSIVE Gsub(_, _, _, _, _)
Gsub(ms, s, last, repl, anchor) ==
    LET r == Match(ReprepState(ms), s, 1)
        Then(text, n, next, l) ==
            IF anchor THEN [kind |-> "match", text |-> text \o SubSeq(ms.src, next, Len(ms.src)), n |-> n]
            ELSE LET rest == Gsub(r.ms, next, l, repl, anchor)
                 IN  IF rest = Error THEN Error
                     ELSE [rest EXCEPT !.text = text \o @, !.n = n + @]
    IN  IF r = Error THEN Error
        ELSE IF ~Failed(r) /\ r.s # last THEN Then(repl, 1, r.s, r.s)
        ELSE IF s < End(ms.src) THEN Then(<<ms.src[s]>>, 0, s + 1, last)
        ELSE [kind |-> "match", text |-> <<>>, n |-> 0]

-----------------------------------------------------------------------------
(* The reference.  A pattern is a sequence of pieces, and a way to match is  *)
(* where it ends, the captures, and how often each repeated piece was taken. *)

Suffix == {"*", "+", "-", "?"}
IsClass(x) == \/ Len(x) = 1 /\ x[1] \notin Suffix \cup {"(", ")", "$"}
              \/ Len(x) > 1 /\ x[1] = "["
              \/ Len(x) > 1 /\ x[1] = Esc /\ x[2] \in DOMAIN Classes

Matching(x) ==
    CASE x = <<".">>      -> ToSet(Order)
      [] x[1] = "["       -> IF x[2] = "^" THEN ToSet(Order) \ ToSet(x) ELSE ToSet(x)
      [] Len(x) > 1 /\ x[1] = Esc -> Classes[x[2]]
      [] OTHER            -> {x[1]}

\* Brackets in the order ( ... ): every one closed, no more closed than open; a
\* capture is referred to when it is closed.
OpenBefore(pieces, i) == Cardinality({j \in 1 .. i - 1 : pieces[j] = <<"(">>})
                           - Cardinality({j \in 1 .. i - 1 : pieces[j] = <<")">>})
WellFormed(pieces) ==
    /\ OpenBefore(pieces, Len(pieces) + 1) = 0
    /\ Cardinality({i \in DOMAIN pieces : pieces[i][1] = "("}) <= MaxCaptures
    /\ \A i \in DOMAIN pieces :
         /\ OpenBefore(pieces, i) >= 0
         /\ pieces[i] = <<")">> => OpenBefore(pieces, i) > 0 /\ pieces[i - 1] # <<"(">>
         /\ pieces[i] = <<Esc, "1">> =>
              \E j \in 1 .. i - 1 :
                 \/ pieces[j] = <<"(", ")">> /\ (\A k \in 1 .. j - 1 : pieces[k] # <<"(">>)
                 \/ pieces[j] = <<")">> /\ OpenBefore(pieces, j + 1) = 0
         /\ pieces[i][1] \in Suffix => i > 1 /\ IsClass(pieces[i - 1])
         /\ pieces[i] = <<"$">> => i = Len(pieces)

Way(end, caps, reps) == [end |-> end, caps |-> caps, reps |-> reps]
Repeat(src, w, set, least, most, sign) ==
    {Way(w.end + n, w.caps, Append(w.reps, sign * n)) :
        n \in {n \in least .. most : w.end + n <= End(src)
                                     /\ \A i \in w.end .. w.end + n - 1 : src[i] \in set}}
LastOpen(caps) == CHOOSE l \in DOMAIN caps : /\ caps[l].to = 0
                                             /\ \A k \in DOMAIN caps : k > l => caps[k].to # 0
Text(src, c) == SubSeq(src, c.from, c.to - 1)
IsBalanced(src, from, to, b, e) ==
    LET Depth(i) == Cardinality({j \in from .. i : src[j] = b}) - Cardinality({j \in from .. i : src[j] = e})
    IN  /\ to - from >= 2 /\ src[from] = b /\ src[to - 1] = e
        /\ Depth(to - 1) = 0 /\ \A i \in from .. to - 2 : Depth(i) > 0

\* The ways to match the piece x with the suffix f ("" for none) after way w.
Ways(src, x, f, w) ==
    CASE x = <<"(">>      -> {[w EXCEPT !.caps = Append(@, [from |-> w.end, to |-> 0])]}
      [] x = <<")">>      -> {[w EXCEPT !.caps[LastOpen(w.caps)].to = w.end]}
      [] x = <<"(", ")">> -> {[w EXCEPT !.caps = Append(@, [from |-> w.end, to |-> Position])]}
      [] x = <<"$">>      -> IF w.end = End(src) THEN {w} ELSE {}
      [] x = <<Esc, "1">> -> IF w.caps[1].to = Position THEN {}
                             ELSE {[w EXCEPT !.end = e] : e \in
                                     {e \in w.end .. End(src) : SubSeq(src, w.end, e - 1) = Text(src, w.caps[1])}}
      [] Len(x) = 4 /\ x[2] = "b" ->
           {[w EXCEPT !.end = e] : e \in {e \in w.end .. End(src) : IsBalanced(src, w.end, e, x[3], x[4])}}
      [] Len(x) > 4 /\ x[2] = "f" ->
           LET set == Matching(SubSeq(x, 3, Len(x)))
           IN  IF At(src, w.end - 1) \notin set /\ At(src, w.end) \in set THEN {w} ELSE {}
      [] IsClass(x) /\ f = "*" -> Repeat(src, w, Matching(x), 0, Len(src), -1)
      [] IsClass(x) /\ f = "+" -> Repeat(src, w, Matching(x), 1, Len(src), -1)
      [] IsClass(x) /\ f = "?" -> Repeat(src, w, Matching(x), 0, 1, -1)
      [] IsClass(x) /\ f = "-" -> Repeat(src, w, Matching(x), 0, Len(src), 1)
      [] IsClass(x) /\ f = ""  -> {[v EXCEPT !.reps = w.reps] : v \in Repeat(src, w, Matching(x), 1, 1, 1)}

RECURSIVE AllWays(_, _, _)
AllWays(src, pieces, ways) ==
    IF pieces = <<>> THEN ways
    ELSE IF Len(pieces) > 1 /\ pieces[2][1] \in Suffix
    THEN AllWays(src, SubSeq(pieces, 3, Len(pieces)), UNION {Ways(src, pieces[1], pieces[2][1], w) : w \in ways})
    ELSE AllWays(src, Tail(pieces), UNION {Ways(src, pieces[1], "", w) : w \in ways})
WaysFrom(src, pieces, s) == AllWays(src, pieces, {Way(s, <<>>, <<>>)})

\* A suffix asks for as many as possible, or for as few.
Before(v, w) == \E i \in DOMAIN v.reps : v.reps[i] < w.reps[i] /\ \A j \in 1 .. i - 1 : v.reps[j] = w.reps[j]
Best(ways) == CHOOSE w \in ways : \A v \in ways \ {w} : ~Before(v, w)
CapturesOf(src, w) ==
    [l \in DOMAIN w.caps |-> IF w.caps[l].to = Position THEN [at |-> w.caps[l].from, text |-> <<>>]
                             ELSE [at |-> 0, text |-> Text(src, w.caps[l])]]

\* string.find gives the first place where the pattern matches, and of the ways to
\* match there the one that the suffixes ask for (max_expand, min_expand).
FindIsRight(src, pieces) ==
    LET r == Find(src, FlattenSeq(pieces))
        starts == {s \in 1 .. End(src) : WaysFrom(src, pieces, s) # {}}
        first == CHOOSE s \in starts : \A t \in starts : s <= t
        best == Best(WaysFrom(src, pieces, first))
    IN  /\ r # Error
        /\ r.ms.matchdepth = MaxCCalls
        /\ IF starts = {} THEN r.kind = "fail"
           ELSE /\ r.kind = "match"
                /\ r.from = first
                /\ r.to = best.end
                /\ r.captures = CapturesOf(src, best)

\* string.gmatch and string.gsub find the same matches; none overlaps another or is
\* empty at its end; what they leave is left alone.
GsubIsRight(src, pieces) ==
    LET m == Gmatch(PrepState(src, FlattenSeq(pieces)), 1, 0).matches
        g == Gsub(PrepState(src, FlattenSeq(pieces)), 1, 0, <<"#">>, FALSE)
        kept == {i \in DOMAIN src : \A k \in DOMAIN m : i \notin m[k][1] .. m[k][2] - 1}
    IN  /\ g.n = Len(m)
        /\ SelectSeq(g.text, LAMBDA c : c # "#")
             = [i \in 1 .. Cardinality(kept) |->
                  src[CHOOSE k \in kept : Cardinality({j \in kept : j <= k}) = i]]
        /\ \A k \in 1 .. Len(m) - 1 : m[k + 1][1] >= m[k][2] /\ m[k + 1][2] > m[k][2]
=============================================================================
