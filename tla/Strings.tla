------------------------------- MODULE Strings -------------------------------
(***************************************************************************)
(* strings/strings.go: the pure functions on strings, over sequences of    *)
(* characters. Index, LastIndex, Count and Fields are those of the Go      *)
(* library. A state is one call: a subject, a search string, a second      *)
(* string (the replacement or the end boundary), an offset and a length.   *)
(***************************************************************************)
EXTENDS Integers, FiniteSets, FiniteSetsExt, Sequences
LOCAL SE == INSTANCE SequencesExt

CONSTANTS
    Chars,        \* the characters, the space among them
    Space,
    SubjectLen,   \* bound of the length of a subject
    SearchLen,    \* bound of the length of the other strings
    MaxInt        \* the largest int

VARIABLES subject, search, to, offset, length

vars == <<subject, search, to, offset, length>>

NoLength == MaxInt + 1
StringsUpTo(n) == UNION {[1..k -> Chars] : k \in 0..n}

-----------------------------------------------------------------------------
(* The Go library *)

\* The offsets, from 0, where t occurs in s.
Occurrences(s, t) == {i \in 0..(Len(s) - Len(t)) : SubSeq(s, i + 1, i + Len(t)) = t}

Index(s, t) == IF Occurrences(s, t) = {} THEN -1 ELSE Min(Occurrences(s, t))
LastIndex(s, t) == IF Occurrences(s, t) = {} THEN -1 ELSE Max(Occurrences(s, t))

\* s[i:j] of Go.
Slice(s, i, j) == SubSeq(s, i + 1, j)
From(s, i) == SubSeq(s, i + 1, Len(s))

\* int addition wraps.
Wrap(n) == IF n > MaxInt THEN n - 2 * (MaxInt + 1) ELSE n

RECURSIVE Count(_, _)
Count(s, t) ==
    IF t = <<>> THEN Len(s) + 1
    ELSE IF Index(s, t) = -1 THEN 0 ELSE 1 + Count(From(s, Index(s, t) + Len(t)), t)

RECURSIVE Fields(_)
Fields(s) ==
    LET words == {i \in 1..Len(s) : s[i] # Space}
        start == Min(words)
        end == Max({i \in words : \A j \in start..i : j \in words})
    IN IF words = {} THEN <<>> ELSE <<SubSeq(s, start, end)>> \o Fields(SubSeq(s, end + 1, Len(s)))

-----------------------------------------------------------------------------
(* strings.go *)

Reverse(s) == [i \in 1..Len(s) |-> s[Len(s) + 1 - i]]

ReplaceFirst(s, from, by) ==
    IF from = <<>> \/ Index(s, from) = -1 THEN s
    ELSE Slice(s, 0, Index(s, from)) \o by \o From(s, Index(s, from) + Len(from))

\* Mutant: the text after the match keeps its own length only.
ReplaceLastKeepsFrom(s, from, by) ==
    IF from = <<>> \/ LastIndex(s, from) = -1 THEN s
    ELSE Slice(s, 0, LastIndex(s, from)) \o by \o From(s, LastIndex(s, from) + 1)

ReplaceLast(s, from, by) ==
    IF from = <<>> \/ LastIndex(s, from) = -1 THEN s
    ELSE Slice(s, 0, LastIndex(s, from)) \o by \o From(s, LastIndex(s, from) + Len(from))

EnsurePrefix(s, prefix) == IF prefix = <<>> \/ SE!IsPrefix(prefix, s) THEN s ELSE prefix \o s

EnsureSuffix(s, suffix) == IF suffix = <<>> \/ SE!IsSuffix(suffix, s) THEN s ELSE s \o suffix

After(s, t) == IF t = <<>> \/ Index(s, t) = -1 THEN s ELSE From(s, Index(s, t) + Len(t))

AfterLast(s, t) == IF t = <<>> \/ LastIndex(s, t) = -1 THEN s ELSE From(s, LastIndex(s, t) + Len(t))

Before(s, t) == IF t = <<>> \/ Index(s, t) = -1 THEN s ELSE Slice(s, 0, Index(s, t))

BeforeLast(s, t) == IF t = <<>> \/ LastIndex(s, t) = -1 THEN s ELSE Slice(s, 0, LastIndex(s, t))

between(s, from, end, last) ==
    IF from = <<>> \/ end = <<>> \/ Index(s, from) = -1 THEN s
    ELSE LET after == From(s, Index(s, from) + Len(from))
             e == IF last THEN LastIndex(after, end) ELSE Index(after, end)
         IN IF e = -1 THEN s ELSE Slice(after, 0, e)

Between(s, from, end) == between(s, from, end, TRUE)
BetweenFirst(s, from, end) == between(s, from, end, FALSE)

NormalizeSpace(s) ==
    SE!FlattenSeq([i \in 1..Len(Fields(s)) |-> (IF i = 1 THEN <<>> ELSE <<Space>>) \o Fields(s)[i]])

\* The end of the slice; offset + lengths[0] may wrap.
End(s, i, n) == IF n = NoLength THEN Len(s) ELSE Min({Wrap(i + n), Len(s)})

\* -1 stands for the panic of a slice whose end is before its start.
SubstrCount(s, needle, i, n) ==
    IF i < 0 \/ i >= Len(s) \/ n < 0 THEN 0
    ELSE IF End(s, i, n) < i THEN -1
    ELSE Count(Slice(s, i, End(s, i, n)), needle)

-----------------------------------------------------------------------------
Init ==
    /\ subject \in StringsUpTo(SubjectLen) /\ search \in StringsUpTo(SearchLen)
    /\ to = <<>> /\ offset = 0 /\ length = NoLength

Plain == to = <<>> /\ offset = 0 /\ length = NoLength

\* The call gets a second string, or a window.
Replacement == Plain /\ to' \in StringsUpTo(SearchLen) /\ UNCHANGED <<subject, search, offset, length>>
Window ==
    /\ Plain /\ offset' \in -1..SubjectLen /\ length' \in -1..NoLength
    /\ UNCHANGED <<subject, search, to>>

Next == Replacement \/ Window

Spec == Init /\ [][Next]_vars

-----------------------------------------------------------------------------
Found == search # <<>> /\ Occurrences(subject, search) # {}

\* Before and After give the subject back around the match, the first one:
\* none begins earlier; BeforeLast and AfterLast the last one: none begins
\* later. Without a match all four give the subject.
CutsRejoin ==
    IF Found
    THEN /\ Before(subject, search) \o search \o After(subject, search) = subject
         /\ BeforeLast(subject, search) \o search \o AfterLast(subject, search) = subject
         /\ \A i \in Occurrences(subject, search) :
                Len(Before(subject, search)) <= i /\ i <= Len(BeforeLast(subject, search))
    ELSE {Before(subject, search), After(subject, search), BeforeLast(subject, search), AfterLast(subject, search)} = {subject}

\* The texts strictly between the first from and an end after it.
Insides ==
    {SubSeq(subject, i + 1, j) :
        i \in {Len(Before(subject, search)) + Len(search)},
        j \in {k \in Occurrences(subject, to) : k >= Len(Before(subject, search)) + Len(search)}}

\* Between is the longest text enclosed by the first from and a to that begins
\* after it, BetweenFirst the shortest; the subject when nothing is enclosed.
BetweenIsEnclosed ==
    IF Found /\ to # <<>> /\ Insides # {}
    THEN /\ {Between(subject, search, to), BetweenFirst(subject, search, to)} \subseteq Insides
         /\ \A s \in Insides :
                Len(BetweenFirst(subject, search, to)) <= Len(s) /\ Len(s) <= Len(Between(subject, search, to))
    ELSE {Between(subject, search, to), BetweenFirst(subject, search, to)} = {subject}

\* ReplaceLast is ReplaceFirst read backwards, although one searches with
\* LastIndex and cuts by hand and the other calls strings.Replace.
ReplacesMirror ==
    Reverse(ReplaceLast(subject, search, to)) = ReplaceFirst(Reverse(subject), Reverse(search), Reverse(to))

\* EnsureSuffix ends the result in the suffix, adds it once however often it is
\* called, and is EnsurePrefix read backwards.
EnsuresOnce ==
    LET s == EnsureSuffix(subject, search)
    IN /\ SE!IsSuffix(search, s) /\ EnsureSuffix(s, search) = s
       /\ Reverse(s) = EnsurePrefix(Reverse(subject), Reverse(search))

\* NormalizeSpace keeps the words and leaves one space between two of them, so
\* that a second call changes nothing.
SpaceIsNormal ==
    LET s == NormalizeSpace(subject)
    IN /\ Fields(s) = Fields(subject)
       /\ \A i \in 1..Len(s) : s[i] = Space => 1 < i /\ i < Len(s) /\ s[i + 1] # Space

\* Disjoint occurrences that lie inside the window.
Disjoint(first, end) ==
    {o \in SUBSET {i \in Occurrences(subject, search) : first <= i /\ i + Len(search) <= end} :
        \A i, j \in o : i < j => i + Len(search) <= j}

\* SubstrCount counts as many disjoint occurrences as fit in the window, unless
\* the sum of offset and length is past the largest int.
CountIsMaximal ==
    (search # <<>> /\ offset \in 0..(Len(subject) - 1) /\ length >= 0 /\ (length = NoLength \/ offset + length <= MaxInt))
        => SubstrCount(subject, search, offset, length)
           = Max({Cardinality(o) : o \in Disjoint(offset, IF length = NoLength THEN Len(subject) ELSE offset + length)})
\* Every function of strings.go agrees with its reference definition.
StringsAgree ==
    CutsRejoin /\ BetweenIsEnclosed /\ ReplacesMirror /\ EnsuresOnce /\ SpaceIsNormal /\ CountIsMaximal
=============================================================================
