---------------------------- MODULE SlogHandlers ----------------------------
(***************************************************************************)
(* The slog handlers of log/slog composed: a multi handler dispatches to a *)
(* syslog handler and to an enrich handler that wraps another syslog       *)
(* handler. The enrich handler keeps groups to itself to hold its dynamic  *)
(* attributes outside of them, so the same attributes reach the second     *)
(* writer along another path. A line is its priority and the qualified     *)
(* keys of its attributes, in order.                                       *)
(***************************************************************************)
EXTENDS Integers, Sequences, FiniteSets, SequencesExt

CONSTANTS
    Sources,     \* the lists of dynamic sources: "value", "group", "omit" and "batch"
    AttrLists,   \* the lists of attributes given to WithAttrs and to records
    Groups,      \* names of groups
    Levels,      \* levels of records, in the order of slog
    MaxDerived,  \* bound of the calls of WithAttrs and WithGroup
    MaxRecords   \* bound of the records

VARIABLES
    config,   \* of the enrich handler: sources and currentGroup; the levels of the two children
    multi,    \* the children of the multi handler
    lines,    \* what each child's writer has got
    errs,     \* the children whose error the last Handle returned
    derived,  \* history: the calls that derived the handler
    logged    \* history: the records, with the children whose writer failed

vars == <<config, multi, lines, errs, derived, logged>>

plain(k) == [key |-> k, group |-> FALSE, members |-> <<>>]
GroupOf(k, attrs) == [key |-> k, group |-> TRUE, members |-> attrs]

isEmptyGroup(a) == a.group /\ a.members = <<>>
NotEmpty(a) == ~isEmptyGroup(a)

\* slog.GroupValue, Record.Add and Record.AddAttrs leave empty groups out.
GroupValue(k, attrs) == GroupOf(k, SelectSeq(attrs, NotEmpty))
AddAttrs(attrs) == SelectSeq(attrs, NotEmpty)

-----------------------------------------------------------------------------
(* syslog *)

RECURSIVE appendAttr(_, _)
appendAttr(groups, a) ==
    IF a.group THEN
        LET inside == IF a.key = "" THEN groups ELSE Append(groups, a.key)
        IN FoldLeft(LAMBDA keys, m : keys \o appendAttr(inside, m), <<>>, a.members)
    ELSE IF a.key = "" THEN <<>> ELSE <<Append(groups, a.key)>>

SyslogWithAttrs(h, attrs) ==
    [h EXCEPT !.attrs = @ \o [k \in 1..Len(attrs) |-> [groups |-> h.groups, attr |-> attrs[k]]]]

SyslogWithGroup(h, name) == [h EXCEPT !.groups = Append(@, name)]

formatRecord(h, attrs) ==
    FoldLeft(LAMBDA keys, e : keys \o appendAttr(e.groups, e.attr), <<>>, h.attrs)
    \o FoldLeft(LAMBDA keys, a : keys \o appendAttr(h.groups, a), <<>>, attrs)

Priority(level) ==
    IF level < 0 THEN "debug" ELSE IF level < 4 THEN "info" ELSE IF level < 8 THEN "warning" ELSE "err"

SyslogHandle(h, level, attrs) == [priority |-> Priority(level), keys |-> formatRecord(h, attrs)]

-----------------------------------------------------------------------------
(* enrich *)

\* The attributes of one source.
Dynamic(source) ==
    CASE source = "value" -> <<plain("d")>>
      [] source = "group" -> <<GroupValue("d", <<plain("x")>>)>>
      [] source = "omit" -> <<>>
      [] source = "batch" -> <<plain("d"), GroupValue("d", <<>>), plain("d")>>

\* Mutant: the attributes of a group that was derived from are left out.
groupAttrInner(groups, attrs) ==
    LET inner == Len(groups)
        build[k \in 1..inner] ==
            IF k = inner THEN GroupValue(groups[k].name, groups[k].attrs \o attrs)
            ELSE GroupValue(groups[k].name, <<build[k + 1]>>)
    IN build[1]

\* One tree from the innermost group outwards; what is empty is left out.
groupAttr(groups, attrs) ==
    LET inner == Len(groups)
        build[k \in 1..inner] ==
            IF k = inner THEN GroupValue(groups[k].name, groups[k].attrs \o attrs)
            ELSE GroupValue(groups[k].name, groups[k].attrs \o <<build[k + 1]>>)
    IN build[1]

Place(dynamic, attrs) == dynamic \o attrs

EnrichHandle(h, level, attrs) ==
    LET dynamic == FoldLeft(LAMBDA ds, s : ds \o Dynamic(s), <<>>, config.sources)
        own == IF h.groups = <<>> THEN attrs ELSE <<groupAttr(h.groups, attrs)>>
    IN SyslogHandle(h.next, level, AddAttrs(Place(dynamic, own)))

EnrichWithAttrs(h, attrs) ==
    IF h.groups = <<>> THEN [h EXCEPT !.next = SyslogWithAttrs(@, attrs)]
    ELSE [h EXCEPT !.groups[Len(h.groups)].attrs = @ \o attrs]

EnrichWithGroup(h, name) ==
    IF config.currentGroup THEN [h EXCEPT !.next = SyslogWithGroup(@, name)]
    ELSE [h EXCEPT !.groups = Append(@, [name |-> name, attrs |-> <<>>])]

-----------------------------------------------------------------------------
(* multi *)

NewSyslog == [attrs |-> <<>>, groups |-> <<>>]
NewEnrich == [next |-> NewSyslog, groups |-> <<>>]

Init ==
    /\ config \in [sources : Sources, currentGroup : BOOLEAN, level : [1..2 -> Levels]]
    /\ multi = <<NewSyslog, NewEnrich>>
    /\ lines = <<<<>>, <<>>>> /\ errs = {} /\ derived = <<>> /\ logged = <<>>

WithAttrs(attrs) ==
    /\ Len(derived) < MaxDerived
    /\ derived' = Append(derived, [op |-> "attrs", attrs |-> attrs, name |-> ""])
    /\ multi' = <<SyslogWithAttrs(multi[1], attrs), EnrichWithAttrs(multi[2], attrs)>>
    /\ UNCHANGED <<config, lines, errs, logged>>

WithGroup(name) ==
    /\ Len(derived) < MaxDerived
    /\ derived' = Append(derived, [op |-> "group", attrs |-> <<>>, name |-> name])
    /\ multi' = <<SyslogWithGroup(multi[1], name), EnrichWithGroup(multi[2], name)>>
    /\ UNCHANGED <<config, lines, errs, logged>>

\* A child is asked for the level of the record before it gets it.
Enabled(child, level) == level >= config.level[child]

\* Every enabled child gets the record, whatever the others return.
Tried(level, fails) == {c \in 1..2 : Enabled(c, level)}

Handle(level, attrs, fails) ==
    /\ Len(logged) < MaxRecords
    /\ LET record == AddAttrs(attrs)
           line == <<SyslogHandle(multi[1], level, record), EnrichHandle(multi[2], level, record)>>
           tried == Tried(level, fails)
       IN /\ lines' = [c \in 1..2 |-> IF c \in tried \ fails THEN Append(lines[c], line[c]) ELSE lines[c]]
          /\ errs' = tried \cap fails
    /\ logged' = Append(logged, [level |-> level, attrs |-> attrs, fails |-> fails])
    /\ UNCHANGED <<config, multi, derived>>

Next ==
    \/ \E attrs \in AttrLists : WithAttrs(attrs)
    \/ \E name \in Groups : WithGroup(name)
    \/ \E level \in Levels, attrs \in AttrLists \cup {<<>>}, fails \in SUBSET (1..2) : Handle(level, attrs, fails)

Spec == Init /\ [][Next]_vars

-----------------------------------------------------------------------------
IsDynamic(key) == key[Len(key)] = "d" \/ (Len(key) > 1 /\ key[Len(key) - 1] = "d")

\* What a step has written to a child.
New(c) == lines'[c][Len(lines'[c])]
Wrote(c) == lines'[c] # lines[c]

\* The groups that are open, and the attributes that precede the dynamic ones:
\* those outside of all groups or, with WithCurrentGroup, all that were added.
Open == LET calls == SelectSeq(derived, LAMBDA d : d.op = "group") IN [k \in 1..Len(calls) |-> calls[k].name]
Before ==
    FoldLeft(LAMBDA attrs, k :
        IF config.currentGroup \/ \A j \in 1..k : derived[j].op # "group" THEN attrs \o derived[k].attrs ELSE attrs,
        <<>>, [k \in 1..Len(derived) |-> k])

\* However the attributes reach the second writer, directly or collected in
\* the tree of the enrich handler, a record has there, in every step, the
\* attributes it has in the first, under the same groups and in the same order, besides the dynamic ones.
SameAttributes ==
    Wrote(1) /\ Wrote(2) => New(1).keys = SelectSeq(New(2).keys, LAMBDA key : ~IsDynamic(key))

\* The dynamic attributes come in the order of the sources, at the top level
\* or, with WithCurrentGroup, in the open groups, and before those of the
\* record and of the groups.
DynamicPlace ==
    Wrote(2) =>
        LET prefix == IF config.currentGroup THEN Open ELSE <<>>
            dynamic == FoldLeft(LAMBDA ks, s : ks \o
                           CASE s = "value" -> <<Append(prefix, "d")>>
                             [] s = "group" -> <<prefix \o <<"d", "x">>>>
                             [] s = "omit" -> <<>>
                             [] s = "batch" -> <<Append(prefix, "d"), Append(prefix, "d")>>, <<>>, config.sources)
            first == Len(formatRecord(NewSyslog, Before)) + 1
            last == first + Len(dynamic) - 1
        IN /\ Len(New(2).keys) >= last /\ SubSeq(New(2).keys, first, last) = dynamic
           /\ \A k \in 1..Len(New(2).keys) : IsDynamic(New(2).keys[k]) => k \in first..last

\* Every child has a line for each record of its level whose writing did not
\* fail, in order and with the priority of the level; the error of the last
\* Handle names the children that failed.
ChildrenAreIndependent ==
    /\ \A c \in 1..2 :
           LET got == SelectSeq(logged, LAMBDA r : r.level >= config.level[c] /\ c \notin r.fails)
           IN /\ Len(lines[c]) = Len(got)
              /\ \A k \in 1..Len(got) :
                     lines[c][k].priority = (CHOOSE p \in {<<"debug", -100, 0>>, <<"info", 0, 4>>, <<"warning", 4, 8>>, <<"err", 8, 100>>} :
                                                 p[2] <= got[k].level /\ got[k].level < p[3])[1]
    /\ logged # <<>> => errs = {c \in logged[Len(logged)].fails : logged[Len(logged)].level >= config.level[c]}
=============================================================================
