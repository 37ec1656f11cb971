----------------------------- MODULE MCLibrary -------------------------------
(***************************************************************************)
(* Instances of the libraries: the periods, the functions on slices and    *)
(* strings, the slog handlers and the Jet client.                          *)
(* They do not interact: a behaviour chooses one of them and leaves the    *)
(* others in their initial states, so the run visits every behaviour of    *)
(* each.                                                                   *)
(***************************************************************************)
EXTENDS Period

VARIABLES
    which,                                           \* the component that runs
    s, other, size,                                  \* Slices
    subject, search, to, offset, length,             \* Strings
    config, multi, lines, errs, derived, logged,     \* SlogHandlers
    array, used, own, invokes, count                 \* JetClient

\* All slices of up to three items, of three values.
Items == INSTANCE Slices WITH Items <- {0, 1, 2}, MaxLen <- 3

\* Subjects of up to four characters, the space among them.
Texts == INSTANCE Strings WITH Chars <- {"a", "b", " "}, Space <- " ", SubjectLen <- 4, SearchLen <- 2, MaxInt <- 6

\* Plain attributes, groups, an empty group, a group without a key, no key.
Plain(k) == [key |-> k, group |-> FALSE, members |-> <<>>]
Grouped(k, attrs) == [key |-> k, group |-> TRUE, members |-> attrs]

Attributes == INSTANCE SlogHandlers WITH
    Sources <- {<<>>, <<"value", "group">>, <<"omit", "batch">>},
    AttrLists <- {<<Plain("a")>>, <<Grouped("g", <<Plain("a"), Plain("b")>>)>>, <<Grouped("g", <<>>), Plain("c")>>,
                  <<Grouped("", <<Plain("a")>>), Plain("")>>},
    Groups <- {"g"}, Levels <- {0}, MaxDerived <- 3, MaxRecords <- 1

\* Levels on either side of the edges of the priorities.
Dispatch == INSTANCE SlogHandlers WITH
    Sources <- {<<"value">>}, AttrLists <- {<<Plain("a")>>},
    Groups <- {"g"}, Levels <- {-1, 0, 4, 8}, MaxDerived <- 0, MaxRecords <- 2

\* Three middlewares of the client, or four, in an array that has room for four, and two
\* calls of Invoke, by these goroutines.
Jet(goroutines, uses) == INSTANCE JetClient WITH
    Goroutines <- goroutines, Middlewares <- {"m1", "m2"}, MaxUses <- uses, MaxCalls <- 2, None <- "none",
    length <- used, calls <- invokes

sliceVars == <<s, other, size>>
textVars == <<subject, search, to, offset, length>>
slogVars == <<config, multi, lines, errs, derived, logged>>
jetVars == <<array, used, own, invokes, count>>
allVars == <<which, periodVars, sliceVars, textVars, slogVars, jetVars>>

RunInit ==
    /\ which \in {"periods", "slices", "strings", "attributes", "dispatch", "caller", "callers"}
    /\ PeriodInit /\ (which # "periods" => window = Zero)
    /\ Items!Init /\ (which # "slices" => s = <<>> /\ other = <<>>)
    /\ Texts!Init /\ (which # "strings" => subject = <<>> /\ search = <<>>)
    /\ IF which = "dispatch" THEN Dispatch!Init ELSE Attributes!Init
    /\ which \notin {"attributes", "dispatch"} => config.sources = <<>> /\ ~config.currentGroup
    /\ IF which = "caller" THEN Jet({"g1"}, 3)!Init ELSE Jet({"g1", "g2"}, 2)!Init
    /\ which \notin {"caller", "callers"} => own = <<"m1">>

OnlyPeriods == UNCHANGED <<which, sliceVars, textVars, slogVars, jetVars>>
OnlySlices == UNCHANGED <<which, periodVars, textVars, slogVars, jetVars>>
OnlyStrings == UNCHANGED <<which, periodVars, sliceVars, slogVars, jetVars>>
OnlySlog == UNCHANGED <<which, periodVars, sliceVars, textVars, jetVars>>
OnlyJet == UNCHANGED <<which, periodVars, sliceVars, textVars, slogVars>>

RunNext ==
    \/ which = "periods" /\ Add /\ OnlyPeriods
    \/ which = "slices" /\ Items!Grow /\ OnlySlices
    \/ which = "strings" /\ Texts!Next /\ OnlyStrings
    \/ which = "attributes" /\ Attributes!Next /\ OnlySlog
    \/ which = "dispatch" /\ Dispatch!Next /\ OnlySlog
    \/ which = "caller" /\ Jet({"g1"}, 3)!Next /\ OnlyJet
    \/ which = "callers" /\ Jet({"g1", "g2"}, 2)!Next /\ OnlyJet

RunSpec == RunInit /\ [][RunNext]_allVars

-----------------------------------------------------------------------------
(* Properties of the components *)

\* Period: Merge, Subtract and Gaps compute the union, the difference and the gaps.
PeriodsAreExact == which = "periods" => PeriodsAgree

\* Slices: every function agrees with its reference definition.
SlicesAgree == which = "slices" => Items!SlicesAgree

\* Strings: every function agrees with its reference definition.
StringsAgree == which = "strings" => Texts!StringsAgree

\* SlogHandlers: both writers get a record with the same attributes, the dynamic ones in
\* their place, and a failing child takes nothing from the other.
RecordsAreComplete ==
    [][/\ which = "attributes" => Attributes!SameAttributes /\ Attributes!DynamicPlace
       /\ which = "dispatch" => Dispatch!ChildrenAreIndependent']_allVars

\* JetClient: a call has the result or the error that its answer holds and leaves the
\* client its middlewares; one call at a time runs through its own.
InvokeIsExact ==
    /\ which = "caller" => Jet({"g1"}, 3)!OwnMiddlewares
    /\ which = "callers" =>
          Jet({"g1", "g2"}, 2)!ClientKeeps /\ Jet({"g1", "g2"}, 2)!ResultIsAnswered /\ Jet({"g1", "g2"}, 2)!ErrorSurvivesRelay
=============================================================================
