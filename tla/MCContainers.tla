----------------------------- MODULE MCContainers ---------------------------
(***************************************************************************)
(* The containers, strings, formats and pure algorithms on small           *)
(* instances. They do not interact: which says, from the first state on,   *)
(* which of them a behaviour is about.                                     *)
(***************************************************************************)
EXTENDS Integers, Sequences

VARIABLES which, core, abs
vars == <<which, core, abs>>

\* Two keys with one hash code and a third whose probe chain crosses theirs.
H == INSTANCE Hash WITH Keys <- {1, 2, 3}, Values <- {1, 2},
                        calcHashCode <- LAMBDA k : IF k = 3 THEN 1 ELSE 0
L == INSTANCE List WITH Values <- {1, 2, 3}, MaxSize <- 4
P == INSTANCE Heap WITH Items <- {1, 2, 3}, MaxFill <- 8
S == INSTANCE SharedCore WITH Shells <- {"a", "b", "c"}, Contents <- {"x", "y"}, Blank <- "blank"
A == INSTANCE Arrays WITH ArrayValues <- {1, 2}, ArrayRaw <- 0, Broken <- -1, inc <- 2, MaxSize <- 5,
                          RingBufferValues <- {1, 2}, RingBufferRaw <- 0, Capacities <- 2..4
T == INSTANCE String WITH StringTexts <- {<<>>, <<9, 1>>}, NUL <- 0, Space <- 9,
                          nMinSize <- 2, MaxLength <- 3, MaxChunks <- 3,
                          Upper <- {1}, Shift <- 1, MaxA <- 3, MaxB <- 2
SP == INSTANCE Pointers WITH Ptrs <- {"p", "q", "r"}, Objects <- {"o", "u"},
                             Variants <- {"v", "w"}, Atoms <- {"a", "b"}, Types <- {"int", "string"}, Numbers <- {1}, Cells <- 1..4
CY == INSTANCE Crypto WITH Modes <- {"ecb", "cbc", "cfb", "ofb"}, Passwords <- {<<>>, <<2, 3, 1>>}, Ivs <- {<<1, 3>>}, Rounds <- 4, Base <- 4, Seeds <- {1, 3}, MaxText <- 5,
                           Block <- 4, Bits <- 2, Word <- 16, MaxMessage <- 15
PA == INSTANCE Parsing WITH Numbers <- {2, 3}, Depth <- 3,
                            MaxTokens <- 5,
                            Vars <- [n |-> <<"a", "B">>], Args <- <<<<"a">>, <<"b", "b">>>>, MaxParts <- 3
OP == INSTANCE OptParser WITH Values <- {<<"v">>, <<"x", "o">>}, MaxSettings <- 3, Widths <- {4, 6}, MaxText <- 9
TX == INSTANCE Texts WITH BitStringW <- 2, MaxBits <- 5,
                          CodePoints <- {65, 127, 128, 2047, 2048, 55295, 57344, 63487, 63488, 65279, 65535, 65536, 1114111}, MaxChars <- 2,
                          FormatterW <- 5, Value <- {-15, -9, 0, 10}, Unsigned <- {0, 10, 31}, Radixes <- {2, 10, 16},
                          FieldWidths <- {0, 4}, Aligns <- {"Right", "Center", "Left"}, MaxValues <- 2
TA == INSTANCE Taf WITH Strings <- {<<>>, <<"}", "\"", "\\", "nl">>}, Comments <- {<<<<"}", "*">>, FALSE>>, <<<<"*", "}">>, TRUE>>}, MaxNodes <- 3
CS == INSTANCE Csv WITH Chars <- {"a", ",", "\"", " "}, MaxChars <- 2, MaxValues <- 2, MaxRows <- 2,
                        Files <- {<<>>, <<<<1>>, <<1>>>>, <<<<1, 2>>, <<2>>, <<1>>>>, <<<<1>>, <<2, 1, 2>>, <<>>, <<1, 1>>, <<2>>>>}, Height <- 6, Width <- 10, MaxSearch <- 5
UL == INSTANCE Url WITH Plain <- {"a"}, Special <- {"&", "%"}, MaxParams <- 2
AC == INSTANCE Archive WITH Objects <- {3, 6, 8}, Loaded <- {11, 12, 14}, Base <- 4, LongBytes <- 2, Words <- 10, Arrays <- {<<>>, <<3, 1>>}

Init == \/ which = "Hash" /\ H!Init
        \/ which = "List" /\ L!Init
        \/ which = "Heap" /\ P!Init
        \/ which = "SharedCore" /\ S!Init
        \/ A!Init
        \/ T!Init
        \/ SP!Init
        \/ CY!Init
        \/ PA!Init
        \/ which = "OptParser" /\ OP!Init
        \/ TX!Init
        \/ which = "Taf" /\ TA!Init
        \/ CS!Init
        \/ which = "Url" /\ UL!Init
        \/ which = "Archive" /\ AC!Init

Next == /\ UNCHANGED which
        /\ \/ which = "Hash" /\ H!Next
           \/ which = "List" /\ L!Next
           \/ which = "Heap" /\ P!Next
           \/ which = "SharedCore" /\ S!Next
           \/ A!Next
           \/ T!Next
           \/ SP!Next
           \/ CY!Next
           \/ PA!Next
           \/ which = "OptParser" /\ OP!Next
           \/ TX!Next
           \/ which = "Taf" /\ TA!Next
           \/ CS!Next
           \/ which = "Url" /\ UL!Next
           \/ which = "Archive" /\ AC!Next

Spec == Init /\ [][Next]_vars
-----------------------------------------------------------------------------
\* Each container is the map, sequence, bag or queue that the calls made of it:
\* a hash finds what a map finds across deleted slots, crossing probe chains
\* and rehashes, and iterates over each entry once; a list is the same forward
\* and backward; a heap gives the least first and drains in order; an array has
\* constructed objects below its size and nowhere else; a ring drops its oldest
\* and keeps order across the wrap.
ContainersStandForTheirCalls ==
    /\ which = "Hash" => H!LookupIsMap /\ H!IterationIsComplete
    /\ which = "List" => L!LinksAgree
    /\ which = "Heap" => P!LeastFirst /\ P!DrainsAscending
    /\ which = "Array" => A!ObjectsAreTheSequence
    /\ which = "RingBuffer" => A!RingIsQueue

\* What one holder does is not seen through another that it shares with: shells
\* of one core and strings on the same chunks keep values of their own, a core
\* and an object behind SPtr live as long as there is a holder and no longer,
\* Variants and Atoms have what was put into them, and how a string is divided
\* into chunks cannot be told from its text.
SharingIsInvisible ==
    /\ which = "SharedCore" => S!ValueSemantics /\ S!CountsAreExact
    /\ which = "String" => T!TextsAreValues /\ T!ChunksAreInvisible
    /\ which = "SPtr" => SP!PointsToLiving /\ SP!DeletedWithTheLast
    /\ which = "Variant" => SP!ValuesAreTheirOwn /\ SP!GetsTheType

\* What is written in one form is read back as it was, or known not to be:
\* bits, code points, numbers in any format, TAF groups, CSV rows, URLs with
\* parameters, object graphs in an archive, and blocks through a cipher in any
\* mode; a digest is that of the padded message; none of it depends on how the
\* bytes are cut, and TAF and Archive refuse a stream that ends early.
WrittenComesBack ==
    /\ which = "BitString" => TX!BitsAgree /\ TX!SubStringAgrees
    /\ which = "UtfString" => TX!EncodingsKeepText
    /\ which = "Formatter" => TX!ValuesComeBack /\ TX!FieldsHaveTheirWidth
    /\ which = "Taf" => TA!TextIsTheTree /\ TA!TruncatedIsRefused /\ TA!PathsLeadToTheFirst
    /\ which = "Csv" => CS!RowsComeBack
    /\ which = "Url" => UL!PartsComeApart /\ UL!ParamsComeBack
    /\ which = "Archive" => AC!PointersComeBack /\ AC!CutIsNoticed
    /\ which = "Digests" => CY!Md5DigestsTheMessage /\ CY!Sha1DigestsTheMessage
    /\ which = "Ciphers" => CY!BlocksComeBack /\ CY!NothingIsDropped

\* A reader finds what its input means: a formula its expression's value,
\* Parser a sentence of the grammar or an error, MiniMacro and String::format
\* every part, OptParser the same settings in every spelling; searches and
\* comparisons of strings agree with the texts, and viewcsv stays in the
\* document and finds each match.
ReadersFindTheMeaning ==
    /\ which = "Formula" => PA!ValueOfExpression
    /\ which = "Parser" => PA!ParsesTheLanguage
    /\ which = "MiniMacro" => PA!ExpandsAllParts
    /\ which = "OptParser" => OP!SpellingsAgree /\ OP!LinesHoldTheWords /\ OP!SplitFitsArray
    /\ which = "StringSearch" => T!CallsAgreeWithTexts
    /\ which = "CsvView" => CS!ViewInDocument /\ CS!SearchVisitsAll
=============================================================================
