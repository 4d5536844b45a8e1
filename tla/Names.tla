-------------------------------- MODULE Names --------------------------------
(***************************************************************************)
(* The names the toolkit makes out of texts it is given: module ids        *)
(* (openapi_scanner.rs), suggested aliases (http_verb_map.rs) and tool     *)
(* aliases (display/resolver.rs).                                          *)
(*                                                                         *)
(* A text is the sequence of its characters.  Every string of more than    *)
(* one letter stands for a character outside ASCII.                        *)
(***************************************************************************)
EXTENDS Integers, Sequences, FiniteSets, SequencesExt

------------------------------------------------------------------------------
(* Characters and texts *)

LowerCase == <<"a", "b", "c", "d", "e", "f", "g", "h", "i", "j", "k", "l", "m",
               "n", "o", "p", "q", "r", "s", "t", "u", "v", "w", "x", "y", "z">>
UpperCase == <<"A", "B", "C", "D", "E", "F", "G", "H", "I", "J", "K", "L", "M",
               "N", "O", "P", "Q", "R", "S", "T", "U", "V", "W", "X", "Y", "Z">>
Digits == {"0", "1", "2", "3", "4", "5", "6", "7", "8", "9"}

IsLower(c) == Contains(LowerCase, c)
IsUpper(c) == Contains(UpperCase, c)
IsAlphanumeric(c) == IsLower(c) \/ IsUpper(c) \/ c \in Digits
ToLower(c) == IF IsUpper(c) THEN LowerCase[CHOOSE i \in 1 .. 26 : UpperCase[i] = c] ELSE c

\* RECOGNIZED_METHODS and their names in lower case; a document may write them in any case.
Spelled == [get |-> <<"g", "e", "t">>, put |-> <<"p", "u", "t">>,
            post |-> <<"p", "o", "s", "t">>, delete |-> <<"d", "e", "l", "e", "t", "e">>,
            options |-> <<"o", "p", "t", "i", "o", "n", "s">>, head |-> <<"h", "e", "a", "d">>,
            patch |-> <<"p", "a", "t", "c", "h">>, trace |-> <<"t", "r", "a", "c", "e">>]

Upper == [get |-> "GET", put |-> "PUT", post |-> "POST", delete |-> "DELETE", options |-> "OPTIONS",
          head |-> "HEAD", patch |-> "PATCH", trace |-> "TRACE"]

\* The parts of a text's first i characters: a separator opens a new one.
Split(text, separator) ==
    LET parts[i \in 0 .. Len(text)] ==
            IF i = 0 THEN << <<>> >>
            ELSE LET before == parts[i - 1]
                 IN  IF text[i] = separator THEN Append(before, <<>>)
                     ELSE [before EXCEPT ![Len(before)] = Append(@, text[i])]
    IN  parts[Len(text)]

Joined(parts, separator) ==
    FlattenSeq([i \in 1 .. Len(parts) |->
        IF i = 1 THEN parts[1] ELSE <<separator>> \o parts[i]])

TrimStart(text, c) ==
    SubSeq(text, Len(text) + 1 - Cardinality({i \in 1 .. Len(text) :
                                    \E j \in 1 .. i : text[j] # c}), Len(text))
TrimEnd(text, c) == Reverse(TrimStart(Reverse(text), c))

\* The texts of a list that are not empty, in order.
NonEmpty(texts) ==
    FlattenSeq([i \in 1 .. Len(texts) |-> IF texts[i] = <<>> THEN <<>> ELSE <<texts[i]>>])

------------------------------------------------------------------------------
(* Module ids *)

\* Whether a word ends before position i + 1.
WordEnds(text, i) ==
    /\ i < Len(text) /\ IsUpper(text[i + 1])
    /\ \/ IsLower(text[i]) \/ text[i] \in Digits
       \/ IsUpper(text[i]) /\ i + 2 <= Len(text) /\ IsLower(text[i + 2])

InIdAlphabet(c) == IsAlphanumeric(c) \/ c \in {"_", "."}

\* Words are separated, what no id may hold becomes "_", and no segment starts with "_".
NormalizeModuleId(raw) ==
    LET separated == FlattenSeq([i \in 1 .. Len(raw) |->
                        <<IF InIdAlphabet(raw[i]) THEN ToLower(raw[i]) ELSE "_">>
                        \o (IF WordEnds(raw, i) THEN <<"_">> ELSE <<>>)])
        segments == Split(separated, ".")
    IN  Joined(NonEmpty([i \in 1 .. Len(segments) |-> TrimStart(segments[i], "_")]), ".")

LegalSegment(segment) ==
    /\ segment # <<>> /\ IsLower(segment[1])
    /\ \A i \in 1 .. Len(segment) :
        IsLower(segment[i]) \/ segment[i] \in Digits \/ segment[i] = "_"

IllegalSegments(id) ==
    LET segments == Split(id, ".")
    IN  FlattenSeq([i \in 1 .. Len(segments) |->
            IF LegalSegment(segments[i]) THEN <<>> ELSE <<segments[i]>>])

StripTemplateBraces(segment) ==
    IF Len(segment) >= 2 /\ segment[1] = "{" /\ Last(segment) = "}"
    THEN SubSeq(segment, 2, Len(segment) - 1)
    ELSE segment

\* An operationId if there is one (<<>> if not) and it leaves something, else the path and method.
DeriveModuleId(path, method, operationId) ==
    LET candidate == TrimEnd(NormalizeModuleId(operationId), "_")
        segments  == NonEmpty(Split(path, "/"))
        parts     == NonEmpty([i \in 1 .. Len(segments) |->
                         NormalizeModuleId(StripTemplateBraces(segments[i]))])
    IN  CASE candidate # <<>> -> candidate
          [] candidate = <<>> /\ parts = <<>> -> <<"r", "o", "o", "t", ".">> \o Spelled[method]
          [] OTHER -> Joined(Append(parts, Spelled[method]), ".")

------------------------------------------------------------------------------
(* Aliases *)

ScannerVerbMap ==
    [get    |-> <<"l", "i", "s", "t">>,
     get_id |-> <<"g", "e", "t">>,
     post   |-> <<"c", "r", "e", "a", "t", "e">>,
     put    |-> <<"u", "p", "d", "a", "t", "e">>]

\* A GET of a single resource has a key of its own; the other methods have their own names.
Verb(method, single) ==
    LET key == IF method = "get" /\ single THEN "get_id" ELSE method
    IN  IF key \in DOMAIN ScannerVerbMap THEN ScannerVerbMap[key] ELSE Spelled[method]

\* A whole segment that stands for a parameter: braces, or a colon and an identifier.
IsParameter(segment) ==
    \/ /\ Len(segment) >= 3 /\ segment[1] = "{" /\ Last(segment) = "}"
       /\ \A i \in 2 .. Len(segment) - 1 : segment[i] # "}"
    \/ /\ Len(segment) >= 2 /\ segment[1] = ":"
       /\ ~(segment[2] \in Digits)
       /\ \A i \in 2 .. Len(segment) : IsAlphanumeric(segment[i]) \/ segment[i] = "_"

GenerateSuggestedAlias(path, method) ==
    LET segments == NonEmpty(Split(path, "/"))
        single   == segments # <<>> /\ IsParameter(Last(segments))
    IN  Joined(Append(SelectSeq(segments, LAMBDA s : ~IsParameter(s)), Verb(method, single)), ".")

\* Mutant of SanitizeMcpAlias: a leading digit stays where it is.
SanitizeKeepingDigit(raw) ==
    [i \in 1 .. Len(raw) |-> IF IsAlphanumeric(raw[i]) \/ raw[i] \in {"_", "-"} THEN raw[i] ELSE "_"]

SanitizeMcpAlias(raw) ==
    LET kept == [i \in 1 .. Len(raw) |->
                    IF IsAlphanumeric(raw[i]) \/ raw[i] \in {"_", "-"} THEN raw[i] ELSE "_"]
    IN  IF kept # <<>> /\ kept[1] \in Digits THEN <<"_">> \o kept ELSE kept

McpAliasLegal(alias) ==
    /\ alias # <<>> /\ alias[1] \notin Digits /\ alias[1] # "-"
    /\ \A i \in 1 .. Len(alias) : IsAlphanumeric(alias[i]) \/ alias[i] \in {"_", "-"}

CliAliasLegal(alias) ==
    /\ alias # <<>> /\ IsLower(alias[1])
    /\ \A i \in 1 .. Len(alias) :
        IsLower(alias[i]) \/ alias[i] \in Digits \/ alias[i] \in {"_", "-"}
===============================================================================
