----------------------------- MODULE MCDeployment -----------------------------
(* Batches whose ids fall on one name, or are empty, and whose modules have   *)
(* all that a document may lose; a directory that an earlier batch has left   *)
(* with a temporary file, one with a symlink in it, and one with directories  *)
(* and links, an empty file and documents written by hand.                    *)
EXTENDS Deployment

Plain(id, target) ==
    [module_id |-> id, target |-> target, description |-> "d", documentation |-> None,
     tags |-> <<"t">>, version |-> "2", annotations |-> None, examples |-> <<>>,
     metadata |-> <<>>, suggested_alias |-> None, input_schema |-> EmptyObject,
     output_schema |-> EmptyObject, display |-> None, warnings |-> <<>>]

Rich(id, target) ==
    [Plain(id, target) EXCEPT
        !.documentation = "long", !.annotations = [streaming |-> TRUE],
        !.examples = <<[title |-> Text("x")]>>, !.suggested_alias = "alias",
        !.metadata = [method |-> Text("get"), constructor |-> Flag(TRUE)],
        !.input_schema = Object([type |-> Text("object")]),
        !.display = Object([cli |-> EmptyObject]), !.warnings = <<"w">>]

Schemaless(id, target) ==
    [Plain(id, target) EXCEPT !.input_schema = Flag(TRUE), !.display = Null,
                              !.annotations = [streaming |-> FALSE]]

App == <<"a", ".", "t", ":", "f">>
AppX == <<"a", "x", ":", "f">>

MCBatches == {
    <<Rich(<<"a", "/">>, App), Schemaless(<<"a", ":">>, AppX), Rich(<<"a", "_">>, App)>>,
    <<Plain(<<"a", "_">>, AppX)>>,
    <<Plain(<<".", ".">>, <<>>), Plain(<<>>, App)>> }

Checks(dry_run, verify, verifiers) ==
    [dry_run |-> dry_run, verify |-> verify, verifiers |-> verifiers]

MCOptions == {
    Checks(FALSE, TRUE, <<"magic", "custom">>),
    Checks(FALSE, FALSE, <<"json", "custom">>), Checks(TRUE, TRUE, <<"yaml">>) }

------------------------------------------------------------------------------
Entry(id, target) == [module_id |-> Text(id), target |-> Text(target)]

Loose(id, target) ==
    Entry(id, target) @@
    [tags |-> Listing(<<Text("t"), Flag(TRUE)>>), documentation |-> Null,
     annotations |-> Object([streaming |-> Odd]), metadata |-> Odd,
     examples |-> Listing(<<Object([title |-> Odd]), Null, Object([title |-> Text("x")])>>),
     input_schema |-> Null, output_schema |-> EmptyObject]

Announced(id, target) ==
    Entry(id, target) @@
    [annotations |-> Object([streaming |-> Flag(TRUE)]), warnings |-> Listing(<<Text("w")>>),
     input_schema |-> EmptyObject, output_schema |-> EmptyObject]

ByHand(entries) ==
    Synced(Whole(Object([bindings |-> Listing([i \in DOMAIN entries |-> Object(entries[i])])])))

Earlier(m) == Synced(Whole(Binding(m)))

File(content) == [kind |-> "file", content |-> content]
Of(kind) == [kind |-> kind, content |-> None]

Nested == <<"d">> \o Suffix

MCDirectories == {
    [files |-> (<<"a", "_">> :> Earlier(Rich(<<"a", "/">>, App))) @@
               (<<"a", "_", "_", "1">> :> Earlier(Rich(<<"a", "_">>, App))),
     links |-> {}, temps |-> (<<"a", "_", "_", "2">> :> Torn), tree |-> <<>>],
    [files |-> (<<"a", "_">> :> ByHand(<<Announced(<<"b">>, App)>>)),
     links |-> {<<"a", "_">>}, temps |-> <<>>,
     tree |-> (<<Nested>> :> Of("directory")) @@ (<<<<"l">> >> :> Of("dangling"))],
    [files |-> (<<"h">> :> ByHand(<<Loose(<<"b">>, App), Announced(<<"b">>, App)>>)),
     links |-> {}, temps |-> <<>>,
     tree |-> (<<Nested>> :> Of("directory")) @@ (<<<<"l">> >> :> Of("link")) @@
              (<<<<"x">> \o Suffix>> :> Of("dangling")) @@
              (<<Nested, <<"b", "_", "_", "1">> \o Suffix>> :> File(Synced(Unwritten))) @@
              (<<Nested, <<"e">> >> :> Of("directory")) @@
              (<<Nested, <<"e">>, <<"_", "x">> \o Suffix>> :> File(ByHand(<<>>))) @@
              (<<<<"l">>, <<"a", "_", "x">> \o Suffix>> :> File(ByHand(<<Entry(<<"x">>, App)>>)))] }

\* ASCII, as far as names have it.
MCAlphabet ==
    <<"-", ".", "/", "0", "1", "2", "3", "4", "5", "6", "7", "8", "9", ":", "_", "a", "b", "c",
      "d", "e", "f", "g", "h", "i", "j", "k", "l", "m", "n", "o", "p", "q", "r", "s", "t", "u",
      "v", "w", "x", "y", "z">>

Call(strict, recursive, pattern, file) ==
    [strict |-> strict, recursive |-> recursive, pattern |-> pattern, file |-> file]

MCLoadOptions == {
    Call(TRUE, TRUE, <<"*">> \o Suffix, None), Call(FALSE, FALSE, <<"?", "_", "_", "*">>, None),
    Call(FALSE, FALSE, <<>>, <<"h">> \o Suffix) }

------------------------------------------------------------------------------
Registrar(prefixes, handlers, streams, dry_run, verifiers) ==
    [allowed_prefixes |-> prefixes, handlers |-> handlers, streams |-> streams,
     dry_run |-> dry_run, verify |-> TRUE, verifiers |-> verifiers]

MCRegistryWriters == {
    Registrar(None, FALSE, FALSE, FALSE, <<>>), Registrar(None, TRUE, TRUE, TRUE, <<"custom">>),
    Registrar({<<"a", ".">>, <<".">>}, TRUE, TRUE, FALSE, <<"yaml", "custom">>) }

\* A factory that looks a target up by what it resolves to.
MCHandler(there, target) == IF there THEN ResolveTarget(target) ELSE None

Texts(characters, n) == UNION {[1 .. k -> characters] : k \in 0 .. n}

\* The matcher with its cursors agrees with what a pattern means.
ASSUME \A pattern \in Texts({"*", "?", "a"}, 4), name \in Texts({"a", "b"}, 4) :
          MatchBindingPattern(pattern, name) <=> Fits(pattern, name)
==============================================================================
