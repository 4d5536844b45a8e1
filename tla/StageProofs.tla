----------------------------- MODULE StageProofs -----------------------------
(***************************************************************************)
(* What holds of a list of modules: of deduplicate_ids, whatever the ids   *)
(* and their order; of the stages after it, whatever the modules, the      *)
(* bindings and the language model's answers, and in whatever order the    *)
(* stages run; of both together; and of the table they end in.  And what a *)
(* reader finds in the CSV a caller has written of rows of its own.        *)
(***************************************************************************)
EXTENDS Scanner, Stages, ViewModel, Csv, TextLemmas

------------------------------------------------------------------------------
(* Deduplication: the inductive invariant *)

\* A list of modules, of which this much is known.
Listed(list) ==
    /\ \E S : list \in Seq(S)
    /\ \A i \in 1 .. Len(list) : {"module_id", "warnings"} \subseteq DOMAIN list[i]

\* Two lists of modules with the same ids in the same order.
SameIds(list, other) ==
    /\ Len(list) = Len(other)
    /\ \A i \in 1 .. Len(list) : list[i].module_id = other[i].module_id

\* Both lists are lists; every module still to come is one a scanner brought.
ListsOK == (\E S : modules \in Seq(S)) /\ Listed(pending)

\* What the loop knows of the ids given out and of those still to come.
BookkeepingOK ==
    stage = "dedup" =>
        /\ assigned = IdsOf(modules)
        /\ IdsOf(pending) \subseteq originals
        /\ occurrences \in [originals -> Nat]
        /\ \A id \in originals : occurrences[id] = 0 => id \notin assigned

DedupInv == ListsOK /\ BookkeepingOK /\ IdsDistinct /\ NamesKept /\ (stage # "dedup" => originals = {})

------------------------------------------------------------------------------
(* Deduplication: what its steps keep *)

\* Its ids are those of the list and the new one.
LEMMA AppendedIds ==
    ASSUME NEW S, NEW s \in Seq(S), NEW m
    PROVE  IdsOf(Append(s, m)) = IdsOf(s) \cup {m.module_id}
<1>1. Len(s) \in Nat OBVIOUS
<1>2. 1 .. (Len(s) + 1) = (1 .. Len(s)) \cup {Len(s) + 1} BY <1>1
<1>3. QED BY <1>2, AppendOne DEF IdsOf

\* A module that takes a new id keeps the list free of duplicates.
LEMMA AppendDistinct ==
    ASSUME NEW S, NEW s \in Seq(S), NEW m, m.module_id \notin IdsOf(s),
           \A i, j \in 1 .. Len(s) : s[i].module_id = s[j].module_id => i = j
    PROVE  \A i, j \in 1 .. Len(Append(s, m)) :
               Append(s, m)[i].module_id = Append(s, m)[j].module_id => i = j
<1>1. Len(s) \in Nat OBVIOUS
<1>2. \A i \in 1 .. Len(s) : Append(s, m)[i].module_id \in IdsOf(s) BY AppendOne DEF IdsOf
<1>3. 1 .. Len(Append(s, m)) = (1 .. Len(s)) \cup {Len(s) + 1} BY <1>1, AppendOne
<1>4. QED BY <1>1, <1>2, <1>3, AppendOne

\* One module keeps the invariant.
LEMMA DedupStepKeeps == DedupInv /\ DedupStep => DedupInv'
<1> SUFFICES ASSUME DedupInv, DedupStep PROVE DedupInv' OBVIOUS
<1> DEFINE m == Head(pending)
           n == occurrences[m.module_id] + 1
<1>1. PICK S, T : modules \in Seq(S) /\ pending \in Seq(T) BY DEF DedupInv, ListsOK, Listed
<1>2. /\ stage = "dedup" /\ pending # <<>> /\ stage' = stage /\ originals' = originals
      /\ pending' = Tail(pending) /\ occurrences' = [occurrences EXCEPT ![m.module_id] = n]
      /\ assigned = IdsOf(modules) /\ IdsOf(pending) \subseteq originals
      /\ occurrences \in [originals -> Nat]
      /\ \A id \in originals : occurrences[id] = 0 => id \notin assigned
  BY DEF DedupStep, DedupInv, BookkeepingOK
<1>3. PICK id \in NewId(m.module_id, n) :
        /\ assigned' = assigned \cup {id}
        /\ modules' = Append(modules,
             IF id = m.module_id THEN m ELSE [Warn(m, <<"renamed", m.module_id>>) EXCEPT !.module_id = id])
  BY DEF DedupStep
<1>4. PICK new : new.module_id = id /\ modules' = Append(modules, new)
  <2>1. 1 \in 1 .. Len(pending) /\ m = pending[1] BY <1>1, <1>2
  <2>2. {"module_id", "warnings"} \subseteq DOMAIN m BY <2>1 DEF DedupInv, ListsOK, Listed
  <2>3. CASE id = m.module_id BY <1>3, <2>3
  <2>4. CASE id # m.module_id
    <3>1. [Warn(m, <<"renamed", m.module_id>>) EXCEPT !.module_id = id].module_id = id
      BY <2>2 DEF Warn
    <3>2. QED BY <1>3, <2>4, <3>1
  <2>5. QED BY <2>3, <2>4
<1>5. m.module_id \in originals
  <2>1. 1 \in 1 .. Len(pending) /\ m = pending[1] BY <1>1, <1>2
  <2>2. QED BY <1>2, <2>1 DEF IdsOf
<1>6. id \notin assigned /\ (n = 1 => id = m.module_id)
  <2>1. CASE n = 1
    <3>1. occurrences[m.module_id] = 0 BY <1>2, <1>5, <2>1
    <3>2. QED BY <1>2, <1>3, <1>5, <2>1, <3>1 DEF NewId
  <2>2. CASE n # 1 BY <1>3, <2>2 DEF NewId, Rename, Free
  <2>3. QED BY <2>1, <2>2
<1>7. IdsOf(modules') = IdsOf(modules) \cup {id} /\ \E U : modules' \in Seq(U)
  <2>1. modules' \in Seq(S \cup {new}) BY <1>1, <1>4, AppendOne
  <2>2. IdsOf(Append(modules, new)) = IdsOf(modules) \cup {new.module_id} BY <1>1, AppendedIds
  <2>3. IdsOf(modules') = IdsOf(modules) \cup {id} BY <1>4, <2>2
  <2>4. QED BY <2>1, <2>3
<1>8. IdsDistinct'
  <2>1. \A i, j \in 1 .. Len(modules) : modules[i].module_id = modules[j].module_id => i = j
    BY DEF DedupInv, IdsDistinct
  <2>2. new.module_id \notin IdsOf(modules) BY <1>2, <1>4, <1>6
  <2>3. QED BY <1>1, <1>4, <2>1, <2>2, AppendDistinct DEF IdsDistinct
<1>9. pending' \in Seq(T) /\ IdsOf(pending') \subseteq IdsOf(pending)
      /\ \A i \in 1 .. Len(pending') : {"module_id", "warnings"} \subseteq DOMAIN pending'[i]
  <2>1. /\ pending' \in Seq(T) /\ Len(pending) \in Nat \ {0} /\ Len(pending') = Len(pending) - 1
        /\ \A i \in 1 .. Len(pending') : i + 1 \in 1 .. Len(pending) /\ pending'[i] = pending[i + 1]
    BY <1>1, <1>2
  <2>2. IdsOf(pending') \subseteq IdsOf(pending) BY <2>1 DEF IdsOf
  <2>3. \A i \in 1 .. Len(pending') : {"module_id", "warnings"} \subseteq DOMAIN pending'[i]
    BY <2>1 DEF DedupInv, ListsOK, Listed
  <2>4. QED BY <2>1, <2>2, <2>3
<1>10. occurrences' \in [originals -> Nat] /\ n \in Nat \ {0}
       /\ \A x \in originals : occurrences'[x] = IF x = m.module_id THEN n ELSE occurrences[x]
  BY <1>2, <1>5
<1>11. \A x \in originals : occurrences'[x] = 0 => x \notin assigned'
  <2> SUFFICES ASSUME NEW x \in originals, occurrences'[x] = 0 PROVE x \notin assigned' OBVIOUS
  <2>1. x # m.module_id /\ occurrences[x] = 0 BY <1>10
  <2>2. x # id
    <3>1. CASE n = 1 BY <1>6, <2>1, <3>1
    <3>2. CASE n # 1 BY <1>3, <3>2 DEF NewId, Rename, Free
    <3>3. QED BY <3>1, <3>2
  <2>3. QED BY <1>2, <1>3, <2>1, <2>2
<1>12. NamesKept'
  <2> SUFFICES ASSUME NEW x \in originals, occurrences'[x] > 0 PROVE x \in IdsOf(modules')
    BY <1>2 DEF NamesKept
  <2>1. CASE occurrences[x] > 0 BY <1>7, <2>1 DEF DedupInv, NamesKept
  <2>2. CASE ~(occurrences[x] > 0)
    <3>1. x = m.module_id /\ n = 1 BY <1>2, <1>10, <2>2
    <3>2. QED BY <1>6, <1>7, <3>1
  <2>3. QED BY <2>1, <2>2
<1>13. BookkeepingOK' BY <1>2, <1>3, <1>7, <1>9, <1>10, <1>11 DEF BookkeepingOK
<1>14. ListsOK' BY <1>7, <1>9 DEF ListsOK, Listed
<1>15. QED BY <1>2, <1>8, <1>12, <1>13, <1>14 DEF DedupInv

\* A new batch starts with nothing given out.
LEMMA StartKeeps ==
    ASSUME DedupInv, NEW b, Listed(b), StartDedup(b)
    PROVE  DedupInv'
<1>1. modules' = <<>> /\ pending' = b /\ originals' = IdsOf(b) /\ stage' = "dedup"
      /\ occurrences' = [id \in IdsOf(b) |-> 0] /\ assigned' = {}
  BY DEF StartDedup, Goto
<1>2. (\E S : modules' \in Seq(S)) /\ Len(modules') = 0
  <2>1. <<>> \in Seq({}) /\ Len(<<>>) = 0 OBVIOUS
  <2>2. QED BY <1>1, <2>1
<1>3. IdsOf(modules') = {} BY <1>2 DEF IdsOf
<1>4. ListsOK' BY <1>1, <1>2 DEF ListsOK, Listed
<1>5. BookkeepingOK'
  <2>1. assigned' = IdsOf(modules') BY <1>1, <1>3
  <2>2. IdsOf(pending') \subseteq originals' BY <1>1
  <2>3. occurrences' \in [originals' -> Nat] BY <1>1
  <2>4. QED BY <1>1, <2>1, <2>2, <2>3 DEF BookkeepingOK
<1>6. IdsDistinct' BY <1>2 DEF IdsDistinct
<1>7. NamesKept' BY <1>1 DEF NamesKept
<1>8. QED BY <1>1, <1>4, <1>5, <1>6, <1>7 DEF DedupInv

\* What a scanner of a framework brings is a list of modules.
LEMMA BatchesListed == ASSUME NEW b \in Batches PROVE Listed(b)
<1>1. /\ b \in Seq(UNION {Members(c) : c \in Batches})
      /\ \A x \in Members(b) : {"module_id", "warnings"} \subseteq DOMAIN x
  BY DedupAssumption
<1>2. \A i \in 1 .. Len(b) : b[i] \in Members(b) BY DEF Members
<1>3. QED BY <1>1, <1>2 DEF Listed

\* The end of the loop hands a list with the same ids on and forgets the rest.
LEMMA EndKeeps ==
    ASSUME DedupInv, NEW list, \E S : list \in Seq(S), SameIds(list, modules), DedupEnd(list)
    PROVE  DedupInv'
<1>1. modules' = list /\ pending' = <<>> /\ originals' = {} /\ stage' = "ready"
  BY DEF DedupEnd, Goto
<1>2. ListsOK'
  <2>1. <<>> \in Seq({}) /\ Len(<<>>) = 0 OBVIOUS
  <2>2. \E S : modules' \in Seq(S) BY <1>1
  <2>3. (\E T : pending' \in Seq(T)) /\ Len(pending') = 0 BY <1>1, <2>1
  <2>4. QED BY <2>2, <2>3 DEF ListsOK, Listed
<1>3. BookkeepingOK' BY <1>1 DEF BookkeepingOK
<1>4. IdsDistinct' BY <1>1 DEF DedupInv, IdsDistinct, SameIds
<1>5. NamesKept' BY <1>1 DEF NamesKept
<1>6. QED BY <1>1, <1>2, <1>3, <1>4, <1>5 DEF DedupInv

------------------------------------------------------------------------------
(* Deduplication: the theorems *)

\* Every step of a batch keeps the invariant.
LEMMA DedupInvariant == DedupSpec => []DedupInv
<1>1. DedupInit => DedupInv
  <2> SUFFICES ASSUME DedupInit PROVE DedupInv OBVIOUS
  <2>1. stage = "idle" /\ modules = <<>> /\ pending = <<>> /\ originals = {}
    BY DEF DedupInit, DedupIdle
  <2>2. <<>> \in Seq({}) /\ Len(<<>>) = 0 OBVIOUS
  <2>3. ListsOK BY <2>1, <2>2 DEF ListsOK, Listed
  <2>4. BookkeepingOK /\ IdsDistinct /\ NamesKept
    BY <2>1, <2>2 DEF BookkeepingOK, IdsDistinct, NamesKept
  <2>5. QED BY <2>1, <2>3, <2>4 DEF DedupInv
<1>2. DedupInv /\ [DedupNext]_<<stage, modules, dedupVars>> => DedupInv'
  <2> SUFFICES ASSUME DedupInv, [DedupNext]_<<stage, modules, dedupVars>> PROVE DedupInv' OBVIOUS
  <2>1. CASE \E b \in Batches : StartDedup(b) BY <2>1, BatchesListed, StartKeeps
  <2>2. CASE DedupStep BY <2>2, DedupStepKeeps
  <2>3. CASE DedupEnd(modules)
    <3>1. SameIds(modules, modules) BY DEF SameIds
    <3>2. \E S : modules \in Seq(S) BY DEF DedupInv, ListsOK
    <3>3. QED BY <2>3, <3>1, <3>2, EndKeeps
  <2>4. CASE UNCHANGED <<stage, modules, dedupVars>>
    BY <2>4 DEF DedupInv, ListsOK, Listed, BookkeepingOK, IdsDistinct, NamesKept, IdsOf, dedupVars
  <2>5. QED BY <2>1, <2>2, <2>3, <2>4 DEF DedupNext
<1>3. QED BY <1>1, <1>2, PTL DEF DedupSpec

(* Two modules of the list never share an id, whatever ids the scanner found, in whatever   *)
(* order, and whatever digits a number has (deduplicate_ids).                               *)
THEOREM NoTwoModulesShareAnId == DedupSpec => []IdsDistinct
<1>1. DedupInv => IdsDistinct BY DEF DedupInv
<1>2. QED BY <1>1, DedupInvariant, PTL

(* Every id the scanner brought is still the id of a module once its first bearer has been  *)
(* taken (deduplicate_ids).                                                                 *)
THEOREM NoNameIsLost == DedupSpec => []NamesKept
<1>1. DedupInv => NamesKept BY DEF DedupInv
<1>2. QED BY <1>1, DedupInvariant, PTL

------------------------------------------------------------------------------
(* The stages: the inductive invariants *)

\* A list of modules that have all their fields.
AreModules(list) ==
    /\ \E S : list \in Seq(S)
    /\ \A i \in 1 .. Len(list) : IsModule(list[i])

\* While the enhancer is at work the list has the modules it was given, in their places.
ModulesKept ==
    /\ AreModules(modules) /\ AreModules(authored)
    /\ stage = "enhance" => enhanced
    /\ enhanced => SameIds(authored, modules)

\* What AuthoredKept says of one module.
Kept(before, after, limit) ==
    LET scores == IF "x-ai-confidence" \in DOMAIN after.metadata
                  THEN after.metadata["x-ai-confidence"] ELSE <<>>
        trusted(path) == path \in DOMAIN scores /\ scores[path] >= limit
    IN  /\ after.module_id = before.module_id /\ after.target = before.target
        /\ before.warnings \subseteq after.warnings
        /\ after.description # before.description =>
             before.description \in {<<>>, before.module_id} /\ trusted(<<"description">>)
        /\ after.documentation # before.documentation =>
             before.documentation = None /\ trusted(<<"documentation">>)
        /\ after.input_schema # before.input_schema =>
             ~HasProperties(before.input_schema) /\ trusted(<<"input_schema">>)
        /\ after.annotations # before.annotations =>
             /\ before.annotations \in {None, DefaultAnnotations}
             /\ \A f \in Flags :
                  (f \in after.annotations.flags) # (f \in DefaultAnnotations.flags) =>
                      trusted(<<"annotations", f>>)

\* Every module is the one its author knows, but for what was missing.
AuthorsKept ==
    enhanced => \A i \in 1 .. Len(authored) : Kept(authored[i], modules[i], threshold)

\* What a module shows is what its entry and the module itself say.
Usable(m, map) ==
    LET display == m.metadata["display"]
        said == EntryOf(m, map).display
    IN  /\ "display" \in DOMAIN m.metadata
        /\ Acceptable(display.mcp.alias)
        /\ CliAliasLegal(display.cli.alias) \/ display.cli.alias = display.alias
        /\ \A surface \in Surfaces, field \in {"description", "guidance"} :
             display[surface][field] \in {display[field], said[surface][field]}

\* A name in play that no replacing of characters could mend.
Unmendable(m, map) ==
    LET entry == EntryOf(m, map)
        overlaid == {m.suggested_alias, entry.display.alias, entry.display["mcp"].alias}
        names == (overlaid \ {None, <<>>}) \cup {m.module_id}
                 \cup (IF "suggested_alias" \in DOMAIN m.metadata
                       THEN {m.metadata["suggested_alias"]} ELSE {})
    IN  \E name \in names : BeyondMending(name)

\* The names survive an enhancement that was given them: it writes back what it was given.  A
\* refusal is the end.
NamesShown ==
    /\ shown = "yes" => \A i \in 1 .. Len(modules) : Usable(modules[i], bound)
    /\ shown = "yes" /\ stage = "enhance" => \A i \in 1 .. Len(authored) : Usable(authored[i], bound)
    /\ shown = "refused" => stage = "failed" /\ \E i \in 1 .. Len(modules) : Unmendable(modules[i], bound)

\* The results name the modules so far, and the files are theirs, if no id has an empty segment.
StubsHold ==
    /\ \E S : written \in Seq(S)
    /\ Len(written) <= Len(modules)
    /\ \A i \in 1 .. Len(written) :
         /\ written[i].module_id = modules[i].module_id
         /\ written[i].path = ModulePath(modules[i].module_id)
    /\ WithoutEmptySegments(modules) =>
         /\ DOMAIN files = {written[i].path : i \in 1 .. Len(written)}
         /\ \A i \in 1 .. Len(written) : files[written[i].path].module_id = written[i].module_id
         /\ IsFiniteSet(DOMAIN files) /\ Cardinality(DOMAIN files) = Len(written)

------------------------------------------------------------------------------
(* The stages: modules and lists of them *)

ModuleFields ==
    {"module_id", "description", "documentation", "input_schema", "output_schema", "tags", "target",
     "version", "annotations", "suggested_alias", "metadata", "display", "warnings"}

\* A module has its fields and no other.
LEMMA HasFields == ASSUME NEW m, IsModule(m) PROVE DOMAIN m = ModuleFields
<1>1. m = [field \in ModuleFields |-> m[field]] BY DEF IsModule, ModuleFields
<1>2. QED BY <1>1

\* A module whose metadata says one more thing, but for its alias, is a module.
LEMMA MetadataPut ==
    ASSUME NEW m, IsModule(m), NEW key, key # "suggested_alias", NEW value
    PROVE  /\ IsModule([m EXCEPT !.metadata = Put(m.metadata, key, value)])
           /\ \A field \in ModuleFields \ {"metadata"} :
                [m EXCEPT !.metadata = Put(m.metadata, key, value)][field] = m[field]
           /\ [m EXCEPT !.metadata = Put(m.metadata, key, value)].metadata = Put(m.metadata, key, value)
<1> DEFINE after == [m EXCEPT !.metadata = Put(m.metadata, key, value)]
<1>1. DOMAIN m = ModuleFields BY HasFields
<1>2. /\ DOMAIN after = ModuleFields
      /\ \A field \in ModuleFields \ {"metadata"} : after[field] = m[field]
      /\ after = [field \in ModuleFields |-> after[field]]
  BY <1>1
<1>3. after.metadata = Put(m.metadata, key, value)
  <2>1. "metadata" \in ModuleFields BY DEF ModuleFields
  <2>2. QED BY <1>1, <2>1
<1>4. after.module_id = m.module_id /\ after.suggested_alias = m.suggested_alias
  BY <1>2 DEF ModuleFields
<1>5. "suggested_alias" \in DOMAIN after.metadata =>
        "suggested_alias" \in DOMAIN m.metadata
        /\ after.metadata["suggested_alias"] = m.metadata["suggested_alias"]
  BY <1>3 DEF Put
<1>6. IsModule(after)
  <2> HIDE DEF after
  <2>1. QED BY <1>2, <1>4, <1>5 DEF IsModule, ModuleFields
<1>7. QED BY <1>2, <1>3, <1>6

------------------------------------------------------------------------------
(* The stages: the enhancer *)

\* What an answer makes of a module keeps what its author wrote, and the module its names.
LEMMA FilledKeeps ==
    ASSUME NEW m, IsModule(m), NEW answer
    PROVE  /\ IsModule(Filled(m, answer)) /\ Kept(m, Filled(m, answer), threshold)
           /\ \A key \in DOMAIN m.metadata \ {"x-generated-by", "x-ai-confidence"} :
                /\ key \in DOMAIN Filled(m, answer).metadata
                /\ Filled(m, answer).metadata[key] = m.metadata[key]
           /\ Filled(m, answer).suggested_alias = m.suggested_alias
<1> DEFINE gaps == IdentifyGaps(m)
           notes == IF "annotations" \in gaps THEN answer.annotations ELSE <<>>
           fields == {<<f>> : f \in {g \in gaps \ {"annotations"} : answer[g] # None}}
           scores == [path \in fields \cup {<<"annotations", f>> : f \in Heard(notes)} |->
                         Confidence(answer, path)]
           sure(path) == path \in DOMAIN scores /\ scores[path] >= threshold
           accepted == {f \in Heard(notes) : sure(<<"annotations", f>>)}
           taken == {f \in accepted : Settable(notes, f)}
           doubts == {<<"low confidence", path>> : path \in {p \in DOMAIN scores : ~sure(p)}}
                     \cup {<<"unknown annotation", f>> : f \in accepted \ taken}
           description == IF sure(<<"description">>)
                          THEN ClampStr(answer.description, DescriptionLimit) ELSE m.description
           documentation ==
               IF sure(<<"documentation">>)
               THEN Split(StripAnsi(ClampStr(answer.documentation, DocumentationLimit)), "\n")
               ELSE m.documentation
           annotations == IF taken # {} THEN WithAnnotations(m.annotations, notes, taken)
                          ELSE m.annotations
           schema == IF sure(<<"input_schema">>) THEN answer.input_schema ELSE m.input_schema
           metadata == IF DOMAIN scores = {} THEN m.metadata
                       ELSE Put(Put(m.metadata, "x-generated-by", "slm"), "x-ai-confidence", scores)
           after == [m EXCEPT !.description = description, !.documentation = documentation,
                              !.annotations = annotations, !.input_schema = schema,
                              !.metadata = metadata, !.warnings = m.warnings \cup doubts]
<1>1. Filled(m, answer) = after BY DEF Filled
<1>2. DOMAIN m = ModuleFields BY HasFields
<1>3. /\ DOMAIN after = ModuleFields /\ after = [field \in ModuleFields |-> after[field]]
      /\ after.description = description /\ after.documentation = documentation
      /\ after.annotations = annotations /\ after.input_schema = schema
      /\ after.metadata = metadata /\ after.warnings = m.warnings \cup doubts
      /\ after.module_id = m.module_id /\ after.target = m.target
      /\ after.suggested_alias = m.suggested_alias
  <2> HIDE DEF description, documentation, annotations, schema, metadata, doubts
  <2>1. QED BY <1>2 DEF ModuleFields
<1>4. \A path : sure(path) =>
        /\ "x-ai-confidence" \in DOMAIN metadata
        /\ path \in DOMAIN metadata["x-ai-confidence"]
        /\ metadata["x-ai-confidence"][path] >= threshold
  <2> SUFFICES ASSUME NEW path, sure(path)
               PROVE  /\ "x-ai-confidence" \in DOMAIN metadata
                      /\ path \in DOMAIN metadata["x-ai-confidence"]
                      /\ metadata["x-ai-confidence"][path] >= threshold
    OBVIOUS
  <2>1. path \in DOMAIN scores /\ scores[path] >= threshold OBVIOUS
  <2> HIDE DEF scores
  <2>2. metadata = Put(Put(m.metadata, "x-generated-by", "slm"), "x-ai-confidence", scores)
    BY <2>1
  <2>3. "x-ai-confidence" \in DOMAIN metadata /\ metadata["x-ai-confidence"] = scores
    BY <2>2 DEF Put
  <2>4. QED BY <2>1, <2>3
<1>5. /\ sure(<<"description">>) => "description" \in gaps
      /\ sure(<<"documentation">>) => "documentation" \in gaps
      /\ sure(<<"input_schema">>) => "input_schema" \in gaps
  <2>1. \A f : <<f>> \in DOMAIN scores => f \in gaps
    <3>1. \A f, g : <<f>> # <<"annotations", g>> /\ (<<f>> = <<g>> => f = g) OBVIOUS
    <3>2. QED BY <3>1
  <2> HIDE DEF scores, gaps
  <2>2. QED BY <2>1
<1>6. taken # {} => "annotations" \in gaps
  <2>1. "annotations" \notin gaps => Heard(notes) = {} BY DEF Heard
  <2>2. QED BY <2>1
<1>7. \A f \in taken : sure(<<"annotations", f>>) OBVIOUS
<1>8. /\ "description" \in gaps => m.description \in {<<>>, m.module_id}
      /\ "documentation" \in gaps => m.documentation = None
      /\ "annotations" \in gaps => m.annotations \in {None, DefaultAnnotations}
      /\ "input_schema" \in gaps => ~HasProperties(m.input_schema)
  BY DEF IdentifyGaps, IsDefault
<1> HIDE DEF gaps, notes, scores, accepted, taken, doubts, fields, sure
<1>9. \A f \in Flags : annotations # m.annotations
          /\ (f \in annotations.flags) # (f \in DefaultAnnotations.flags) => f \in taken
  <2> SUFFICES ASSUME NEW f \in Flags, annotations # m.annotations, f \notin taken
               PROVE  f \in annotations.flags <=> f \in DefaultAnnotations.flags
    OBVIOUS
  <2> DEFINE flags == {g \in Flags : IF g \in taken THEN notes[g][2] ELSE g \in DefaultAnnotations.flags}
  <2>1. taken # {} /\ annotations = WithAnnotations(m.annotations, notes, taken) OBVIOUS
  <2>2. (IF m.annotations = None THEN DefaultAnnotations ELSE m.annotations) = DefaultAnnotations
    BY <1>6, <1>8, <2>1
  <2>3. annotations = [g \in DOMAIN DefaultAnnotations |->
            CASE g = "flags" -> flags
              [] g # "flags" /\ g \in taken -> notes[g][2]
              [] OTHER -> DefaultAnnotations[g]]
    BY <2>1, <2>2, Zenon DEF WithAnnotations
  <2>4. "flags" \in DOMAIN DefaultAnnotations BY DEF DefaultAnnotations
  <2> HIDE DEF flags, annotations
  <2>5. annotations.flags = flags BY <2>3, <2>4
  <2>6. f \in flags <=> f \in DefaultAnnotations.flags BY Zenon DEF flags
  <2>7. QED BY <2>5, <2>6
<1>10. \A key \in DOMAIN m.metadata \ {"x-generated-by", "x-ai-confidence"} :
         key \in DOMAIN metadata /\ metadata[key] = m.metadata[key]
  BY DEF Put
<1>11. "suggested_alias" \in DOMAIN metadata =>
         "suggested_alias" \in DOMAIN m.metadata
         /\ metadata["suggested_alias"] = m.metadata["suggested_alias"]
  BY DEF Put
<1>12. /\ description # m.description => sure(<<"description">>)
       /\ documentation # m.documentation => sure(<<"documentation">>)
       /\ schema # m.input_schema => sure(<<"input_schema">>)
       /\ annotations # m.annotations => taken # {}
  OBVIOUS
<1> HIDE DEF after, description, documentation, annotations, schema, metadata
<1>13. IsModule(after)
  <2>1. m.module_id \in Seq(STRING) /\ m.suggested_alias \in Seq(STRING) \cup {None} BY DEF IsModule
  <2>2. "suggested_alias" \in DOMAIN m.metadata => m.metadata["suggested_alias"] \in Seq(STRING)
    BY DEF IsModule
  <2>3. after.module_id \in Seq(STRING) /\ after.suggested_alias \in Seq(STRING) \cup {None}
    BY <1>3, <2>1
  <2>4. "suggested_alias" \in DOMAIN after.metadata => after.metadata["suggested_alias"] \in Seq(STRING)
    BY <1>3, <1>11, <2>2
  <2>5. after = [field \in ModuleFields |-> after[field]] BY <1>3
  <2>6. QED BY <2>3, <2>4, <2>5 DEF IsModule, ModuleFields
<1>14. Kept(m, after, threshold)
  <2> DEFINE reached == IF "x-ai-confidence" \in DOMAIN after.metadata
                        THEN after.metadata["x-ai-confidence"] ELSE <<>>
             trusted(path) == path \in DOMAIN reached /\ reached[path] >= threshold
  <2>1. \A path : sure(path) => trusted(path) BY <1>3, <1>4
  <2> HIDE DEF trusted
  <2>2. after.description # m.description =>
          m.description \in {<<>>, m.module_id} /\ trusted(<<"description">>)
    BY <1>3, <1>5, <1>8, <1>12, <2>1
  <2>3. after.documentation # m.documentation =>
          m.documentation = None /\ trusted(<<"documentation">>)
    BY <1>3, <1>5, <1>8, <1>12, <2>1
  <2>4. after.input_schema # m.input_schema =>
          ~HasProperties(m.input_schema) /\ trusted(<<"input_schema">>)
    BY <1>3, <1>5, <1>8, <1>12, <2>1
  <2>5. after.annotations # m.annotations =>
          /\ m.annotations \in {None, DefaultAnnotations}
          /\ \A f \in Flags : (f \in after.annotations.flags) # (f \in DefaultAnnotations.flags) =>
                trusted(<<"annotations", f>>)
    BY <1>3, <1>6, <1>7, <1>8, <1>9, <1>12, <2>1
  <2>6. /\ after.module_id = m.module_id /\ after.target = m.target
        /\ m.warnings \subseteq after.warnings
    BY <1>3
  <2>7. QED BY <2>2, <2>3, <2>4, <2>5, <2>6, Zenon DEF Kept, trusted
<1>15. QED BY <1>1, <1>3, <1>10, <1>13, <1>14

------------------------------------------------------------------------------
(* The stages: names for the surfaces *)

\* The first text given is one of the texts, and those before it are not given.
LEMMA FirstGivenIs ==
    ASSUME NEW n \in Nat \ {0}, NEW texts, Len(texts) = n
    PROVE  \E k \in 1 .. n : /\ FirstGiven(texts) = texts[k]
                             /\ k = n \/ texts[k] \notin {None, <<>>}
                             /\ \A i \in 1 .. k - 1 : texts[i] \in {None, <<>>}
<1> DEFINE given == {i \in 1 .. n : i = n \/ texts[i] \notin {None, <<>>}}
           First(i) == i \in given /\ \A j \in given : i <= j
<1>1. given \subseteq Nat /\ n \in given OBVIOUS
<1>2. \E k : First(k)
  <2> HIDE DEF given
  <2>1. \E k \in given : \A j \in given : k <= j BY <1>1, LeastNatural
  <2>2. QED BY <2>1
<1>3. PICK k : k = (CHOOSE i \in given : \A j \in given : i <= j) OBVIOUS
<1>4. First(k) BY <1>2, <1>3
<1>5. FirstGiven(texts) = texts[k] BY <1>3 DEF FirstGiven
<1>6. k \in 1 .. n /\ (k = n \/ texts[k] \notin {None, <<>>}) BY <1>4
<1>7. \A i \in 1 .. k - 1 : texts[i] \in {None, <<>>}
  <2> SUFFICES ASSUME NEW i \in 1 .. k - 1 PROVE texts[i] \in {None, <<>>} OBVIOUS
  <2>1. i \in 1 .. n /\ ~(k <= i) BY <1>6
  <2>2. i \notin given BY <1>4, <2>1
  <2>3. QED BY <2>1, <2>2
<1>8. QED BY <1>5, <1>6, <1>7

\* Of two texts, and of three.
LEMMA FirstOfTwo ==
    ASSUME NEW a, NEW b
    PROVE  \/ FirstGiven(<<a, b>>) = a /\ a \notin {None, <<>>}
           \/ FirstGiven(<<a, b>>) = b /\ a \in {None, <<>>}
<1>1. Len(<<a, b>>) = 2 /\ <<a, b>>[1] = a /\ <<a, b>>[2] = b OBVIOUS
<1>2. PICK k \in 1 .. 2 : /\ FirstGiven(<<a, b>>) = <<a, b>>[k]
                          /\ k = 2 \/ <<a, b>>[k] \notin {None, <<>>}
                          /\ \A i \in 1 .. k - 1 : <<a, b>>[i] \in {None, <<>>}
  BY <1>1, FirstGivenIs
<1>3. CASE k = 1 BY <1>1, <1>2, <1>3
<1>4. CASE k = 2 BY <1>1, <1>2, <1>4
<1>5. QED BY <1>3, <1>4

\* The same of three texts.
LEMMA FirstOfThree ==
    ASSUME NEW a, NEW b, NEW c
    PROVE  \/ FirstGiven(<<a, b, c>>) \in {a, b} \ {None, <<>>}
           \/ FirstGiven(<<a, b, c>>) = c
<1>1. /\ Len(<<a, b, c>>) = 3 /\ <<a, b, c>>[1] = a /\ <<a, b, c>>[2] = b /\ <<a, b, c>>[3] = c
  OBVIOUS
<1>2. PICK k \in 1 .. 3 : /\ FirstGiven(<<a, b, c>>) = <<a, b, c>>[k]
                          /\ k = 3 \/ <<a, b, c>>[k] \notin {None, <<>>}
  BY <1>1, FirstGivenIs
<1>3. CASE k = 1 BY <1>1, <1>2, <1>3
<1>4. CASE k = 2 BY <1>1, <1>2, <1>4
<1>5. CASE k = 3 BY <1>1, <1>2, <1>5
<1>6. QED BY <1>3, <1>4, <1>5

\* A text with one more character in front.
LEMMA Preceded ==
    ASSUME NEW X, NEW c \in X, NEW s \in Seq(X)
    PROVE  /\ Len(<<c>> \o s) = Len(s) + 1 /\ (<<c>> \o s)[1] = c
           /\ \A i \in 2 .. Len(s) + 1 : (<<c>> \o s)[i] = s[i - 1]
<1>1. <<c>> \in Seq(X) /\ Len(<<c>>) = 1 /\ <<c>>[1] = c OBVIOUS
<1>2. PICK t \in Seq(X) : t = <<c>> /\ Len(t) = 1 /\ t[1] = c BY <1>1
<1>3. /\ Len(t \o s) = 1 + Len(s) /\ (t \o s)[1] = c
      /\ \A i \in 2 .. Len(s) + 1 : (t \o s)[i] = s[i - 1]
  BY <1>2
<1>4. QED BY <1>2, <1>3

\* Legal characters with a legal one in front are legal characters.
LEMMA PrecededLegal ==
    ASSUME NEW X, NEW legal, NEW bar \in X, bar \in legal, NEW kept \in Seq(X),
           \A i \in 1 .. Len(kept) : kept[i] \in legal
    PROVE  /\ Len(<<bar>> \o kept) = Len(kept) + 1 /\ (<<bar>> \o kept)[1] = bar
           /\ \A i \in 1 .. Len(<<bar>> \o kept) : (<<bar>> \o kept)[i] \in legal
<1>1. PICK t : t = <<bar>> \o kept OBVIOUS
<1>2. /\ Len(t) = Len(kept) + 1 /\ t[1] = bar
      /\ \A i \in 2 .. Len(kept) + 1 : t[i] = kept[i - 1]
  BY <1>1, Preceded
<1>3. \A i \in 1 .. Len(t) : t[i] \in legal
  <2> SUFFICES ASSUME NEW i \in 1 .. Len(t) PROVE t[i] \in legal OBVIOUS
  <2>1. CASE i = 1 BY <1>2, <2>1
  <2>2. CASE i # 1
    <3>1. i \in 2 .. Len(kept) + 1 /\ i - 1 \in 1 .. Len(kept) BY <1>2, <2>2
    <3>2. QED BY <1>2, <3>1
  <2>3. QED BY <2>1, <2>2
<1>4. QED BY <1>1, <1>2, <1>3

\* A name that can be mended is mended.
LEMMA Mended ==
    ASSUME NEW raw \in Seq(STRING), ~BeyondMending(raw)
    PROVE  Acceptable(SanitizeMcpAlias(raw))
<1> DEFINE X == STRING \cup {"_"}
           legal == {c \in X : IsAlphanumeric(c) \/ c \in {"_", "-"}}
           Keep(c) == IF IsAlphanumeric(c) \/ c \in {"_", "-"} THEN c ELSE "_"
<1>1. /\ Len(raw) \in Nat /\ Len(raw) # 0 /\ Len(raw) < MaxAlias /\ MaxAlias \in Nat
      /\ raw[1] # "-"
  <2>1. raw # <<>> /\ ~(Len(raw) >= MaxAlias) /\ raw[1] # "-" BY DEF BeyondMending
  <2>2. QED BY <2>1, DisplayAssumption
<1>2. PICK kept : kept = [i \in 1 .. Len(raw) |-> Keep(raw[i])] OBVIOUS
<1>3. \A c \in STRING : Keep(c) \in legal /\ (Keep(c) = c \/ Keep(c) = "_") BY Zenon
<1>4. SanitizeMcpAlias(raw) = IF kept # <<>> /\ kept[1] \in Digits THEN <<"_">> \o kept ELSE kept
  BY <1>2, Zenon DEF SanitizeMcpAlias
<1>5. "_" \in X /\ "_" \in legal /\ legal \subseteq X BY Zenon
<1>6. \A alias : alias # <<>> /\ (\A i \in 1 .. Len(alias) : alias[i] \in legal)
                   /\ alias[1] \notin Digits /\ alias[1] # "-" => McpAliasLegal(alias)
  BY Zenon DEF McpAliasLegal
<1>7. "_" \notin Digits /\ "_" # "-"
  <2>1. "_" \notin Digits BY DEF Digits
  <2>2. QED BY <2>1, Zenon
<1> HIDE DEF X, legal, Keep
<1>8. \A i \in 1 .. Len(raw) :
        kept[i] \in legal /\ kept[i] \in X /\ (kept[i] = raw[i] \/ kept[i] = "_")
  <2> SUFFICES ASSUME NEW i \in 1 .. Len(raw)
               PROVE  kept[i] \in legal /\ kept[i] \in X /\ (kept[i] = raw[i] \/ kept[i] = "_")
    OBVIOUS
  <2>1. raw[i] \in STRING OBVIOUS
  <2>2. kept[i] = Keep(raw[i]) BY <1>2
  <2>3. QED BY <1>3, <1>5, <2>1, <2>2, Zenon
<1>9. kept \in [1 .. Len(raw) -> X] BY <1>2, <1>8
<1>10. kept \in Seq(X) /\ Len(kept) = Len(raw)
  <2>1. Len(raw) \in Nat BY <1>1
  <2>2. QED BY <1>9, <2>1
<1>11. Len(kept) # 0 /\ Len(raw) + 1 <= MaxAlias /\ 1 \in 1 .. Len(raw) BY <1>1, <1>10
<1>12. PICK alias :
         /\ alias = IF kept # <<>> /\ kept[1] \in Digits THEN <<"_">> \o kept ELSE kept
         /\ Len(alias) = Len(kept) \/ Len(alias) = Len(kept) + 1
         /\ \A i \in 1 .. Len(alias) : alias[i] \in legal
         /\ alias[1] = "_" \/ (alias[1] = kept[1] /\ kept[1] \notin Digits)
  <2>1. \A i \in 1 .. Len(kept) : kept[i] \in legal BY <1>8, <1>10
  <2>2. kept # <<>> BY <1>10, <1>11
  <2>3. CASE kept[1] \in Digits
    <3>1. /\ Len(<<"_">> \o kept) = Len(kept) + 1 /\ (<<"_">> \o kept)[1] = "_"
          /\ \A i \in 1 .. Len(<<"_">> \o kept) : (<<"_">> \o kept)[i] \in legal
      BY <1>5, <1>10, <2>1, PrecededLegal
    <3>2. QED BY <2>2, <2>3, <3>1, Zenon
  <2>4. CASE kept[1] \notin Digits BY <2>1, <2>4, Zenon
  <2>5. QED BY <2>3, <2>4
<1>13. alias[1] \notin Digits /\ alias[1] # "-"
  <2>1. kept[1] = raw[1] \/ kept[1] = "_" BY <1>8, <1>11
  <2>2. raw[1] # "-" BY <1>1
  <2>3. QED BY <1>7, <1>12, <2>1, <2>2, Zenon
<1>14. Len(alias) <= MaxAlias /\ alias # <<>>
  <2>1. Len(alias) = Len(kept) \/ Len(alias) = Len(kept) + 1 BY <1>12
  <2>2. Len(raw) \in Nat /\ MaxAlias \in Nat BY <1>1
  <2>3. QED BY <1>10, <1>11, <2>1, <2>2
<1>15. McpAliasLegal(alias)
  <2>1. \A i \in 1 .. Len(alias) : alias[i] \in legal BY <1>12
  <2>2. QED BY <1>6, <1>13, <1>14, <2>1, Zenon
<1>16. alias = SanitizeMcpAlias(raw) BY <1>4, <1>12, Zenon
<1>17. QED BY <1>14, <1>15, <1>16, Zenon DEF Acceptable

\* The entry of a module is one of those that were read, or says nothing.
LEMMA EntriesTyped ==
    ASSUME NEW sources \in BindingSources, NEW m
    PROVE  IsEntry(EntryOf(m, BindingMap(sources)))
<1> DEFINE given(i) == IF sources[i] = None THEN <<>> ELSE sources[i]
           all == {e \in UNION {ToSet(sources[i]) : i \in 1 .. Len(sources)} : IsEntry(e)}
           entries == FlattenSeq([i \in 1 .. Len(sources) |-> given(i)])
           last(id) == CHOOSE i \in 1 .. Len(entries) :
                           /\ entries[i].module_id = id
                           /\ \A j \in i + 1 .. Len(entries) : entries[j].module_id # id
<1>1. sources \in Seq(ToSet(sources)) /\ Len(sources) \in Nat BY DisplayAssumption
<1>2. \A i \in 1 .. Len(sources) : given(i) \in Seq(all)
  <2> SUFFICES ASSUME NEW i \in 1 .. Len(sources) PROVE given(i) \in Seq(all) OBVIOUS
  <2>1. CASE sources[i] = None
    <3>1. given(i) = <<>> BY <2>1
    <3> HIDE DEF all, given
    <3>2. QED BY <3>1
  <2>2. CASE sources[i] # None
    <3>1. /\ sources[i] \in Seq(ToSet(sources[i]))
          /\ \A j \in 1 .. Len(sources[i]) : IsEntry(sources[i][j])
      BY <2>2, DisplayAssumption
    <3>2. PICK s : s = sources[i] OBVIOUS
    <3>3. s \in Seq(ToSet(s)) /\ \A j \in 1 .. Len(s) : IsEntry(s[j]) BY <3>1, <3>2
    <3>4. \A j \in 1 .. Len(s) : s[j] \in ToSet(s) BY <3>3
    <3>5. \A j \in 1 .. Len(s) : s[j] \in all BY <3>2, <3>3, <3>4
    <3> HIDE DEF all
    <3>6. s \in Seq(all) BY <3>3, <3>5
    <3>7. QED BY <2>2, <3>2, <3>6
  <2>3. QED BY <2>1, <2>2
<1>3. entries \in Seq(all)
  <2> DEFINE pieces == [i \in 1 .. Len(sources) |-> given(i)]
  <2> HIDE DEF all, given
  <2>1. pieces \in [1 .. Len(sources) -> Seq(all)] BY <1>2
  <2>2. pieces \in Seq(Seq(all)) BY <1>1, <2>1
  <2> HIDE DEF pieces
  <2>3. FlattenSeq(pieces) \in Seq(all) BY <2>2, FlattenTyped
  <2>4. QED BY <2>3 DEF pieces
<1>4. BindingMap(sources) = [id \in {entries[i].module_id : i \in 1 .. Len(entries)} |->
                                entries[last(id)]]
  BY DEF BindingMap
<1>5. \A i \in 1 .. Len(entries) : IsEntry(entries[i])
  <2> HIDE DEF entries
  <2>1. \A i \in 1 .. Len(entries) : entries[i] \in all BY <1>3
  <2>2. QED BY <2>1
<1> HIDE DEF all, entries
<1>6. ASSUME NEW id \in {entries[i].module_id : i \in 1 .. Len(entries)}
      PROVE  last(id) \in 1 .. Len(entries)
  <2> DEFINE n == Len(entries)
             later == {k \in 0 .. n : n - k \in 1 .. n /\ entries[n - k].module_id = id}
             IsLast(i) == /\ i \in 1 .. n /\ entries[i].module_id = id
                          /\ \A j \in i + 1 .. n : entries[j].module_id # id
  <2>1. n \in Nat BY <1>3
  <2> HIDE DEF n
  <2>2. later # {} /\ later \subseteq Nat
    <3>1. PICK i \in 1 .. n : entries[i].module_id = id BY DEF n
    <3>2. n - i \in 0 .. n /\ n - (n - i) = i BY <2>1, <3>1
    <3>3. n - i \in later BY <3>1, <3>2
    <3>4. later \subseteq Nat OBVIOUS
    <3> HIDE DEF later
    <3>5. QED BY <3>3, <3>4
  <2>3. PICK k \in later : \A j \in later : k <= j
    <3> HIDE DEF later
    <3>1. QED BY <2>2, LeastNatural
  <2>4. IsLast(n - k)
    <3>1. k \in 0 .. n /\ n - k \in 1 .. n /\ entries[n - k].module_id = id BY <2>3
    <3>2. ASSUME NEW j \in (n - k) + 1 .. n PROVE entries[j].module_id # id
      <4>1. n - j \in 0 .. n /\ n - (n - j) = j /\ j \in 1 .. n /\ ~(k <= n - j) BY <2>1, <3>1
      <4>2. n - j \notin later
        <5> HIDE DEF later
        <5>1. QED BY <2>3, <4>1
      <4>3. QED BY <4>1, <4>2
    <3>3. QED BY <3>1, <3>2
  <2>5. \E i : IsLast(i)
    <3> HIDE DEF IsLast
    <3>1. QED BY <2>4
  <2>6. last(id) = CHOOSE i : IsLast(i) BY DEF n
  <2>7. IsLast(CHOOSE i : IsLast(i)) BY <2>5
  <2>8. QED BY <2>6, <2>7 DEF n
<1>7. CASE m.module_id \in DOMAIN BindingMap(sources)
  <2>1. m.module_id \in {entries[i].module_id : i \in 1 .. Len(entries)} BY <1>4, <1>7
  <2>2. EntryOf(m, BindingMap(sources)) = BindingMap(sources)[m.module_id] BY <1>7 DEF EntryOf
  <2> HIDE DEF last
  <2>3. BindingMap(sources)[m.module_id] = entries[last(m.module_id)] BY <1>4, <2>1
  <2>4. QED BY <1>5, <1>6, <2>1, <2>2, <2>3
<1>8. CASE m.module_id \notin DOMAIN BindingMap(sources)
  <2>1. EntryOf(m, BindingMap(sources)) = NoEntry BY <1>8 DEF EntryOf
  <2>2. IsEntry(NoEntry) BY DEF IsEntry, NoEntry, Silent, Surfaces
  <2>3. QED BY <2>1, <2>2
<1>9. QED BY <1>7, <1>8

\* What a module is given to show can be used.
LEMMA DisplayUsable ==
    ASSUME NEW m, NEW map, Acceptable(McpAlias(m, EntryOf(m, map))), NEW shows, IsModule(m),
           shows = [m EXCEPT !.metadata = Put(m.metadata, "display", DisplayOf(m, EntryOf(m, map)))]
    PROVE  Usable(shows, map)
<1>1. PICK entry : entry = EntryOf(m, map) OBVIOUS
<1>2. PICK display : display = DisplayOf(m, entry) OBVIOUS
<1>3. /\ shows.metadata = Put(m.metadata, "display", display) /\ shows.module_id = m.module_id
  <2>1. shows.metadata = Put(m.metadata, "display", display) BY <1>1, <1>2, MetadataPut
  <2>2. "module_id" \in ModuleFields \ {"metadata"} BY DEF ModuleFields
  <2>3. QED BY <1>1, <1>2, <2>1, <2>2, MetadataPut
<1>4. "display" \in DOMAIN shows.metadata /\ shows.metadata["display"] = display
  BY <1>3 DEF Put
<1>5. EntryOf(shows, map) = entry BY <1>1, <1>3 DEF EntryOf
<1>6. /\ display.alias = DefaultAlias(m, entry)
      /\ display.description = DefaultDescription(m, entry)
      /\ display.guidance = DefaultGuidance(entry)
      /\ display.cli = OnSurface(m, entry, "cli", CliAlias(m, entry))
      /\ display.mcp = OnSurface(m, entry, "mcp", McpAlias(m, entry))
      /\ display.a2a = OnSurface(m, entry, "a2a", SurfaceAlias(m, entry, "a2a"))
  BY <1>2 DEF DisplayOf
<1>7. Acceptable(display.mcp.alias) BY <1>1, <1>6 DEF OnSurface
<1>8. CliAliasLegal(display.cli.alias) \/ display.cli.alias = display.alias
  <2>1. display.cli.alias = CliAlias(m, entry) BY <1>6 DEF OnSurface
  <2>2. entry.display["cli"].alias = None => SurfaceAlias(m, entry, "cli") = DefaultAlias(m, entry)
    BY FirstOfTwo DEF SurfaceAlias
  <2>3. QED BY <1>6, <2>1, <2>2 DEF CliAlias
<1>9. \A surface \in Surfaces :
        /\ display[surface].description
             = FirstGiven(<<entry.display[surface].description, display.description>>)
        /\ display[surface].guidance
             = FirstGiven(<<entry.display[surface].guidance, display.guidance>>)
  BY <1>6 DEF Surfaces, OnSurface
<1>10. \A surface \in Surfaces :
         /\ display[surface].description \in {entry.display[surface].description, display.description}
         /\ display[surface].guidance \in {entry.display[surface].guidance, display.guidance}
  <2> SUFFICES ASSUME NEW surface \in Surfaces
               PROVE  /\ display[surface].description
                           \in {entry.display[surface].description, display.description}
                      /\ display[surface].guidance
                           \in {entry.display[surface].guidance, display.guidance}
    OBVIOUS
  <2>1. \A a, b : FirstGiven(<<a, b>>) \in {a, b} BY FirstOfTwo
  <2>2. QED BY <1>9, <2>1
<1>11. \A surface \in Surfaces, field \in {"description", "guidance"} :
         display[surface][field] \in {display[field], entry.display[surface][field]}
  BY <1>10
<1>12. QED BY <1>4, <1>5, <1>7, <1>8, <1>11, Zenon DEF Usable

\* A module whose tool name cannot be accepted has a name in play that cannot be mended.
LEMMA RefusedUnmendable ==
    ASSUME NEW m, IsModule(m), NEW map, IsEntry(EntryOf(m, map)),
           ~Acceptable(McpAlias(m, EntryOf(m, map)))
    PROVE  Unmendable(m, map)
<1>1. PICK entry : entry = EntryOf(m, map) OBVIOUS
<1> DEFINE own == IF "suggested_alias" \in DOMAIN m.metadata
                  THEN m.metadata["suggested_alias"] ELSE m.module_id
           given == entry.display["mcp"].alias
           overlaid == {m.suggested_alias, entry.display.alias, given}
           names == (overlaid \ {None, <<>>}) \cup {m.module_id}
                    \cup (IF "suggested_alias" \in DOMAIN m.metadata
                          THEN {m.metadata["suggested_alias"]} ELSE {})
           name == SurfaceAlias(m, entry, "mcp")
<1>2. overlaid \subseteq Seq(STRING) \cup {None} /\ own \in Seq(STRING) /\ m.module_id \in Seq(STRING)
  BY <1>1 DEF IsModule, IsEntry, Surfaces
<1>3. name \in names
  <2>1. DefaultAlias(m, entry) = FirstGiven(<<entry.display.alias, m.suggested_alias, own>>)
    BY DEF DefaultAlias
  <2>2. DefaultAlias(m, entry) \in {entry.display.alias, m.suggested_alias} \ {None, <<>>}
        \/ DefaultAlias(m, entry) = own
    BY <2>1, FirstOfThree
  <2>3. own \in names BY Zenon
  <2>4. DefaultAlias(m, entry) \in names BY <2>2, <2>3
  <2>5. name = FirstGiven(<<given, DefaultAlias(m, entry)>>) BY DEF SurfaceAlias
  <2>6. (name = given /\ given \notin {None, <<>>}) \/ name = DefaultAlias(m, entry)
    BY <2>5, FirstOfTwo
  <2>7. QED BY <2>4, <2>6
<1>4. names \subseteq Seq(STRING) BY <1>2
<1>5. McpAlias(m, entry) = SanitizeMcpAlias(name) BY DEF McpAlias
<1>6. BeyondMending(name)
  <2> HIDE DEF name, names
  <2>1. QED BY <1>1, <1>3, <1>4, <1>5, Mended
<1>7. QED BY <1>1, <1>3, <1>6, Zenon DEF Unmendable

------------------------------------------------------------------------------
(* The stages: the paths of stubs *)

\* A text is known by its parts.
LEMMA SplitInjective ==
    ASSUME NEW X, NEW s \in Seq(X), NEW t \in Seq(X), NEW separator,
           Split(s, separator) = Split(t, separator)
    PROVE  s = t
<1>1. PICK g \in [0 .. Len(s) -> NonEmptySeq(X)] :
        IsSplit(g, s, separator) /\ Split(s, separator) = g[Len(s)]
  BY SplitUnfolds
<1>2. PICK f \in [0 .. Len(t) -> NonEmptySeq(X)] :
        IsSplit(f, t, separator) /\ Split(t, separator) = f[Len(t)]
  BY SplitUnfolds
<1>3. \A P \in NonEmptySeq(X) : Begins(P, P) BY PartsTyped DEF Begins
<1>4. g[Len(s)] \in NonEmptySeq(X) /\ f[Len(t)] = g[Len(s)]
  <2>1. Len(s) \in 0 .. Len(s) OBVIOUS
  <2>2. QED BY <1>1, <1>2, <2>1
<1>5. Begins(g[Len(s)], f[Len(t)]) /\ Begins(f[Len(t)], g[Len(s)]) BY <1>3, <1>4
<1>6. Len(s) <= Len(t) /\ \A i \in 1 .. Len(s) : s[i] = t[i] BY <1>1, <1>2, <1>5, TextsBegin
<1>7. Len(t) <= Len(s) BY <1>1, <1>2, <1>5, TextsBegin
<1>8. Len(s) = Len(t) BY <1>6, <1>7
<1>9. QED BY <1>6, <1>8, SeqEqual

\* A path is the parts of its id, if none of them is empty.
LEMMA PathIsParts ==
    ASSUME NEW id \in Seq(STRING),
           \A j \in 1 .. Len(Split(id, ".")) : Split(id, ".")[j] # <<>>
    PROVE  ModulePath(id) = Split(id, ".")
<1>1. PICK P \in NonEmptySeq(STRING) : P = Split(id, ".")
  <2>1. PICK f \in [0 .. Len(id) -> NonEmptySeq(STRING)] : Split(id, ".") = f[Len(id)]
    BY SplitUnfolds
  <2>2. QED BY <2>1
<1>2. /\ P \in Seq(Seq(STRING)) /\ Len(P) \in Nat /\ Len(P) # 0
      /\ \A j \in 1 .. Len(P) : P[j] # <<>>
  BY <1>1, PartsTyped
<1>3. PICK front : front = SubSeq(P, 1, Len(P) - 1) OBVIOUS
<1>4. /\ front \in Seq(Seq(STRING)) /\ Len(front) = Len(P) - 1
      /\ \A j \in 1 .. Len(front) : front[j] = P[j] /\ front[j] # <<>>
  <2>1. front \in Seq(Seq(STRING)) BY <1>2, <1>3
  <2>2. Len(front) = Len(P) - 1
    <3>0. Len(P) - 1 \in Nat /\ Len(P) - 1 <= Len(P) BY <1>2
    <3>1. PICK k \in Nat : k = Len(P) - 1 /\ k <= Len(P) BY <3>0, Zenon
    <3>2. front = SubSeq(P, 1, k) /\ P \in Seq(Seq(STRING)) BY <1>2, <1>3, <3>1
    <3>3. Len(front) = k BY <3>1, <3>2
    <3>4. QED BY <3>1, <3>3
  <2>3. \A j \in 1 .. Len(P) - 1 : front[j] = P[j] BY <1>2, <1>3
  <2>4. \A j \in 1 .. Len(P) - 1 : j \in 1 .. Len(P) BY <1>2
  <2>5. QED BY <1>2, <2>1, <2>2, <2>3, <2>4
<1>5. NonEmpty(front) = front
  <2>1. NonEmpty(front) = FlattenSeq([i \in 1 .. Len(front) |->
                                        IF front[i] = <<>> THEN <<>> ELSE <<front[i]>>])
    BY DEF NonEmpty
  <2>2. [i \in 1 .. Len(front) |-> IF front[i] = <<>> THEN <<>> ELSE <<front[i]>>]
          = [i \in DOMAIN front |-> <<front[i]>>]
    BY <1>4
  <2>3. FlattenSeq([i \in DOMAIN front |-> <<front[i]>>]) = front BY <1>4, FlattenSingles
  <2>4. QED BY <2>1, <2>2, <2>3
<1>6. Front(P) = front /\ Last(P) = P[Len(P)] BY <1>3 DEF Front, Last
<1>7. ModulePath(id) = Append(front, P[Len(P)]) BY <1>1, <1>5, <1>6 DEF ModulePath
<1>8. Append(front, P[Len(P)]) = P
  <2>1. P[Len(P)] \in Seq(STRING) BY <1>2
  <2>2. PICK a : a = Append(front, P[Len(P)]) OBVIOUS
  <2>3. /\ a \in Seq(Seq(STRING)) /\ Len(a) = Len(P) /\ a[Len(P)] = P[Len(P)]
        /\ \A j \in 1 .. Len(P) - 1 : a[j] = P[j]
    BY <1>2, <1>4, <2>1, <2>2
  <2>4. \A j \in 1 .. Len(P) : a[j] = P[j] BY <1>2, <2>3
  <2>5. a = P BY <1>2, <2>3, <2>4, SeqEqual
  <2>6. QED BY <2>2, <2>5
<1>9. QED BY <1>1, <1>7, <1>8

\* So two ids without empty parts never share a path.
LEMMA PathsDiffer ==
    ASSUME NEW a \in Seq(STRING), \A j \in 1 .. Len(Split(a, ".")) : Split(a, ".")[j] # <<>>,
           NEW b \in Seq(STRING), \A j \in 1 .. Len(Split(b, ".")) : Split(b, ".")[j] # <<>>,
           ModulePath(a) = ModulePath(b)
    PROVE  a = b
<1>1. Split(a, ".") = Split(b, ".") BY PathIsParts
<1>2. QED BY <1>1, SplitInjective

------------------------------------------------------------------------------
(* The stages: what their steps keep *)

\* An answer changes one module, and that as Filled says of the module the author knows.
LEMMA AskStep ==
    ASSUME ModulesKept, AskNext
    PROVE  /\ AreModules(modules') /\ Len(modules') = Len(modules) /\ Len(authored) = Len(modules)
           /\ \A i \in 1 .. Len(modules) :
                modules'[i] = modules[i] \/ \E answer : modules'[i] = Filled(authored[i], answer)
<1>1. enhanced /\ stage = "enhance" BY DEF AskNext, ModulesKept
<1>2. PICK S : modules \in Seq(S) BY DEF ModulesKept, AreModules
<1>3. /\ Len(authored) = Len(modules) /\ Len(modules) \in Nat
      /\ \A i \in 1 .. Len(modules) : IsModule(modules[i]) /\ IsModule(authored[i])
  BY <1>1, <1>2 DEF ModulesKept, AreModules, SameIds
<1>4. CASE modules' = modules BY <1>3, <1>4 DEF ModulesKept
<1>5. CASE modules' # modules
  <2>1. PICK k, answer : modules' = [modules EXCEPT ![k] = Filled(authored[k], answer)]
    BY <1>5 DEF AskNext
  <2>2. PICK new : new = Filled(authored[k], answer) OBVIOUS
  <2>3. /\ modules' \in Seq(S \cup {new}) /\ Len(modules') = Len(modules)
        /\ \A i \in 1 .. Len(modules) : modules'[i] = IF i = k THEN new ELSE modules[i]
    <3>1. PICK list \in Seq(S) : list = modules BY <1>2
    <3>2. PICK t : t = [list EXCEPT ![k] = new] /\ t = modules' BY <2>1, <2>2, <3>1
    <3>3. DOMAIN list = 1 .. Len(list) /\ Len(list) \in Nat /\ \A i \in 1 .. Len(list) : list[i] \in S
      OBVIOUS
    <3>4. \A i \in 1 .. Len(list) : t[i] = IF i = k THEN new ELSE list[i] BY <3>2, <3>3
    <3>5. t \in [1 .. Len(list) -> S \cup {new}] BY <3>2, <3>3, <3>4
    <3>6. t \in Seq(S \cup {new}) /\ Len(t) = Len(list) BY <3>3, <3>5
    <3>7. QED BY <3>1, <3>2, <3>4, <3>6
  <2>4. \A i \in 1 .. Len(modules) :
          modules'[i] = modules[i] \/ modules'[i] = Filled(authored[i], answer)
    BY <2>2, <2>3
  <2>5. \A i \in 1 .. Len(modules) : IsModule(modules'[i]) BY <1>3, <2>4, FilledKeeps
  <2>6. AreModules(modules') BY <2>3, <2>5 DEF AreModules
  <2>7. QED BY <1>3, <2>3, <2>4, <2>6
<1>6. QED BY <1>4, <1>5

\* The list with what it shows; or the list as it was, refused.
LEMMA ShowStep ==
    ASSUME ModulesKept, ResolveDisplay
    PROVE  /\ AreModules(modules') /\ Len(modules') = Len(modules) /\ stage = "ready"
           /\ \A i \in 1 .. Len(modules) :
                \/ modules'[i] = modules[i]
                \/ \E d : modules'[i]
                            = [modules[i] EXCEPT !.metadata = Put(modules[i].metadata, "display", d)]
           /\ \/ /\ shown' = "yes" /\ stage' = stage
                 /\ \A i \in 1 .. Len(modules) : Usable(modules'[i], bound')
              \/ /\ shown' = "refused" /\ stage' = "failed"
                 /\ \E i \in 1 .. Len(modules) : Unmendable(modules'[i], bound')
<1>1. PICK sources, map :
        /\ sources \in BindingSources /\ map = BindingMap(sources) /\ bound' = map
        /\ IF \A i \in 1 .. Len(modules) : Acceptable(McpAlias(modules[i], EntryOf(modules[i], map)))
           THEN /\ shown' = "yes" /\ stage' = stage
                /\ modules' = [i \in 1 .. Len(modules) |->
                       [modules[i] EXCEPT !.metadata =
                           Put(modules[i].metadata, "display",
                               DisplayOf(modules[i], EntryOf(modules[i], map)))]]
           ELSE shown' = "refused" /\ stage' = "failed" /\ modules' = modules
  BY DEF ResolveDisplay, Goto
<1>2. stage = "ready" BY DEF ResolveDisplay
<1>3. /\ Len(modules) \in Nat /\ AreModules(modules)
      /\ \A i \in 1 .. Len(modules) : IsModule(modules[i])
  BY DEF ModulesKept, AreModules
<1>4. CASE \A i \in 1 .. Len(modules) :
             Acceptable(McpAlias(modules[i], EntryOf(modules[i], map)))
  <2> DEFINE new(i) == [modules[i] EXCEPT !.metadata =
                           Put(modules[i].metadata, "display",
                               DisplayOf(modules[i], EntryOf(modules[i], map)))]
  <2>1. shown' = "yes" /\ stage' = stage /\ modules' = [i \in 1 .. Len(modules) |-> new(i)]
    BY <1>1, <1>4
  <2>2. \A i \in 1 .. Len(modules) : IsModule(new(i)) BY <1>3, MetadataPut
  <2>3. \A i \in 1 .. Len(modules) : Usable(new(i), map) BY <1>3, <1>4, DisplayUsable
  <2>4. \A i \in 1 .. Len(modules) :
          \E d : new(i) = [modules[i] EXCEPT !.metadata = Put(modules[i].metadata, "display", d)]
    OBVIOUS
  <2> HIDE DEF new
  <2>5. (\A i \in 1 .. Len(modules) : modules'[i] = new(i)) /\ Len(modules') = Len(modules)
        /\ \E S : modules' \in Seq(S)
    <3>1. modules' \in [1 .. Len(modules) -> {new(i) : i \in 1 .. Len(modules)}] BY <2>1
    <3>2. modules' \in Seq({new(i) : i \in 1 .. Len(modules)}) BY <1>3, <3>1
    <3>3. DOMAIN modules' = 1 .. Len(modules) /\ \A i \in 1 .. Len(modules) : modules'[i] = new(i)
      BY <2>1
    <3>4. Len(modules') = Len(modules)
      <4>1. PICK t, n : t = modules' /\ n = Len(modules) OBVIOUS
      <4>2. n \in Nat /\ DOMAIN t = 1 .. n /\ t \in Seq({new(i) : i \in 1 .. Len(modules)})
        BY <1>3, <3>2, <3>3, <4>1
      <4>3. Len(t) = n BY <4>2
      <4>4. QED BY <4>1, <4>3
    <3>5. QED BY <3>2, <3>3, <3>4
  <2>6. AreModules(modules') BY <2>2, <2>5 DEF AreModules
  <2>7. QED BY <1>1, <1>2, <2>1, <2>3, <2>4, <2>5, <2>6
<1>5. CASE ~\A i \in 1 .. Len(modules) :
              Acceptable(McpAlias(modules[i], EntryOf(modules[i], map)))
  <2>1. shown' = "refused" /\ stage' = "failed" /\ modules' = modules BY <1>1, <1>5
  <2>2. PICK i \in 1 .. Len(modules) : ~Acceptable(McpAlias(modules[i], EntryOf(modules[i], map)))
    BY <1>5
  <2>3. IsEntry(EntryOf(modules[i], map)) BY <1>1, EntriesTyped
  <2>4. Unmendable(modules[i], map) BY <1>3, <2>2, <2>3, RefusedUnmendable
  <2>5. QED BY <1>1, <1>2, <1>3, <2>1, <2>4
<1>6. QED BY <1>4, <1>5

\* The other steps leave the modules alone.
LEMMA OtherSteps ==
    ASSUME [StagesNext]_<<stage, modules, stageVars>>, ~AskNext, ~ResolveDisplay
    PROVE  /\ modules' = modules /\ displayVars' = displayVars
           /\ \/ UNCHANGED <<stage, enhanceVars>>
              \/ stage = "ready" /\ stage' = "enhance" /\ authored' = modules /\ enhanced'
              \/ stage = "enhance" /\ stage' = "ready" /\ UNCHANGED enhanceVars
              \/ stage \in {"ready", "write"} /\ stage' # "enhance" /\ UNCHANGED enhanceVars
<1>1. CASE UNCHANGED <<stage, modules, stageVars>> BY <1>1 DEF stageVars
<1>2. CASE Enhancing BY <1>2 DEF Enhancing, StartEnhance, EndEnhance, Goto
<1>3. CASE Displaying BY <1>3 DEF Displaying
<1>4. CASE Writing
  BY <1>4 DEF Writing, StartWrite, WriteStub, WriteFails, EndWrite, Goto
<1>5. QED BY <1>1, <1>2, <1>3, <1>4 DEF StagesNext

\* Every step keeps the modules' number and ids.
LEMMA IdsStay ==
    ASSUME ModulesKept, [StagesNext]_<<stage, modules, stageVars>>
    PROVE  AreModules(modules') /\ SameIds(modules', modules)
<1>1. CASE AskNext
  <2>1. /\ AreModules(modules') /\ Len(modules') = Len(modules) /\ Len(authored) = Len(modules)
        /\ \A i \in 1 .. Len(modules) :
             modules'[i] = modules[i] \/ \E answer : modules'[i] = Filled(authored[i], answer)
    BY <1>1, AskStep
  <2>2. \A i \in 1 .. Len(modules) :
          IsModule(authored[i]) /\ authored[i].module_id = modules[i].module_id
    BY <1>1, <2>1 DEF ModulesKept, AreModules, SameIds, AskNext
  <2>3. ASSUME NEW i \in 1 .. Len(modules) PROVE modules'[i].module_id = modules[i].module_id
    <3>1. \A answer : Filled(authored[i], answer).module_id = authored[i].module_id
      BY <2>2, FilledKeeps DEF Kept
    <3>2. QED BY <2>1, <2>2, <3>1
  <2>4. QED BY <2>1, <2>3 DEF SameIds
<1>2. CASE ResolveDisplay
  <2>1. /\ AreModules(modules') /\ Len(modules') = Len(modules)
        /\ \A i \in 1 .. Len(modules) :
             \/ modules'[i] = modules[i]
             \/ \E d : modules'[i]
                         = [modules[i] EXCEPT !.metadata = Put(modules[i].metadata, "display", d)]
    BY <1>2, ShowStep
  <2>2. "module_id" \in ModuleFields \ {"metadata"} /\ "display" # "suggested_alias"
    BY DEF ModuleFields
  <2>3. \A i \in 1 .. Len(modules) : IsModule(modules[i]) BY DEF ModulesKept, AreModules
  <2>4. ASSUME NEW i \in 1 .. Len(modules) PROVE modules'[i].module_id = modules[i].module_id
    <3>1. \A d : [modules[i] EXCEPT !.metadata = Put(modules[i].metadata, "display", d)].module_id
                   = modules[i].module_id
      BY <2>2, <2>3, MetadataPut
    <3>2. QED BY <2>1, <3>1
  <2>5. QED BY <2>1, <2>4 DEF SameIds
<1>3. CASE ~AskNext /\ ~ResolveDisplay
  <2>1. modules' = modules BY <1>3, OtherSteps
  <2>2. QED BY <2>1 DEF SameIds, ModulesKept
<1>4. QED BY <1>1, <1>2, <1>3

\* Every step of a stage leaves modules in their places.
LEMMA ModulesStep == ModulesKept /\ [StagesNext]_<<stage, modules, stageVars>> => ModulesKept'
<1> SUFFICES ASSUME ModulesKept, [StagesNext]_<<stage, modules, stageVars>> PROVE ModulesKept'
  OBVIOUS
<1>1. AreModules(modules') /\ SameIds(modules', modules) BY IdsStay
<1>2. CASE AskNext
  <2>1. stage' = stage /\ authored' = authored /\ enhanced' = enhanced BY <1>2 DEF AskNext
  <2>2. QED BY <1>1, <2>1 DEF ModulesKept, SameIds
<1>3. CASE ResolveDisplay
  <2>1. (stage' = stage \/ stage' = "failed") /\ authored' = authored /\ enhanced' = enhanced
    <3>1. stage' = stage \/ stage' = "failed" BY <1>3 DEF ResolveDisplay, Goto
    <3>2. UNCHANGED enhanceVars
      <4>1. stage = "ready" /\ shown = "no" /\ shown' # "no" BY <1>3 DEF ResolveDisplay
      <4>2. QED BY <4>1 DEF StagesNext, Enhancing, Displaying, Writing, displayVars, stageVars
    <3>3. QED BY <3>1, <3>2 DEF enhanceVars
  <2>2. QED BY <1>1, <2>1 DEF ModulesKept, SameIds
<1>4. CASE ~AskNext /\ ~ResolveDisplay
  <2>1. modules' = modules BY <1>4, OtherSteps
  <2>2. \/ UNCHANGED <<stage, enhanceVars>>
        \/ stage = "ready" /\ stage' = "enhance" /\ authored' = modules /\ enhanced'
        \/ stage = "enhance" /\ stage' = "ready" /\ UNCHANGED enhanceVars
        \/ stage \in {"ready", "write"} /\ stage' # "enhance" /\ UNCHANGED enhanceVars
    BY <1>4, OtherSteps
  <2>3. CASE stage = "ready" /\ stage' = "enhance" /\ authored' = modules /\ enhanced'
    BY <1>1, <2>1, <2>3 DEF ModulesKept, SameIds
  <2>4. CASE UNCHANGED enhanceVars /\ (stage' = stage \/ stage' # "enhance")
    <3>1. authored' = authored /\ enhanced' = enhanced BY <2>4 DEF enhanceVars
    <3>2. QED BY <2>1, <2>4, <3>1 DEF ModulesKept
  <2>5. QED BY <2>2, <2>3, <2>4
<1>5. QED BY <1>2, <1>3, <1>4

\* One more thing a module shows is nothing its author wrote.
LEMMA KeptShown ==
    ASSUME NEW before, NEW after, IsModule(after), NEW limit, Kept(before, after, limit), NEW d
    PROVE  Kept(before, [after EXCEPT !.metadata = Put(after.metadata, "display", d)], limit)
<1>1. PICK shows : shows = [after EXCEPT !.metadata = Put(after.metadata, "display", d)] OBVIOUS
<1>2. /\ shows.metadata = Put(after.metadata, "display", d)
      /\ \A field \in ModuleFields \ {"metadata"} : shows[field] = after[field]
  <2>1. shows.metadata = Put(after.metadata, "display", d) BY <1>1, MetadataPut
  <2>2. \A field \in ModuleFields \ {"metadata"} : shows[field] = after[field] BY <1>1, HasFields
  <2>3. QED BY <2>1, <2>2
<1>3. /\ shows.module_id = after.module_id /\ shows.target = after.target
      /\ shows.warnings = after.warnings /\ shows.description = after.description
      /\ shows.documentation = after.documentation /\ shows.input_schema = after.input_schema
      /\ shows.annotations = after.annotations
  BY <1>2 DEF ModuleFields
<1>4. /\ "x-ai-confidence" \in DOMAIN shows.metadata <=> "x-ai-confidence" \in DOMAIN after.metadata
      /\ "x-ai-confidence" \in DOMAIN after.metadata =>
           shows.metadata["x-ai-confidence"] = after.metadata["x-ai-confidence"]
  BY <1>2 DEF Put
<1>5. (IF "x-ai-confidence" \in DOMAIN shows.metadata
       THEN shows.metadata["x-ai-confidence"] ELSE <<>>)
        = (IF "x-ai-confidence" \in DOMAIN after.metadata
           THEN after.metadata["x-ai-confidence"] ELSE <<>>)
  BY <1>4
<1>6. Kept(before, shows, limit) BY <1>3, <1>5, Zenon DEF Kept
<1>7. QED BY <1>1, <1>6

\* Every step of a stage leaves what the author wrote.
LEMMA AuthorsStep ==
    ModulesKept /\ AuthorsKept /\ [StagesNext]_<<stage, modules, stageVars>> => AuthorsKept'
<1> SUFFICES ASSUME ModulesKept, AuthorsKept, [StagesNext]_<<stage, modules, stageVars>>, enhanced',
                    NEW i \in 1 .. Len(authored')
             PROVE  Kept(authored'[i], modules'[i], threshold')
  BY DEF AuthorsKept
<1>1. \A m, limit : Kept(m, m, limit) BY Zenon DEF Kept
<1>2. enhanced => i \in 1 .. Len(modules) \/ Len(authored') # Len(authored)
  BY DEF ModulesKept, SameIds
<1>3. \A k \in 1 .. Len(modules) : IsModule(modules[k]) BY DEF ModulesKept, AreModules
<1>4. CASE AskNext
  <2>1. authored' = authored /\ threshold' = threshold /\ enhanced BY <1>4 DEF AskNext
  <2>2. i \in 1 .. Len(modules) /\ IsModule(authored[i])
    BY <1>2, <2>1 DEF ModulesKept, AreModules
  <2>3. modules'[i] = modules[i] \/ \E answer : modules'[i] = Filled(authored[i], answer)
    BY <1>4, <2>2, AskStep
  <2>4. Kept(authored[i], modules[i], threshold) BY <2>1 DEF AuthorsKept
  <2>5. \A answer : Kept(authored[i], Filled(authored[i], answer), threshold) BY <2>2, FilledKeeps
  <2>6. QED BY <2>1, <2>3, <2>4, <2>5
<1>5. CASE ResolveDisplay
  <2>1. authored' = authored /\ threshold' = threshold /\ enhanced
    <3>1. stage = "ready" /\ shown = "no" /\ shown' # "no" BY <1>5 DEF ResolveDisplay
    <3>2. QED BY <3>1
            DEF StagesNext, Enhancing, Displaying, Writing, displayVars, stageVars, enhanceVars
  <2>2. i \in 1 .. Len(modules) /\ IsModule(modules[i]) BY <1>2, <1>3, <2>1
  <2>3. \/ modules'[i] = modules[i]
        \/ \E d : modules'[i] = [modules[i] EXCEPT !.metadata = Put(modules[i].metadata, "display", d)]
    BY <1>5, <2>2, ShowStep
  <2>4. Kept(authored[i], modules[i], threshold) BY <2>1 DEF AuthorsKept
  <2>5. \A d : Kept(authored[i],
                    [modules[i] EXCEPT !.metadata = Put(modules[i].metadata, "display", d)], threshold)
    BY <2>2, <2>4, KeptShown
  <2>6. QED BY <2>1, <2>3, <2>4, <2>5
<1>6. CASE ~AskNext /\ ~ResolveDisplay
  <2>1. modules' = modules BY <1>6, OtherSteps
  <2>2. authored' = modules \/ UNCHANGED enhanceVars BY <1>6, OtherSteps
  <2>3. CASE authored' = modules BY <1>1, <2>1, <2>3
  <2>4. CASE UNCHANGED enhanceVars
    <3>1. authored' = authored /\ threshold' = threshold /\ enhanced BY <2>4 DEF enhanceVars
    <3>2. QED BY <2>1, <3>1 DEF AuthorsKept
  <2>5. QED BY <2>2, <2>3, <2>4
<1>7. QED BY <1>4, <1>5, <1>6

\* What a module shows stays when gaps are filled.
LEMMA FilledUsable ==
    ASSUME NEW m, IsModule(m), NEW map, Usable(m, map), NEW answer
    PROVE  Usable(Filled(m, answer), map)
<1>1. PICK after : after = Filled(m, answer) OBVIOUS
<1>2. "display" \in DOMAIN m.metadata \ {"x-generated-by", "x-ai-confidence"} BY DEF Usable
<1>3. /\ "display" \in DOMAIN after.metadata /\ after.metadata["display"] = m.metadata["display"]
  BY <1>1, <1>2, FilledKeeps
<1>4. after.module_id = m.module_id BY <1>1, FilledKeeps DEF Kept
<1>5. EntryOf(after, map) = EntryOf(m, map) BY <1>4 DEF EntryOf
<1>6. Usable(after, map) BY <1>3, <1>5, Zenon DEF Usable
<1>7. QED BY <1>1, <1>6

\* Every step of a stage leaves the names usable.
LEMMA NamesStep ==
    ModulesKept /\ NamesShown /\ [StagesNext]_<<stage, modules, stageVars>> => NamesShown'
<1> SUFFICES ASSUME ModulesKept, NamesShown, [StagesNext]_<<stage, modules, stageVars>>
             PROVE  NamesShown'
  OBVIOUS
<1>1. CASE AskNext
  <2>1. stage = "enhance" /\ stage' = stage /\ authored' = authored BY <1>1 DEF AskNext
  <2>2. shown' = shown /\ bound' = bound
    BY <1>1, <2>1 DEF StagesNext, Enhancing, Displaying, Writing, displayVars, stageVars,
                       ResolveDisplay, StartWrite, WriteStub, WriteFails, EndWrite
  <2>3. /\ Len(modules') = Len(modules) /\ Len(authored) = Len(modules)
        /\ \A i \in 1 .. Len(modules) :
             modules'[i] = modules[i] \/ \E answer : modules'[i] = Filled(authored[i], answer)
    BY <1>1, AskStep
  <2>4. ASSUME shown = "yes", NEW i \in 1 .. Len(modules) PROVE Usable(modules'[i], bound)
    <3>1. /\ Usable(modules[i], bound) /\ Usable(authored[i], bound) /\ IsModule(authored[i])
      BY <2>1, <2>3, <2>4 DEF NamesShown, ModulesKept, AreModules
    <3>2. \A answer : Usable(Filled(authored[i], answer), bound) BY <3>1, FilledUsable
    <3>3. QED BY <2>3, <3>1, <3>2
  <2>5. shown # "refused" BY <2>1 DEF NamesShown
  <2>6. QED BY <2>1, <2>2, <2>3, <2>4, <2>5 DEF NamesShown
<1>2. CASE ResolveDisplay
  <2>1. /\ Len(modules') = Len(modules) /\ stage = "ready"
        /\ \/ /\ shown' = "yes" /\ stage' = stage
              /\ \A i \in 1 .. Len(modules) : Usable(modules'[i], bound')
           \/ /\ shown' = "refused" /\ stage' = "failed"
              /\ \E i \in 1 .. Len(modules) : Unmendable(modules'[i], bound')
    BY <1>2, ShowStep
  <2>2. QED BY <2>1 DEF NamesShown
<1>3. CASE ~AskNext /\ ~ResolveDisplay
  <2>1. modules' = modules /\ shown' = shown /\ bound' = bound BY <1>3, OtherSteps DEF displayVars
  <2>2. \/ UNCHANGED <<stage, enhanceVars>>
        \/ stage = "ready" /\ stage' = "enhance" /\ authored' = modules
        \/ stage = "enhance" /\ stage' = "ready"
        \/ stage \in {"ready", "write"} /\ stage' # "enhance"
    BY <1>3, OtherSteps
  <2>3. CASE UNCHANGED <<stage, enhanceVars>>
    BY <2>1, <2>3 DEF NamesShown, enhanceVars
  <2>4. CASE stage = "ready" /\ stage' = "enhance" /\ authored' = modules
    BY <2>1, <2>4 DEF NamesShown
  <2>5. CASE stage \in {"enhance", "ready", "write"} /\ stage' # "enhance"
    BY <2>1, <2>5 DEF NamesShown
  <2>6. QED BY <2>2, <2>3, <2>4, <2>5
<1>4. QED BY <1>1, <1>2, <1>3

\* Every step of a stage leaves the ids distinct.
LEMMA DistinctStep ==
    ModulesKept /\ IdsDistinct /\ [StagesNext]_<<stage, modules, stageVars>> => IdsDistinct'
BY IdsStay DEF IdsDistinct, SameIds

\* Without empty segments, as long as the ids are the same.
LEMMA SegmentsStay ==
    ASSUME NEW list, NEW other, SameIds(list, other)
    PROVE  WithoutEmptySegments(list) <=> WithoutEmptySegments(other)
BY Zenon DEF SameIds, WithoutEmptySegments

\* A stub takes a path no other stub has.
LEMMA StubWritten ==
    ASSUME ModulesKept, IdsDistinct, StubsHold, WriteStub
    PROVE  StubsHold'
<1> DEFINE n == Len(written) + 1
<1>1. PICK S, R : modules \in Seq(S) /\ written \in Seq(R) BY DEF ModulesKept, AreModules, StubsHold
<1>2. n \in 1 .. Len(modules) /\ Len(written) \in Nat /\ Len(modules) \in Nat /\ modules' = modules
  BY <1>1 DEF WriteStub
<1>3. PICK id, path : id = modules[n].module_id /\ path = ModulePath(id) OBVIOUS
<1>4. PICK stub : stub = Stub(modules[n]) /\ stub.module_id = id
  <2>1. Stub(modules[n]).module_id = modules[n].module_id BY DEF Stub
  <2>2. QED BY <1>3, <2>1
<1>5. PICK result : result = [module_id |-> id, path |-> path] OBVIOUS
<1>6. files' = Put(files, path, stub) /\ written' = Append(written, result)
  BY <1>3, <1>4, <1>5 DEF WriteStub
<1> HIDE DEF n
<1>7. /\ written' \in Seq(R \cup {result}) /\ Len(written') = n
      /\ \A i \in 1 .. Len(written) : written'[i] = written[i]
      /\ written'[n] = result
  <2>1. /\ Append(written, result) \in Seq(R \cup {result})
        /\ Len(Append(written, result)) = Len(written) + 1
        /\ \A i \in DOMAIN written : Append(written, result)[i] = written[i]
        /\ Append(written, result)[Len(written) + 1] = result
    BY <1>1, AppendOne
  <2>2. DOMAIN written = 1 .. Len(written) BY <1>1
  <2>3. QED BY <1>6, <2>1, <2>2 DEF n
<1>8. 1 .. n = (1 .. Len(written)) \cup {n} /\ 1 .. Len(written) \subseteq 1 .. Len(modules)
      /\ n \notin 1 .. Len(written) /\ n <= Len(modules)
  BY <1>2 DEF n
<1>9. \A i \in 1 .. n : /\ written'[i].module_id = modules[i].module_id
                        /\ written'[i].path = ModulePath(modules[i].module_id)
  <2>1. \A i \in 1 .. Len(written) : /\ written[i].module_id = modules[i].module_id
                                     /\ written[i].path = ModulePath(modules[i].module_id)
    BY DEF StubsHold
  <2>2. result.module_id = modules[n].module_id /\ result.path = ModulePath(modules[n].module_id)
    BY <1>3, <1>5
  <2>3. QED BY <1>7, <1>8, <2>1, <2>2
<1>10. ASSUME WithoutEmptySegments(modules)
       PROVE  /\ DOMAIN files' = {written'[i].path : i \in 1 .. n}
              /\ \A i \in 1 .. n : files'[written'[i].path].module_id = written'[i].module_id
              /\ IsFiniteSet(DOMAIN files') /\ Cardinality(DOMAIN files') = n
  <2>1. /\ DOMAIN files = {written[i].path : i \in 1 .. Len(written)}
        /\ \A i \in 1 .. Len(written) : files[written[i].path].module_id = written[i].module_id
        /\ IsFiniteSet(DOMAIN files) /\ Cardinality(DOMAIN files) = Len(written)
    BY <1>10 DEF StubsHold
  <2>2. /\ DOMAIN files' = DOMAIN files \cup {path} /\ files'[path] = stub
        /\ \A p \in DOMAIN files : p # path => files'[p] = files[p]
    BY <1>6 DEF Put
  <2>3. ASSUME NEW i \in 1 .. Len(written) PROVE written[i].path # path
    <3> SUFFICES ASSUME written[i].path = path PROVE FALSE OBVIOUS
    <3>1. PICK other : other = modules[i].module_id OBVIOUS
    <3>2. i \in 1 .. Len(modules) /\ i # n BY <1>8
    <3>3. id \in Seq(STRING) /\ other \in Seq(STRING)
      BY <1>2, <1>3, <3>1, <3>2 DEF ModulesKept, AreModules, IsModule
    <3>4. /\ \A j \in 1 .. Len(Split(id, ".")) : Split(id, ".")[j] # <<>>
          /\ \A j \in 1 .. Len(Split(other, ".")) : Split(other, ".")[j] # <<>>
      BY <1>2, <1>3, <1>10, <3>1, <3>2 DEF WithoutEmptySegments
    <3>5. ModulePath(id) = ModulePath(other)
      BY <1>3, <3>1 DEF StubsHold
    <3>6. id = other BY <3>3, <3>4, <3>5, PathsDiffer
    <3>7. QED BY <1>2, <1>3, <3>1, <3>2, <3>6 DEF IdsDistinct
  <2>4. path \notin DOMAIN files BY <2>1, <2>3
  <2>5. written'[n].path = path /\ written'[n].module_id = id BY <1>5, <1>7
  <2>6. DOMAIN files' = {written'[i].path : i \in 1 .. n}
    <3>1. \A i \in 1 .. Len(written) : written'[i].path = written[i].path BY <1>7
    <3>2. \A i \in 1 .. Len(written) : i \in 1 .. n BY <1>8
    <3>3. n \in 1 .. n /\ \A i \in 1 .. n : i = n \/ i \in 1 .. Len(written) BY <1>8
    <3>4. ASSUME NEW p \in DOMAIN files' PROVE \E i \in 1 .. n : p = written'[i].path
      BY <2>1, <2>2, <2>5, <3>1, <3>2, <3>3, <3>4
    <3>5. ASSUME NEW i \in 1 .. n PROVE written'[i].path \in DOMAIN files'
      BY <2>1, <2>2, <2>5, <3>1, <3>3, <3>5
    <3>6. QED BY <3>4, <3>5
  <2>7. \A i \in 1 .. n : files'[written'[i].path].module_id = written'[i].module_id
    <3> SUFFICES ASSUME NEW i \in 1 .. n
                 PROVE  files'[written'[i].path].module_id = written'[i].module_id
      OBVIOUS
    <3>1. CASE i = n BY <1>4, <2>2, <2>5, <3>1
    <3>2. CASE i # n
      <4>1. i \in 1 .. Len(written) BY <1>8, <3>2
      <4>2. written'[i] = written[i] /\ written[i].path # path /\ written[i].path \in DOMAIN files
        BY <1>7, <2>1, <2>3, <4>1
      <4>3. files'[written[i].path] = files[written[i].path] BY <2>2, <4>2
      <4>4. QED BY <2>1, <4>1, <4>2, <4>3
    <3>3. QED BY <3>1, <3>2
  <2>8. IsFiniteSet(DOMAIN files') /\ Cardinality(DOMAIN files') = n
    <3>1. PICK names : names = DOMAIN files OBVIOUS
    <3>2. IsFiniteSet(names \cup {path}) /\ Cardinality(names \cup {path}) = Cardinality(names) + 1
      BY <2>1, <2>4, <3>1, FS_AddElement
    <3>3. QED BY <2>1, <2>2, <3>1, <3>2 DEF n
  <2>9. QED BY <2>6, <2>7, <2>8
<1>11. Len(written') <= Len(modules) /\ \E T : written' \in Seq(T) BY <1>7, <1>8
<1>12. QED BY <1>2, <1>7, <1>9, <1>10, <1>11 DEF StubsHold

\* Every step of a stage leaves the stubs their modules.
LEMMA StubsStep ==
    ModulesKept /\ IdsDistinct /\ StubsHold /\ [StagesNext]_<<stage, modules, stageVars>> => StubsHold'
<1> SUFFICES ASSUME ModulesKept, IdsDistinct, StubsHold,
                    [StagesNext]_<<stage, modules, stageVars>>
             PROVE  StubsHold'
  OBVIOUS
<1>1. CASE WriteStub BY <1>1, StubWritten
<1>2. CASE ~WriteStub
  <2>1. files' = files /\ written' = written
    BY <1>2 DEF StagesNext, Enhancing, Displaying, Writing, StartWrite, WriteFails, EndWrite,
                writerVars, stageVars
  <2>2. SameIds(modules', modules) BY IdsStay
  <2>3. WithoutEmptySegments(modules') <=> WithoutEmptySegments(modules) BY <2>2, SegmentsStay
  <2>4. /\ \E S : written \in Seq(S)
        /\ Len(written) <= Len(modules)
        /\ \A i \in 1 .. Len(written) :
             /\ written[i].module_id = modules[i].module_id
             /\ written[i].path = ModulePath(modules[i].module_id)
    BY DEF StubsHold
  <2>5. \A i \in 1 .. Len(written) : i \in 1 .. Len(modules')
    BY <2>2, <2>4 DEF SameIds, ModulesKept, AreModules
  <2>6. \A i \in 1 .. Len(written) : modules'[i].module_id = modules[i].module_id
    BY <2>2, <2>5 DEF SameIds
  <2>7. Len(modules') = Len(modules) BY <2>2 DEF SameIds
  <2>8. QED BY <2>1, <2>3, <2>4, <2>6, <2>7 DEF StubsHold
<1>3. QED BY <1>1, <1>2

------------------------------------------------------------------------------
(* The stages: the theorems *)

StagesInv == ModulesKept /\ AuthorsKept /\ NamesShown

\* The stages start with all of it.
LEMMA StagesStart == StagesInit => StagesInv /\ StubsHold
<1> SUFFICES ASSUME StagesInit PROVE StagesInv /\ StubsHold OBVIOUS
<1>1. /\ stage = "ready" /\ enhanced = FALSE /\ shown = "no" /\ authored = <<>>
      /\ written = <<>> /\ files = <<>>
      /\ modules \in Seq(ToSet(modules)) /\ \A i \in 1 .. Len(modules) : IsModule(modules[i])
  BY DEF StagesInit, StagesIdle, EnhanceIdle, DisplayIdle, WriterIdle
<1>2. PICK empty : empty = <<>> /\ empty \in Seq({}) /\ Len(empty) = 0 /\ DOMAIN empty = {}
  <2>1. <<>> \in Seq({}) /\ Len(<<>>) = 0 OBVIOUS
  <2>2. PICK empty \in Seq({}) : empty = <<>> /\ Len(empty) = 0 BY <2>1
  <2>3. DOMAIN empty = 1 .. Len(empty) OBVIOUS
  <2>4. DOMAIN empty = {} BY <2>2, <2>3
  <2>5. QED BY <2>2, <2>4
<1>3. ModulesKept
  <2>1. AreModules(modules) BY <1>1 DEF AreModules
  <2>2. AreModules(authored) BY <1>1, <1>2 DEF AreModules
  <2>3. QED BY <1>1, <2>1, <2>2 DEF ModulesKept
<1>4. AuthorsKept /\ NamesShown BY <1>1 DEF AuthorsKept, NamesShown
<1>5. StubsHold
  <2>1. 1 .. Len(written) = {} /\ Len(written) = 0 /\ \E S : written \in Seq(S) BY <1>1, <1>2
  <2>2. DOMAIN files = {} BY <1>1, <1>2
  <2>3. IsFiniteSet(DOMAIN files) /\ Cardinality(DOMAIN files) = Len(written)
    BY <2>1, <2>2, FS_EmptySet
  <2>4. Len(written) <= Len(modules) BY <1>1, <2>1
  <2>5. QED BY <2>1, <2>2, <2>3, <2>4 DEF StubsHold
<1>6. QED BY <1>3, <1>4, <1>5 DEF StagesInv

\* So it holds throughout.
LEMMA StagesInvariant == StagesSpec => []StagesInv
<1>1. StagesInit => StagesInv BY StagesStart
<1>2. StagesInv /\ [StagesNext]_<<stage, modules, stageVars>> => StagesInv'
  BY ModulesStep, AuthorsStep, NamesStep DEF StagesInv
<1>3. QED BY <1>1, <1>2, PTL DEF StagesSpec

(* The language model writes only where the author wrote nothing, and what it wrote is named   *)
(* with a confidence that reaches the threshold: for every list of modules, whatever a model   *)
(* answers, or does not, and whatever stages run before and after (enhance, enhance_module,    *)
(* identify_gaps).                                                                             *)
THEOREM AuthorsWordStands == StagesSpec => []AuthoredKept
<1>1. StagesInv => AuthoredKept
  <2> SUFFICES ASSUME StagesInv, enhanced PROVE AuthoredKept BY DEF AuthoredKept
  <2>1. Len(modules) = Len(authored) BY DEF StagesInv, ModulesKept, SameIds
  <2>2. \A i \in 1 .. Len(authored) : Kept(authored[i], modules[i], threshold)
    BY DEF StagesInv, AuthorsKept
  <2>3. QED BY <2>1, <2>2, Zenon DEF AuthoredKept, Kept
<1>2. QED BY <1>1, StagesInvariant, PTL

(* Every tool a display names can be called by that name, and a list is refused only for a     *)
(* name that no replacing of characters could mend: for every list and all bindings, also when *)
(* gaps are filled after the names are given (resolve, sanitize_mcp_alias, validate_aliases).  *)
THEOREM EveryToolHasAName == StagesSpec => []ToolNamesUsable
<1>1. StagesInv => ToolNamesUsable
  <2> SUFFICES ASSUME StagesInv PROVE ToolNamesUsable OBVIOUS
  <2>1. shown = "yes" => \A i \in 1 .. Len(modules) : Usable(modules[i], bound)
    BY DEF StagesInv, NamesShown
  <2>2. shown = "refused" => \E i \in 1 .. Len(modules) : Unmendable(modules[i], bound)
    BY DEF StagesInv, NamesShown
  <2>3. QED BY <2>1, <2>2, Zenon DEF ToolNamesUsable, Usable, Unmendable
<1>2. QED BY <1>1, StagesInvariant, PTL

(* No module takes the stub of another, whatever happens to the list before and after the      *)
(* stubs are written, if the ids are distinct, as deduplicate_ids leaves them                  *)
(* (NoTwoModulesShareAnId), and none has an empty segment (write, module_path).                *)
THEOREM StubsAreTheirModules == IdsDistinct /\ StagesSpec => []FilesHoldTheirModule
<1>1. IdsDistinct /\ StagesInit => StagesInv /\ StubsHold /\ IdsDistinct BY StagesStart
<1>2. StagesInv /\ StubsHold /\ IdsDistinct /\ [StagesNext]_<<stage, modules, stageVars>>
        => (StagesInv /\ StubsHold /\ IdsDistinct)'
  BY ModulesStep, AuthorsStep, NamesStep, StubsStep, DistinctStep DEF StagesInv
<1>3. StubsHold => FilesHoldTheirModule
  <2> SUFFICES ASSUME StubsHold, WithoutEmptySegments(modules)
               PROVE  /\ \A i \in 1 .. Len(written) :
                           /\ written[i].path \in DOMAIN files
                           /\ files[written[i].path].module_id = written[i].module_id
                      /\ Cardinality(DOMAIN files) = Len(written)
    BY Zenon DEF FilesHoldTheirModule
  <2>1. QED BY DEF StubsHold
<1>4. QED BY <1>1, <1>2, <1>3, PTL DEF StagesSpec
------------------------------------------------------------------------------
(* Scan and stages: the specification and its invariant                    *)

\* A list is scanned first; then the stages come in any order.
PipelineInit == ScannerInit /\ StagesIdle

PipelineNext ==
    \/ ScannerNext /\ UNCHANGED stageVars
    \/ StagesNext /\ UNCHANGED <<dedupVars, scanVars>>

PipelineSpec == PipelineInit /\ [][PipelineNext]_<<stage, modules, dedupVars, scanVars, stageVars>>

\* The ids of a list are made of the characters normalize_module_id leaves.
IdsSpelled(list) == \A i \in 1 .. Len(list) : list[i].module_id \in Seq(IdCharacters)

\* What IllegalIdsWarned says of one module.
WarnedOf(m) ==
    \A j \in 1 .. Len(Split(m.module_id, ".")) :
        ~LegalSegment(Split(m.module_id, ".")[j]) =>
            \E w \in m.warnings : w[1] = "illegal" /\ w[2] = m.module_id

AllWarned(list) == \A i \in 1 .. Len(list) : WarnedOf(list[i])

\* Ids are spelled from the first module found to the last stage, and warned of once the scan
\* has ended; what the enhancer was given are the modules it works on.
PipelineInv ==
    /\ DedupInv /\ Listed(modules) /\ Listed(found)
    /\ stage \in {"idle", "scan"} => modules = <<>> /\ pending = <<>>
    /\ stage = "idle" => document = None
    /\ stage = "enhance" => Listed(authored) /\ SameIds(authored, modules)
    /\ document # None =>
         /\ IdsSpelled(found) /\ IdsSpelled(pending) /\ IdsSpelled(modules)
         /\ stage \in {"ready", "enhance", "write", "shown"} => AllWarned(modules)
         /\ stage = "enhance" => AllWarned(authored)

------------------------------------------------------------------------------
(* Scan and stages: lists of modules                                       *)

\* The empty list is a list of modules.
LEMMA NothingListed == Listed(<<>>) /\ IdsSpelled(<<>>) /\ Len(<<>>) = 0
<1>1. <<>> \in Seq({}) /\ Len(<<>>) = 0 OBVIOUS
<1>2. QED BY <1>1 DEF Listed, IdsSpelled

\* A list with one module more.
LEMMA ListedMore ==
    ASSUME NEW list, Listed(list), NEW m, {"module_id", "warnings"} \subseteq DOMAIN m
    PROVE  /\ Listed(Append(list, m))
           /\ IdsSpelled(list) /\ m.module_id \in Seq(IdCharacters) => IdsSpelled(Append(list, m))
<1>1. PICK S : list \in Seq(S) BY DEF Listed
<1>2. PICK t, n : t = Append(list, m) /\ n = Len(list) OBVIOUS
<1>3. /\ n \in Nat /\ t \in Seq(S \cup {m}) /\ Len(t) = n + 1 /\ t[n + 1] = m
      /\ \A i \in 1 .. n : t[i] = list[i]
  BY <1>1, <1>2, AppendOne
<1>4. \A i \in 1 .. Len(t) : i = n + 1 \/ i \in 1 .. n BY <1>3
<1>5. Listed(t) BY <1>2, <1>3, <1>4 DEF Listed
<1>6. IdsSpelled(list) /\ m.module_id \in Seq(IdCharacters) => IdsSpelled(t)
  BY <1>2, <1>3, <1>4 DEF IdsSpelled
<1>7. QED BY <1>2, <1>5, <1>6

\* The modules a filter leaves are modules of the list.
LEMMA FilteredListed ==
    ASSUME NEW list, Listed(list)
    PROVE  Listed(FilterModules(list)) /\ (IdsSpelled(list) => IdsSpelled(FilterModules(list)))
<1> DEFINE s == [i \in 1 .. Len(list) |-> IF PassesFilters(list[i]) THEN <<list[i]>> ELSE <<>>]
<1>1. PICK S : list \in Seq(S) BY DEF Listed
<1>2. PICK n : n = Len(list) OBVIOUS
<1>3. n \in Nat /\ \A i \in 1 .. n : list[i] \in S BY <1>1, <1>2
<1>4. \A i \in 1 .. n : s[i] = <<list[i]>> \/ s[i] = <<>> BY <1>2
<1>5. s = [i \in 1 .. n |-> s[i]] BY <1>2
<1>6. FilterModules(list) = FlattenSeq(s) BY DEF FilterModules
<1> HIDE DEF s
<1>7. ASSUME NEW i \in 1 .. n PROVE s[i] \in Seq(S) /\ ToSet(s[i]) \subseteq {list[k] : k \in 1 .. n}
  <2>1. PICK x \in S : x = list[i] BY <1>3
  <2>2. <<x>> \in Seq(S) /\ ToSet(<<x>>) = {x} /\ <<>> \in Seq(S) /\ ToSet(<<>>) = {} BY DEF ToSet
  <2>3. x \in {list[k] : k \in 1 .. n} BY <2>1
  <2>4. s[i] = <<x>> \/ s[i] = <<>> BY <1>4, <2>1
  <2>5. QED BY <2>2, <2>3, <2>4
<1>8. s \in Seq(Seq(S)) /\ Len(s) = n BY <1>3, <1>5, <1>7
<1>9. PICK t : t = FlattenSeq(s) OBVIOUS
<1>10. t \in Seq(S) /\ ToSet(t) = UNION {ToSet(s[i]) : i \in 1 .. n}
  BY <1>8, <1>9, FlattenTyped, FlattenHas
<1>11. \A j \in 1 .. Len(t) : \E k \in 1 .. n : t[j] = list[k]
  <2> SUFFICES ASSUME NEW j \in 1 .. Len(t) PROVE \E k \in 1 .. n : t[j] = list[k] OBVIOUS
  <2>1. t[j] \in ToSet(t) BY <1>10 DEF ToSet
  <2>2. PICK i \in 1 .. n : t[j] \in ToSet(s[i]) BY <1>10, <2>1
  <2>3. QED BY <1>7, <2>2
<1>12. Listed(t) BY <1>2, <1>10, <1>11 DEF Listed
<1>13. IdsSpelled(list) => IdsSpelled(t) BY <1>2, <1>11 DEF IdsSpelled
<1>14. QED BY <1>6, <1>9, <1>12, <1>13

\* A module with one warning more.
LEMMA WarnAdds ==
    ASSUME NEW m, {"module_id", "warnings"} \subseteq DOMAIN m, NEW w
    PROVE  /\ DOMAIN Warn(m, w) = DOMAIN m /\ Warn(m, w).module_id = m.module_id
           /\ Warn(m, w).warnings = m.warnings \cup {w}
BY DEF Warn

\* Who warns of the illegal ids of a list warns of each, and changes no id.
LEMMA AllAreWarned ==
    ASSUME NEW list, Listed(list), IdsSpelled(list)
    PROVE  /\ Listed(WithLegalityWarnings(list)) /\ SameIds(WithLegalityWarnings(list), list)
           /\ AllWarned(WithLegalityWarnings(list))
<1> DEFINE about(m) == <<"illegal", m.module_id, Head(IllegalSegments(m.module_id))>>
           after(m) == IF IllegalSegments(m.module_id) = <<>> THEN m ELSE Warn(m, about(m))
<1>1. PICK t, n : t = WithLegalityWarnings(list) /\ n = Len(list) OBVIOUS
<1>2. t = [i \in 1 .. n |-> after(list[i])] BY <1>1 DEF WithLegalityWarnings
<1>3. n \in Nat BY <1>1 DEF Listed
<1>4. ASSUME NEW m, {"module_id", "warnings"} \subseteq DOMAIN m, m.module_id \in Seq(IdCharacters)
      PROVE  /\ {"module_id", "warnings"} \subseteq DOMAIN after(m)
             /\ after(m).module_id = m.module_id /\ WarnedOf(after(m))
  <2>1. PICK id \in Seq(IdCharacters) : id = m.module_id BY <1>4
  <2>2. \A j \in 1 .. Len(Split(id, ".")) :
          ~LegalSegment(Split(id, ".")[j]) => IllegalSegments(id) # <<>>
    BY <2>1, IllegalAreListed
  <2>3. CASE IllegalSegments(id) = <<>>
    <3>1. after(m) = m BY <2>1, <2>3
    <3> HIDE DEF after
    <3>2. QED BY <1>4, <2>1, <2>2, <2>3, <3>1 DEF WarnedOf
  <2>4. CASE IllegalSegments(id) # <<>>
    <3>1. PICK w : w = about(m) OBVIOUS
    <3>2. w[1] = "illegal" /\ w[2] = id BY <2>1, <3>1
    <3>3. after(m) = Warn(m, w) BY <2>1, <2>4, <3>1
    <3> HIDE DEF after, about
    <3>4. /\ DOMAIN after(m) = DOMAIN m /\ after(m).module_id = id
          /\ after(m).warnings = m.warnings \cup {w}
      BY <1>4, <2>1, <3>3, WarnAdds
    <3>5. \E v \in after(m).warnings : v[1] = "illegal" /\ v[2] = id BY <3>2, <3>4
    <3>6. QED BY <1>4, <2>1, <3>4, <3>5 DEF WarnedOf
  <2>5. QED BY <2>3, <2>4
<1> HIDE DEF after
<1>5. \A i \in 1 .. n : /\ {"module_id", "warnings"} \subseteq DOMAIN after(list[i])
                        /\ after(list[i]).module_id = list[i].module_id /\ WarnedOf(after(list[i]))
  BY <1>1, <1>4 DEF Listed, IdsSpelled
<1>6. \A i \in 1 .. n : t[i] = after(list[i]) BY <1>2
<1>7. t = [i \in 1 .. n |-> t[i]] BY <1>2
<1>8. Len(t) = n /\ \E S : t \in Seq(S)
  <2>1. PICK S : S = {t[i] : i \in 1 .. n} OBVIOUS
  <2>2. \A i \in 1 .. n : t[i] \in S BY <2>1
  <2>3. t \in Seq(S) BY <1>3, <1>7, <2>2, ListTyped
  <2>4. QED BY <1>3, <1>7, <2>3, ListLen
<1>9. QED BY <1>1, <1>5, <1>6, <1>8 DEF Listed, SameIds, AllWarned

\* An answer of the language model leaves a module its id and its warnings.
LEMMA FilledAdds ==
    ASSUME NEW m, {"module_id", "warnings"} \subseteq DOMAIN m, NEW answer
    PROVE  /\ {"module_id", "warnings"} \subseteq DOMAIN Filled(m, answer)
           /\ Filled(m, answer).module_id = m.module_id
           /\ m.warnings \subseteq Filled(m, answer).warnings
<1>1. \A field \in DOMAIN m : field \in DOMAIN Filled(m, answer) BY DEF Filled
<1>2. Filled(m, answer).module_id = m.module_id BY DEF Filled
<1>3. m.warnings \subseteq Filled(m, answer).warnings BY DEF Filled
<1>4. QED BY <1>1, <1>2, <1>3

\* A module that keeps its id, and its warnings, stays warned of.
LEMMA WarnedStays ==
    ASSUME NEW m, NEW new, WarnedOf(m), new.module_id = m.module_id, m.warnings \subseteq new.warnings
    PROVE  WarnedOf(new)
BY DEF WarnedOf

\* A list with another module in one place.
Replaced(list, k, new) == [list EXCEPT ![k] = new]

\* It is a list of modules still.
LEMMA OneReplaced ==
    ASSUME NEW list, Listed(list), NEW k, NEW new, NEW t, t = Replaced(list, k, new),
           {"module_id", "warnings"} \subseteq DOMAIN new \/ k \notin 1 .. Len(list)
    PROVE  /\ Listed(t) /\ Len(t) = Len(list)
           /\ \A i \in 1 .. Len(list) : t[i] = IF i = k THEN new ELSE list[i]
<1>1. PICK S : list \in Seq(S) BY DEF Listed
<1>2. PICK n : n = Len(list) OBVIOUS
<1>3. DOMAIN list = 1 .. n /\ n \in Nat /\ \A i \in 1 .. n : list[i] \in S BY <1>1, <1>2
<1>4. \A i \in 1 .. n : t[i] = IF i = k THEN new ELSE list[i] BY <1>3 DEF Replaced
<1>5. t \in [1 .. n -> S \cup {new}] BY <1>3, <1>4 DEF Replaced
<1>6. t \in Seq(S \cup {new}) /\ Len(t) = n BY <1>3, <1>5
<1>7. \A i \in 1 .. n : {"module_id", "warnings"} \subseteq DOMAIN list[i] BY <1>2 DEF Listed
<1>8. QED BY <1>2, <1>4, <1>6, <1>7 DEF Listed

\* An answer, or none, keeps the ids and the warnings of the list.
LEMMA AskKeeps ==
    ASSUME PipelineInv, AskNext
    PROVE  /\ Listed(modules') /\ SameIds(modules', modules)
           /\ AllWarned(modules) /\ AllWarned(authored) => AllWarned(modules')
<1>1. Listed(modules) /\ Listed(authored) /\ SameIds(authored, modules) BY DEF PipelineInv, AskNext
<1>2. CASE modules' = modules BY <1>1, <1>2 DEF SameIds
<1>3. CASE modules' # modules
  <2>1. PICK k, answer : modules' = [modules EXCEPT ![k] = Filled(authored[k], answer)]
    BY <1>3 DEF AskNext
  <2>2. PICK new : new = Filled(authored[k], answer) OBVIOUS
  <2>3. k \in 1 .. Len(modules) =>
          /\ {"module_id", "warnings"} \subseteq DOMAIN new
          /\ new.module_id = modules[k].module_id
          /\ AllWarned(authored) => WarnedOf(new)
    <3> SUFFICES ASSUME k \in 1 .. Len(modules)
                 PROVE  /\ {"module_id", "warnings"} \subseteq DOMAIN new
                        /\ new.module_id = modules[k].module_id
                        /\ AllWarned(authored) => WarnedOf(new)
      OBVIOUS
    <3>1. PICK m : m = authored[k] OBVIOUS
    <3>2. k \in 1 .. Len(authored) /\ m.module_id = modules[k].module_id BY <1>1, <3>1 DEF SameIds
    <3>3. {"module_id", "warnings"} \subseteq DOMAIN m BY <1>1, <3>1, <3>2 DEF Listed
    <3>4. /\ {"module_id", "warnings"} \subseteq DOMAIN new
          /\ new.module_id = m.module_id /\ m.warnings \subseteq new.warnings
      BY <2>2, <3>1, <3>3, FilledAdds
    <3>5. AllWarned(authored) => WarnedOf(m) BY <3>1, <3>2 DEF AllWarned
    <3>6. AllWarned(authored) => WarnedOf(new) BY <3>4, <3>5, WarnedStays
    <3>7. QED BY <3>2, <3>4, <3>6
  <2>4. PICK t : t = modules' OBVIOUS
  <2>5. t = Replaced(modules, k, new) BY <2>1, <2>2, <2>4 DEF Replaced
  <2>6. /\ Listed(t) /\ Len(t) = Len(modules)
        /\ \A i \in 1 .. Len(modules) : t[i] = IF i = k THEN new ELSE modules[i]
    BY <1>1, <2>3, <2>5, OneReplaced
  <2>7. SameIds(t, modules) BY <2>3, <2>6 DEF SameIds
  <2>8. AllWarned(modules) /\ AllWarned(authored) => AllWarned(t) BY <2>3, <2>6 DEF AllWarned
  <2>9. QED BY <2>4, <2>6, <2>7, <2>8
<1>4. QED BY <1>2, <1>3

\* What a module shows is no id of it and no warning.
LEMMA ShowKeeps ==
    ASSUME PipelineInv, ResolveDisplay
    PROVE  /\ Listed(modules') /\ SameIds(modules', modules)
           /\ AllWarned(modules) => AllWarned(modules')
<1>1. Listed(modules) BY DEF PipelineInv
<1>2. CASE modules' = modules BY <1>1, <1>2 DEF SameIds
<1>3. CASE modules' # modules
  <2>1. PICK map : modules' = [i \in 1 .. Len(modules) |->
            [modules[i] EXCEPT !.metadata =
                Put(modules[i].metadata, "display", DisplayOf(modules[i], EntryOf(modules[i], map)))]]
    BY <1>3 DEF ResolveDisplay
  <2> DEFINE new(m) == [m EXCEPT !.metadata =
                           Put(m.metadata, "display", DisplayOf(m, EntryOf(m, map)))]
  <2>2. ASSUME NEW m, {"module_id", "warnings"} \subseteq DOMAIN m
        PROVE  /\ {"module_id", "warnings"} \subseteq DOMAIN new(m)
               /\ new(m).module_id = m.module_id /\ m.warnings \subseteq new(m).warnings
    <3>1. PICK metadata : metadata = Put(m.metadata, "display", DisplayOf(m, EntryOf(m, map))) OBVIOUS
    <3>2. new(m) = [m EXCEPT !.metadata = metadata] BY <3>1
    <3> HIDE DEF new
    <3>3. QED BY <2>2, <3>2
  <2>3. PICK t, n : t = modules' /\ n = Len(modules) OBVIOUS
  <2>4. n \in Nat /\ t = [i \in 1 .. n |-> new(modules[i])] BY <1>1, <2>1, <2>3 DEF Listed
  <2> HIDE DEF new
  <2>5. \A i \in 1 .. n : t[i] = new(modules[i]) BY <2>4
  <2>6. t = [i \in 1 .. n |-> t[i]] BY <2>4
  <2>7. Len(t) = n BY <2>4, <2>6, ListLen
  <2>8. \E S : t \in Seq(S)
    <3>1. PICK S : S = {t[i] : i \in 1 .. n} OBVIOUS
    <3>2. \A i \in 1 .. n : t[i] \in S BY <3>1
    <3>3. n \in Nat BY <2>4
    <3>4. t \in Seq(S) BY <2>6, <3>2, <3>3, ListTyped
    <3>5. QED BY <3>4
  <2>9. \A i \in 1 .. n : {"module_id", "warnings"} \subseteq DOMAIN modules[i] BY <1>1, <2>3 DEF Listed
  <2>10. Listed(t) BY <2>2, <2>5, <2>7, <2>8, <2>9 DEF Listed
  <2>11. SameIds(t, modules) BY <2>2, <2>3, <2>5, <2>7, <2>9 DEF SameIds
  <2>12. ASSUME NEW i \in 1 .. n, WarnedOf(modules[i]) PROVE WarnedOf(t[i])
    BY <2>2, <2>5, <2>9, <2>12, WarnedStays
  <2>13. AllWarned(modules) => AllWarned(t) BY <2>3, <2>7, <2>12 DEF AllWarned
  <2>14. QED BY <2>3, <2>10, <2>11, <2>13
<1>4. QED BY <1>2, <1>3

\* Whatever a stage does, the list keeps its ids and stays warned of.
LEMMA StageKeeps ==
    ASSUME PipelineInv, StagesNext, UNCHANGED <<dedupVars, scanVars>>
    PROVE  PipelineInv'
<1>1. stage \in {"ready", "enhance", "write"} /\ stage' \in {"ready", "enhance", "write", "failed"}
  BY DEF StagesNext, Enhancing, Displaying, Writing, StartEnhance, AskNext, EndEnhance, ResolveDisplay,
         StartWrite, WriteStub, WriteFails, EndWrite, Goto
<1>2. /\ Listed(modules') /\ SameIds(modules', modules)
      /\ AllWarned(modules) /\ (stage = "enhance" => AllWarned(authored)) => AllWarned(modules')
  <2>1. CASE AskNext
    <3>1. stage = "enhance" BY <2>1 DEF AskNext
    <3>2. QED BY <2>1, <3>1, AskKeeps
  <2>2. CASE ResolveDisplay BY <2>2, ShowKeeps
  <2>3. CASE ~AskNext /\ ~ResolveDisplay
    <3>1. modules' = modules BY <2>3, OtherSteps
    <3>2. QED BY <3>1 DEF PipelineInv, SameIds
  <2>4. QED BY <2>1, <2>2, <2>3
<1>3. stage' = "enhance" =>
        \/ stage = "enhance" /\ authored' = authored
        \/ stage # "enhance" /\ authored' = modules /\ modules' = modules
  <2>1. CASE AskNext BY <2>1 DEF AskNext
  <2>2. CASE ResolveDisplay
    <3>1. stage = "ready" /\ stage' \in {"ready", "failed"} BY <2>2 DEF ResolveDisplay, Goto
    <3>2. QED BY <3>1
  <2>3. CASE ~AskNext /\ ~ResolveDisplay
    <3>1. /\ modules' = modules
          /\ \/ UNCHANGED <<stage, enhanceVars>>
             \/ stage = "ready" /\ stage' = "enhance" /\ authored' = modules /\ enhanced'
             \/ stage = "enhance" /\ stage' = "ready" /\ UNCHANGED enhanceVars
             \/ stage \in {"ready", "write"} /\ stage' # "enhance" /\ UNCHANGED enhanceVars
      BY <2>3, OtherSteps
    <3>2. QED BY <3>1 DEF enhanceVars
  <2>4. QED BY <2>1, <2>2, <2>3
<1>4. /\ pending' = pending /\ originals' = originals /\ document' = document /\ found' = found
      /\ originals = {}
  BY <1>1 DEF dedupVars, scanVars, PipelineInv, DedupInv
<1>5. DedupInv'
  <2>1. ListsOK' BY <1>2, <1>4 DEF ListsOK, Listed, PipelineInv, DedupInv
  <2>2. BookkeepingOK' BY <1>1 DEF BookkeepingOK
  <2>3. IdsDistinct' BY <1>2 DEF IdsDistinct, SameIds, PipelineInv, DedupInv
  <2>4. NamesKept' BY <1>4 DEF NamesKept
  <2>5. QED BY <1>4, <2>1, <2>2, <2>3, <2>4 DEF DedupInv
<1>6. stage' = "enhance" => Listed(authored') /\ SameIds(authored', modules')
  <2>1. CASE stage = "enhance" /\ authored' = authored BY <1>2, <2>1 DEF PipelineInv, SameIds
  <2>2. CASE stage # "enhance" /\ authored' = modules /\ modules' = modules
    BY <2>2 DEF PipelineInv, SameIds
  <2>3. QED BY <1>3, <2>1, <2>2
<1>7. ASSUME document # None
      PROVE  /\ IdsSpelled(found') /\ IdsSpelled(pending') /\ IdsSpelled(modules')
             /\ AllWarned(modules') /\ (stage' = "enhance" => AllWarned(authored'))
  <2>1. /\ IdsSpelled(found) /\ IdsSpelled(pending) /\ IdsSpelled(modules) /\ AllWarned(modules)
        /\ stage = "enhance" => AllWarned(authored)
    BY <1>1, <1>7 DEF PipelineInv
  <2>2. IdsSpelled(modules') BY <1>2, <2>1 DEF IdsSpelled, SameIds
  <2>3. QED BY <1>2, <1>3, <1>4, <2>1, <2>2
<1>8. QED BY <1>1, <1>2, <1>4, <1>5, <1>6, <1>7 DEF PipelineInv

------------------------------------------------------------------------------
(* Scan and stages: what the steps of a scan keep                          *)

\* A number makes an id of the characters of ids another.
LEMMA SuffixedSpelled ==
    ASSUME NEW id \in Seq(IdCharacters), NEW k \in 1 .. MaxSuffix
    PROVE  Suffixed(id, k) \in Seq(IdCharacters)
<1>1. PICK d : d = Decimal(k) OBVIOUS
<1>2. d \in Seq(Digits) BY <1>1, DedupAssumption
<1>3. Digits \subseteq IdCharacters BY Zenon DEF IdCharacters
<1>4. PICK u : u = "_" OBVIOUS
<1>5. u \in IdCharacters BY <1>4, Zenon DEF IdCharacters
<1>6. d \in Seq(IdCharacters) /\ <<u>> \in Seq(IdCharacters) BY <1>2, <1>3, <1>5
<1>7. id \o <<u>> \o d \in Seq(IdCharacters) BY <1>6
<1>8. Suffixed(id, k) = id \o <<u>> \o d BY <1>1, <1>4, Zenon DEF Suffixed
<1>9. QED BY <1>7, <1>8

\* A module joins the list with its own id or a numbered one.
LEMMA DedupStepAdds ==
    ASSUME DedupInv, DedupStep
    PROVE  /\ pending' = Tail(pending) /\ pending # <<>>
           /\ \E new : /\ modules' = Append(modules, new) /\ {"module_id", "warnings"} \subseteq DOMAIN new
                       /\ \/ new.module_id = Head(pending).module_id
                          \/ \E k \in 1 .. MaxSuffix :
                               new.module_id = Suffixed(Head(pending).module_id, k)
<1> DEFINE m == Head(pending)
           n == occurrences[m.module_id] + 1
<1>1. PICK T : pending \in Seq(T) BY DEF DedupInv, ListsOK, Listed
<1>2. /\ pending # <<>> /\ pending' = Tail(pending)
      /\ IdsOf(pending) \subseteq originals /\ occurrences \in [originals -> Nat]
  BY DEF DedupStep, DedupInv, BookkeepingOK
<1>3. PICK id \in NewId(m.module_id, n) :
        modules' = Append(modules,
            IF id = m.module_id THEN m ELSE [Warn(m, <<"renamed", m.module_id>>) EXCEPT !.module_id = id])
  BY DEF DedupStep
<1>4. 1 \in 1 .. Len(pending) /\ m = pending[1] BY <1>1, <1>2
<1>5. {"module_id", "warnings"} \subseteq DOMAIN m BY <1>4 DEF DedupInv, ListsOK, Listed
<1>6. m.module_id \in originals BY <1>2, <1>4 DEF IdsOf
<1>7. n \in Nat \ {0} BY <1>2, <1>6
<1>8. id = m.module_id \/ \E k \in 1 .. MaxSuffix : id = Suffixed(m.module_id, k)
  <2>1. CASE n = 1 BY <1>3, <2>1 DEF NewId
  <2>2. CASE n # 1
    <3>1. id \in Rename(m.module_id, n) BY <1>3, <2>2 DEF NewId
    <3>2. PICK k \in n .. MaxSuffix : id = Suffixed(m.module_id, k) BY <3>1 DEF Rename
    <3>3. k \in 1 .. MaxSuffix
      <4>1. MaxSuffix \in Nat BY DedupAssumption
      <4>2. PICK o \in Nat \ {0} : o = n BY <1>7
      <4>3. k \in o .. MaxSuffix BY <3>2, <4>2
      <4>4. QED BY <4>1, <4>3
    <3>4. QED BY <3>2, <3>3
  <2>3. QED BY <2>1, <2>2
<1>9. PICK new : /\ modules' = Append(modules, new) /\ new.module_id = id
                 /\ {"module_id", "warnings"} \subseteq DOMAIN new
  <2>1. CASE id = m.module_id BY <1>3, <1>5, <2>1
  <2>2. CASE id # m.module_id
    <3>1. PICK w : w = Warn(m, <<"renamed", m.module_id>>) OBVIOUS
    <3>2. DOMAIN w = DOMAIN m BY <3>1 DEF Warn
    <3>3. PICK new : new = [w EXCEPT !.module_id = id] OBVIOUS
    <3>4. DOMAIN new = DOMAIN m /\ new.module_id = id BY <1>5, <3>2, <3>3
    <3>5. modules' = Append(modules, new) BY <1>3, <2>2, <3>1, <3>3
    <3>6. QED BY <1>5, <3>4, <3>5
  <2>3. QED BY <2>1, <2>2
<1>10. QED BY <1>2, <1>8, <1>9

\* A list without its first module.
LEMMA ListedLess ==
    ASSUME NEW list, Listed(list), list # <<>>
    PROVE  /\ Listed(Tail(list))
           /\ IdsSpelled(list) => Head(list).module_id \in Seq(IdCharacters) /\ IdsSpelled(Tail(list))
<1>1. PICK S : list \in Seq(S) BY DEF Listed
<1>2. PICK t : t = Tail(list) OBVIOUS
<1>3. /\ t \in Seq(S) /\ Len(list) \in Nat \ {0} /\ Len(t) = Len(list) - 1 /\ Head(list) = list[1]
      /\ \A i \in 1 .. Len(t) : i + 1 \in 1 .. Len(list) /\ t[i] = list[i + 1]
  BY <1>1, <1>2
<1>4. 1 \in 1 .. Len(list) BY <1>3
<1>5. Listed(t) BY <1>3 DEF Listed
<1>6. IdsSpelled(list) => Head(list).module_id \in Seq(IdCharacters) /\ IdsSpelled(t)
  BY <1>3, <1>4 DEF IdsSpelled
<1>7. QED BY <1>2, <1>5, <1>6

\* The invariant between the lists of ids, while nothing is deduplicated.
LEMMA DedupAsleep ==
    ASSUME DedupInv, stage # "dedup", stage' # "dedup", UNCHANGED <<modules, dedupVars>>
    PROVE  DedupInv'
BY DEF DedupInv, ListsOK, BookkeepingOK, IdsDistinct, NamesKept, IdsOf, Listed, dedupVars

\* Every step of a scan keeps the invariant.
LEMMA ScanKeeps ==
    ASSUME PipelineInv, ScannerNext, UNCHANGED stageVars
    PROVE  PipelineInv'
<1>1. CASE StartScan
  <2>1. /\ stage = "idle" /\ stage' \in {"scan", "failed"} /\ found' = <<>>
        /\ UNCHANGED <<modules, dedupVars>>
    BY <1>1 DEF StartScan, Goto
  <2>2. modules' = <<>> /\ pending' = <<>> BY <2>1 DEF PipelineInv, dedupVars
  <2>3. DedupInv' BY <2>1, DedupAsleep DEF PipelineInv
  <2>4. QED BY <2>1, <2>2, <2>3, NothingListed DEF PipelineInv
<1>2. CASE \E m : (m = None \/ IsScanned(m)) /\ ScanModule(m)
  <2>1. PICK m : (m = None \/ IsScanned(m)) /\ ScanModule(m) BY <1>2
  <2>2. /\ stage = "scan" /\ stage' = "scan" /\ document' = document
        /\ UNCHANGED <<modules, dedupVars>>
    BY <2>1 DEF ScanModule
  <2>3. DedupInv' BY <2>2, DedupAsleep DEF PipelineInv
  <2>4. modules' = <<>> /\ pending' = <<>> BY <2>2 DEF PipelineInv, dedupVars
  <2>5. Listed(found') /\ (IdsSpelled(found) => IdsSpelled(found'))
    <3>1. CASE found' = found BY <3>1 DEF PipelineInv
    <3>2. CASE found' # found
      <4>1. IsScanned(m) BY <2>1, <3>2 DEF ScanModule
      <4>2. PICK S : m.module_id \in Seq(S) BY <4>1 DEF IsScanned
      <4>3. PICK id : id = NormalizeModuleId(m.module_id) OBVIOUS
      <4>4. id \in Seq(IdCharacters) BY <4>2, <4>3, NormalizedIs
      <4>5. PICK new : new = [m EXCEPT !.module_id = id] OBVIOUS
      <4>6. {"module_id", "warnings"} \subseteq DOMAIN new /\ new.module_id = id
        BY <4>1, <4>5 DEF IsScanned
      <4>7. found' = Append(found, new) BY <2>1, <3>2, <4>3, <4>5 DEF ScanModule
      <4>8. Listed(found) BY DEF PipelineInv
      <4>9. QED BY <4>4, <4>6, <4>7, <4>8, ListedMore
    <3>3. QED BY <3>1, <3>2
  <2>6. QED BY <2>2, <2>3, <2>4, <2>5, NothingListed DEF PipelineInv
<1>3. CASE FilterFound
  <2>1. stage = "scan" /\ found' = found /\ document' = document BY <1>3 DEF FilterFound, scanVars
  <2>2. PICK b : b = FilterModules(found) OBVIOUS
  <2>3. Listed(b) /\ (IdsSpelled(found) => IdsSpelled(b)) BY <2>2, FilteredListed DEF PipelineInv
  <2>4. CASE StartDedup(b)
    <3>1. DedupInv' BY <2>3, <2>4, StartKeeps DEF PipelineInv
    <3>2. modules' = <<>> /\ pending' = b /\ stage' = "dedup" BY <2>4 DEF StartDedup, Goto
    <3>3. QED BY <2>1, <2>3, <3>1, <3>2, NothingListed DEF PipelineInv
  <2>5. CASE stage' = "failed" /\ UNCHANGED <<modules, dedupVars>>
    <3>1. DedupInv' BY <2>1, <2>5, DedupAsleep DEF PipelineInv
    <3>2. pending' = pending BY <2>5 DEF dedupVars
    <3>3. QED BY <2>1, <2>5, <3>1, <3>2 DEF PipelineInv
  <2>6. QED BY <1>3, <2>2, <2>4, <2>5 DEF FilterFound, Goto
<1>4. CASE EndScan
  <2>1. PICK list : list = WithLegalityWarnings(modules) OBVIOUS
  <2>2. /\ document # None /\ DedupEnd(list) /\ found' = found /\ document' = document
        /\ modules' = list /\ stage' = "ready" /\ pending' = <<>>
    BY <1>4, <2>1 DEF EndScan, DedupEnd, Goto, scanVars
  <2>3. Listed(modules) /\ IdsSpelled(modules) /\ IdsSpelled(found) /\ Listed(found)
    BY <2>2 DEF PipelineInv
  <2>4. Listed(list) /\ SameIds(list, modules) /\ AllWarned(list) BY <2>1, <2>3, AllAreWarned
  <2>5. DedupInv' BY <2>2, <2>4, EndKeeps DEF PipelineInv, Listed
  <2>6. IdsSpelled(list) BY <2>3, <2>4 DEF IdsSpelled, SameIds
  <2>7. QED BY <2>2, <2>3, <2>4, <2>5, <2>6, NothingListed DEF PipelineInv
<1>5. CASE FrameworkScan
  <2>1. PICK b \in Batches : StartDedup(b) BY <1>5 DEF FrameworkScan
  <2>2. stage = "idle" /\ found' = found /\ document' = document BY <1>5 DEF FrameworkScan, scanVars
  <2>3. Listed(b) BY BatchesListed
  <2>4. DedupInv' BY <2>1, <2>3, StartKeeps DEF PipelineInv
  <2>5. modules' = <<>> /\ stage' = "dedup" BY <2>1 DEF StartDedup, Goto
  <2>6. QED BY <2>2, <2>4, <2>5, NothingListed DEF PipelineInv
<1>6. CASE EndFrameworkScan
  <2>1. /\ document = None /\ DedupEnd(modules) /\ found' = found /\ document' = document
        /\ modules' = modules /\ stage' = "ready"
    BY <1>6 DEF EndFrameworkScan, DedupEnd, Goto, scanVars
  <2>2. SameIds(modules, modules) /\ Listed(modules) BY DEF SameIds, PipelineInv
  <2>3. DedupInv' BY <2>1, <2>2, EndKeeps DEF PipelineInv, Listed
  <2>4. QED BY <2>1, <2>2, <2>3 DEF PipelineInv
<1>7. CASE DedupStep /\ UNCHANGED scanVars
  <2>1. stage = "dedup" /\ stage' = stage /\ found' = found /\ document' = document
    BY <1>7 DEF DedupStep, scanVars
  <2>2. DedupInv' BY <1>7, DedupStepKeeps DEF PipelineInv
  <2>3. PICK new : /\ modules' = Append(modules, new) /\ {"module_id", "warnings"} \subseteq DOMAIN new
                   /\ \/ new.module_id = Head(pending).module_id
                      \/ \E k \in 1 .. MaxSuffix : new.module_id = Suffixed(Head(pending).module_id, k)
    BY <1>7, DedupStepAdds DEF PipelineInv
  <2>4. pending' = Tail(pending) /\ pending # <<>> BY <1>7, DedupStepAdds DEF PipelineInv
  <2>5. Listed(pending) /\ Listed(modules) BY DEF PipelineInv, DedupInv, ListsOK
  <2>6. Listed(modules') BY <2>3, <2>5, ListedMore
  <2>7. ASSUME IdsSpelled(pending), IdsSpelled(modules) PROVE IdsSpelled(pending') /\ IdsSpelled(modules')
    <3>1. PICK id : id = Head(pending).module_id OBVIOUS
    <3>2. id \in Seq(IdCharacters) /\ IdsSpelled(pending') BY <2>4, <2>5, <2>7, <3>1, ListedLess
    <3>3. new.module_id \in Seq(IdCharacters) BY <2>3, <3>1, <3>2, SuffixedSpelled
    <3>4. QED BY <2>3, <2>5, <2>7, <3>2, <3>3, ListedMore
  <2>8. QED BY <2>1, <2>2, <2>6, <2>7 DEF PipelineInv
<1>8. QED BY <1>1, <1>2, <1>3, <1>4, <1>5, <1>6, <1>7 DEF ScannerNext

------------------------------------------------------------------------------
(* Scan and stages: the theorem                                            *)

\* So it holds from the scan to the last stage.
LEMMA PipelineInvariant == PipelineSpec => []PipelineInv
<1>1. PipelineInit => PipelineInv
  <2> SUFFICES ASSUME PipelineInit PROVE PipelineInv OBVIOUS
  <2>1. /\ stage = "idle" /\ modules = <<>> /\ pending = <<>> /\ originals = {} /\ found = <<>>
        /\ document = None
    BY DEF PipelineInit, ScannerInit, DedupIdle, ScanIdle
  <2>2. DedupInv
    <3>1. ListsOK BY <2>1, NothingListed DEF ListsOK, Listed
    <3>2. BookkeepingOK /\ IdsDistinct /\ NamesKept
      BY <2>1, NothingListed DEF BookkeepingOK, IdsDistinct, NamesKept
    <3>3. QED BY <2>1, <3>1, <3>2 DEF DedupInv
  <2>3. QED BY <2>1, <2>2, NothingListed DEF PipelineInv
<1>2. PipelineInv /\ [PipelineNext]_<<stage, modules, dedupVars, scanVars, stageVars>> => PipelineInv'
  <2> SUFFICES ASSUME PipelineInv,
                      [PipelineNext]_<<stage, modules, dedupVars, scanVars, stageVars>>
               PROVE  PipelineInv'
    OBVIOUS
  <2>1. CASE ScannerNext /\ UNCHANGED stageVars BY <2>1, ScanKeeps
  <2>2. CASE StagesNext /\ UNCHANGED <<dedupVars, scanVars>> BY <2>2, StageKeeps
  <2>3. CASE UNCHANGED <<stage, modules, dedupVars, scanVars, stageVars>>
    <3>1. UNCHANGED <<stage, modules, pending, originals, occurrences, assigned, found, document, authored>>
      BY <2>3 DEF dedupVars, scanVars, stageVars, enhanceVars
    <3>2. DedupInv'
      BY <3>1 DEF PipelineInv, DedupInv, ListsOK, BookkeepingOK, IdsDistinct, NamesKept, IdsOf
    <3>3. QED BY <3>1, <3>2 DEF PipelineInv
  <2>4. QED BY <2>1, <2>2, <2>3 DEF PipelineNext
<1>3. QED BY <1>1, <1>2, PTL DEF PipelineSpec

(* Whatever the modules of the operations are when their ids are normalised, whatever the    *)
(* filters take out and whichever ids get a number, an id that reaches the caller is made of *)
(* the letters ids are made of, and one that is not legal carries a warning that names it:   *)
(* also after the stages, in whatever order they run (scan, legality_warning).               *)
THEOREM IllegalIdsAreNamed == PipelineSpec => []IllegalIdsWarned
<1>1. PipelineInv => IllegalIdsWarned
  <2> SUFFICES ASSUME PipelineInv, Scanned, NEW i \in 1 .. Len(modules)
               PROVE  LET id == modules[i].module_id
                      IN  /\ \A j \in 1 .. Len(id) : InIdAlphabet(id[j]) /\ ~IsUpper(id[j])
                          /\ \A j \in 1 .. Len(Split(id, ".")) :
                               ~LegalSegment(Split(id, ".")[j]) =>
                                   \E w \in modules[i].warnings : w[1] = "illegal" /\ w[2] = id
    BY DEF IllegalIdsWarned
  <2>1. IdsSpelled(modules) /\ AllWarned(modules) BY DEF PipelineInv, Scanned
  <2>2. PICK id \in Seq(IdCharacters) : id = modules[i].module_id BY <2>1 DEF IdsSpelled
  <2>3. \A j \in 1 .. Len(id) : id[j] \in IdCharacters BY <2>2
  <2>4. \A j \in 1 .. Len(id) : InIdAlphabet(id[j]) /\ ~IsUpper(id[j]) BY <2>3, Lowered
  <2>5. WarnedOf(modules[i]) BY <2>1 DEF AllWarned
  <2>6. QED BY <2>2, <2>4, <2>5 DEF WarnedOf
<1>2. QED BY <1>1, PipelineInvariant, PTL

(* Also after the stages no two modules of the list share an id: none changes one            *)
(* (deduplicate_ids, enhance, resolve).                                                      *)
THEOREM IdsStayDistinct == PipelineSpec => []IdsDistinct
<1>1. PipelineInv => IdsDistinct BY DEF PipelineInv, DedupInv
<1>2. QED BY <1>1, PipelineInvariant, PTL

------------------------------------------------------------------------------
(* Tables: the order of texts                                              *)

\* The texts of modules.
Texts == Seq(ToSet(Codes))

\* What the model's order of texts is.
CharacterOrder == {c \in ToSet(Codes) \X ToSet(Codes) : Code(c[1]) < Code(c[2])}
TextOrder == Lexicographic(CharacterOrder, ToSet(Codes))

\* The order of texts is the lexicographic one,
LEMMA TextLessIs ==
    ASSUME NEW a \in Texts, NEW b \in Texts
    PROVE  TextLess(a, b) <=> <<a, b>> \in TextOrder
<1>1. /\ Len(a) \in Nat /\ Len(b) \in Nat
      /\ a \in Seq(ToSet(Codes)) /\ b \in Seq(ToSet(Codes))
  BY DEF Texts
<1>2. IsStrictPrefix(a, b) <=> Len(a) < Len(b) /\ \A i \in 1 .. Len(a) : a[i] = b[i]
  <2>1. IsPrefix(a, b) <=> Len(a) <= Len(b) /\ \A i \in 1 .. Len(a) : a[i] = b[i]
    <3>1. CASE Len(a) <= Len(b)
      <4>1. SubSeq(a, 1, Len(a)) = SubSeq(b, 1, Len(a)) <=> \A j \in 1 .. Len(a) : a[j] = b[j]
        <5>1. PICK k : k = Len(a) OBVIOUS
        <5>2. k \in Nat /\ k <= Len(a) /\ k <= Len(b) BY <1>1, <3>1, <5>1
        <5>3. QED BY <1>1, <5>1, <5>2, SameStart
      <4>2. QED BY <3>1, <4>1 DEF IsPrefix
    <3>2. CASE ~(Len(a) <= Len(b)) BY <3>2 DEF IsPrefix
    <3>3. QED BY <3>1, <3>2
  <2>2. ASSUME Len(a) = Len(b), \A i \in 1 .. Len(a) : a[i] = b[i] PROVE a = b
    BY <1>1, <2>2, SeqEqual
  <2>3. Len(a) <= Len(b) <=> Len(a) < Len(b) \/ Len(a) = Len(b) BY <1>1
  <2>4. Len(a) < Len(b) => a # b BY <1>1
  <2>5. QED BY <2>1, <2>2, <2>3, <2>4 DEF IsStrictPrefix
<1>3. \A i \in 1 .. Len(a) : i <= Len(b) =>
        (Code(a[i]) < Code(b[i]) <=> <<a[i], b[i]>> \in CharacterOrder)
  <2> SUFFICES ASSUME NEW i \in 1 .. Len(a), i <= Len(b)
               PROVE  Code(a[i]) < Code(b[i]) <=> <<a[i], b[i]>> \in CharacterOrder
    OBVIOUS
  <2>1. a[i] \in ToSet(Codes) /\ b[i] \in ToSet(Codes) BY <1>1
  <2>2. QED BY <2>1 DEF CharacterOrder
<1>4. TextLess(a, b) <=> Before(a, b, CharacterOrder)
  BY <1>2, <1>3, Zenon DEF TextLess, Before
<1>5. QED BY <1>1, <1>4 DEF TextOrder, Lexicographic

\* and puts any texts in a row.
LEMMA TextsOrdered == StrictTotal(TextOrder, Texts)
<1>1. \A c \in ToSet(Codes) : Code(c) \in Nat /\ Codes[Code(c)] = c
  <2> SUFFICES ASSUME NEW c \in ToSet(Codes) PROVE Code(c) \in Nat /\ Codes[Code(c)] = c OBVIOUS
  <2>1. DOMAIN Codes = 1 .. Len(Codes) /\ Len(Codes) \in Nat BY ViewAssumption DEF ViewAssumption
  <2>2. \E i \in 1 .. Len(Codes) : Codes[i] = c BY <2>1 DEF ToSet
  <2>3. Code(c) \in 1 .. Len(Codes) /\ Codes[Code(c)] = c BY <2>2 DEF Code
  <2>4. QED BY <2>1, <2>3
<1>2. \A c, d \in ToSet(Codes) : <<c, d>> \in CharacterOrder <=> Code(c) < Code(d)
  BY DEF CharacterOrder
<1>3. StrictTotal(CharacterOrder, ToSet(Codes)) BY <1>1, <1>2 DEF StrictTotal
<1>4. QED BY <1>3, LexicographicIsTotal DEF TextOrder, Texts

------------------------------------------------------------------------------
(* Tables: the rows                                                        *)

\* Every module of the list has texts whose characters have a code.
ListShowable ==
    /\ modules \in Seq(ToSet(modules))
    /\ \A i \in 1 .. Len(modules) : IsShowable(modules[i])

\* What a table is sorted by is a text, of the module or of its overlay.
LEMMA KeysAreTexts ==
    ASSUME NEW m, IsShowable(m), NEW o
    PROVE  SortKey(m, o) \in Texts
<1>1. m.module_id \in Texts /\ m.description \in Texts
      /\ (m.display # None => m.display.alias \in Texts \cup {None}
                              /\ m.display.description \in Texts \cup {None})
  BY DEF IsShowable, Texts
<1>2. ShownAlias(m, o) \in Texts
  BY <1>1 DEF ShownAlias, ShownText
<1>3. ShownDescription(m, o) \in Texts
  BY <1>1 DEF ShownDescription, ShownText
<1>4. QED BY <1>1, <1>2, <1>3 DEF SortKey

\* The order of the rows.
RowOrder(o) ==
    {p \in (1 .. Len(modules)) \X (1 .. Len(modules)) : ComesBefore(p[1], p[2], o)}

\* It puts the rows in a row: modules with the same key keep the order they came in.
LEMMA RowsOrdered ==
    ASSUME ListShowable, NEW o
    PROVE  StrictTotal(RowOrder(o), 1 .. Len(modules))
<1> DEFINE K == 1 .. Len(modules)
           key == [i \in K |-> SortKey(modules[i], o)]
<1>1. K \subseteq Nat BY DEF ListShowable
<1>2. \A i \in K : key[i] \in Texts /\ key[i] = SortKey(modules[i], o)
  BY KeysAreTexts DEF ListShowable
<1>3. \A i, j \in K : <<i, j>> \in RowOrder(o) <=> ComesBefore(i, j, o) BY DEF RowOrder
<1>4. CASE o.sort = None \/ o.sort.key \notin {"module_id", "alias", "description"}
  <2>1. \A i, j \in K : <<i, j>> \in RowOrder(o) <=> i < j BY <1>3, <1>4 DEF ComesBefore
  <2> HIDE DEF K
  <2>2. QED BY <1>1, <2>1 DEF StrictTotal, K
<1>5. CASE ~(o.sort = None \/ o.sort.key \notin {"module_id", "alias", "description"})
  <2> DEFINE Less(a, b) == IF o.sort.descending THEN <<b, a>> \in TextOrder ELSE <<a, b>> \in TextOrder
  <2>1. /\ \A a \in Texts : ~Less(a, a)
        /\ \A a, b, c \in Texts : Less(a, b) /\ Less(b, c) => Less(a, c)
        /\ \A a, b \in Texts : a = b \/ Less(a, b) \/ Less(b, a)
    BY TextsOrdered, Zenon DEF StrictTotal
  <2>2. \A i, j \in K : <<i, j>> \in RowOrder(o) <=> Less(key[i], key[j]) \/ (key[i] = key[j] /\ i < j)
    <3> SUFFICES ASSUME NEW i \in K, NEW j \in K
                 PROVE  <<i, j>> \in RowOrder(o) <=> Less(key[i], key[j]) \/ (key[i] = key[j] /\ i < j)
      OBVIOUS
    <3>1. PICK a, b : a = key[i] /\ b = key[j] OBVIOUS
    <3>2. a \in Texts /\ b \in Texts /\ a = SortKey(modules[i], o) /\ b = SortKey(modules[j], o)
      BY <1>2, <3>1
    <3>3. (TextLess(a, b) <=> <<a, b>> \in TextOrder) /\ (TextLess(b, a) <=> <<b, a>> \in TextOrder)
      BY <3>2, TextLessIs
    <3>4. ComesBefore(i, j, o) <=> Less(a, b) \/ (a = b /\ i < j)
      BY <1>5, <3>2, <3>3 DEF ComesBefore
    <3>5. QED BY <1>3, <3>1, <3>4
  <2> HIDE DEF K, key, Less
  <2>3. \A i \in K : key[i] \in Texts BY <1>2
  <2>4. \A i \in K : <<i, i>> \notin RowOrder(o) BY <1>1, <2>1, <2>2, <2>3
  <2>5. ASSUME NEW i \in K, NEW j \in K, NEW k \in K,
               <<i, j>> \in RowOrder(o), <<j, k>> \in RowOrder(o)
        PROVE  <<i, k>> \in RowOrder(o)
    <3>1. PICK a, b, c : a = key[i] /\ b = key[j] /\ c = key[k] OBVIOUS
    <3>2. a \in Texts /\ b \in Texts /\ c \in Texts BY <2>3, <3>1
    <3>3. (Less(a, b) \/ (a = b /\ i < j)) /\ (Less(b, c) \/ (b = c /\ j < k)) BY <2>2, <2>5, <3>1
    <3>4. i \in Nat /\ j \in Nat /\ k \in Nat BY <1>1
    <3>5. Less(a, c) \/ (a = c /\ i < k) BY <2>1, <3>2, <3>3, <3>4
    <3>6. QED BY <2>2, <3>1, <3>5
  <2>6. ASSUME NEW i \in K, NEW j \in K
        PROVE  i = j \/ <<i, j>> \in RowOrder(o) \/ <<j, i>> \in RowOrder(o)
    <3>1. PICK a, b : a = key[i] /\ b = key[j] OBVIOUS
    <3>2. a = b \/ Less(a, b) \/ Less(b, a) BY <2>1, <2>3, <3>1
    <3>3. i \in Nat /\ j \in Nat BY <1>1
    <3>4. i = j \/ i < j \/ j < i BY <3>3
    <3>5. QED BY <2>2, <3>1, <3>2, <3>4
  <2>7. QED BY <2>4, <2>5, <2>6 DEF StrictTotal, K
<1>6. QED BY <1>4, <1>5

\* The modules let through are shown, each once and in order.
LEMMA RowsAre ==
    ASSUME ListShowable, NEW o
    PROVE  ShowsWhatPasses(o, Rows(o)) /\ Rows(o) \in Seq(1 .. Len(modules))
<1> DEFINE K == 1 .. Len(modules)
           kept == {i \in K : PassesFilter(modules[i], o)}
<1>1. PICK rows : rows = Rows(o) OBVIOUS
<1>2. IsFiniteSet(kept)
  <2>1. 1 \in Int /\ Len(modules) \in Int BY DEF ListShowable
  <2>2. IsFiniteSet(K) BY <2>1, FS_Interval
  <2>3. kept \subseteq K OBVIOUS
  <2> HIDE DEF K, kept
  <2>4. QED BY <2>2, <2>3, FS_Subset
<1>3. StrictTotal(RowOrder(o), kept)
  <2>1. StrictTotal(RowOrder(o), K) BY RowsOrdered
  <2>2. kept \subseteq K OBVIOUS
  <2> HIDE DEF K, kept
  <2>3. QED BY <2>1, <2>2 DEF StrictTotal
<1>4. rows = Ranked(kept, RowOrder(o))
  <2>1. \A i, j \in kept : ComesBefore(j, i, o) <=> <<j, i>> \in RowOrder(o) BY DEF RowOrder
  <2>2. \A i \in kept : {j \in kept : ComesBefore(j, i, o)} = {j \in kept : <<j, i>> \in RowOrder(o)}
    <3> HIDE DEF kept
    <3>1. QED BY <2>1
  <2>3. Rows(o) = [r \in 1 .. Cardinality(kept) |->
           CHOOSE i \in kept : Cardinality({j \in kept : ComesBefore(j, i, o)}) = r - 1]
    BY DEF Rows
  <2> HIDE DEF kept
  <2>4. \A r : (CHOOSE i \in kept : Cardinality({j \in kept : ComesBefore(j, i, o)}) = r - 1)
              = (CHOOSE i \in kept : Cardinality({j \in kept : <<j, i>> \in RowOrder(o)}) = r - 1)
    BY <2>2
  <2>5. QED BY <1>1, <2>3, <2>4 DEF Ranked
<1>5. /\ rows \in Seq(kept) /\ ToSet(rows) = kept
      /\ \A r, q \in 1 .. Len(rows) : r < q => <<rows[r], rows[q]>> \in RowOrder(o)
  <2> HIDE DEF kept
  <2>1. QED BY <1>2, <1>3, <1>4, RankedIs
<1>6. rows \in Seq(K)
  <2>1. kept \subseteq K OBVIOUS
  <2> HIDE DEF K, kept
  <2>2. QED BY <1>5, <2>1
<1>7. \A r, q \in 1 .. Len(rows) : r < q => ComesBefore(rows[r], rows[q], o)
  <2> HIDE DEF kept
  <2>1. QED BY <1>5 DEF RowOrder
<1>8. ShowsWhatPasses(o, rows) BY <1>5, <1>7 DEF ShowsWhatPasses
<1>9. QED BY <1>1, <1>6, <1>8

------------------------------------------------------------------------------
(* Tables: the groups                                                      *)

\* The labels of a module are a list, whatever it is grouped by.
LEMMA LabelsListed ==
    ASSUME NEW m, IsShowable(m), NEW group_by
    PROVE  Labels(m, group_by) \in Seq(ToSet(Labels(m, group_by)))
<1>1. ASSUME NEW c PROVE <<c>> \in Seq(ToSet(<<c>>))
  <2>1. DOMAIN <<c>> = {1} /\ <<c>>[1] = c OBVIOUS
  <2>2. c \in ToSet(<<c>>) BY <2>1 DEF ToSet
  <2>3. QED BY <2>2, TextsOfParts
<1>2. m.tags \in Seq(ToSet(m.tags)) BY DEF IsShowable
<1>3. \/ Labels(m, group_by) = m.tags \/ \E c : Labels(m, group_by) = <<c>>
  BY Zenon DEF Labels
<1>4. QED BY <1>1, <1>2, <1>3

\* The rows of a group are those that have its label; every label has a group.
LEMMA GroupsAre ==
    ASSUME ListShowable, NEW rows \in Seq(1 .. Len(modules)), NEW group_by
    PROVE  /\ ToSet(LabelOrder(rows, group_by)) =
                UNION {ToSet(Labels(modules[rows[r]], group_by)) : r \in 1 .. Len(rows)}
           /\ \A label \in ToSet(LabelOrder(rows, group_by)) :
                ToSet(BuildGroups(rows, group_by)[label]) =
                    {r \in 1 .. Len(rows) : label \in ToSet(Labels(modules[rows[r]], group_by))}
<1> DEFINE n == Len(rows)
           labels == [r \in 1 .. n |-> Labels(modules[rows[r]], group_by)]
           L == UNION {ToSet(Labels(modules[rows[r]], group_by)) : r \in 1 .. n}
           times(r, label) == Cardinality({k \in DOMAIN labels[r] : labels[r][k] = label})
<1>1. n \in Nat /\ \A r \in 1 .. n : rows[r] \in 1 .. Len(modules) OBVIOUS
<1>2. \A r \in 1 .. n : /\ labels[r] = Labels(modules[rows[r]], group_by)
                        /\ labels[r] \in Seq(ToSet(labels[r])) /\ ToSet(labels[r]) \subseteq L
  <2> SUFFICES ASSUME NEW r \in 1 .. n
               PROVE  /\ labels[r] = Labels(modules[rows[r]], group_by)
                      /\ labels[r] \in Seq(ToSet(labels[r])) /\ ToSet(labels[r]) \subseteq L
    OBVIOUS
  <2>1. PICK m : m = modules[rows[r]] OBVIOUS
  <2>2. IsShowable(m) BY <1>1, <2>1 DEF ListShowable
  <2>3. labels[r] = Labels(m, group_by) BY <2>1
  <2>4. labels[r] \in Seq(ToSet(labels[r])) BY <2>2, <2>3, LabelsListed
  <2>5. QED BY <2>1, <2>3, <2>4
<1>3. labels \in Seq(Seq(L)) /\ Len(labels) = n
  <2>1. labels = [r \in 1 .. n |-> labels[r]] OBVIOUS
  <2> HIDE DEF labels, L, n
  <2>2. \A r \in 1 .. n : labels[r] \in Seq(L) BY <1>2
  <2>3. QED BY <1>1, <2>1, <2>2
<1>4. L = UNION {ToSet(labels[r]) : r \in 1 .. n} BY <1>2
<1>5. ToSet(LabelOrder(rows, group_by)) = L
  <2>1. PICK all : all = FlattenSeq(labels) OBVIOUS
  <2>2. LabelOrder(rows, group_by) = FlattenSeq([i \in 1 .. Len(all) |->
            IF \E j \in 1 .. (i - 1) : all[j] = all[i] THEN <<>> ELSE <<all[i]>>])
    BY <2>1 DEF LabelOrder
  <2> HIDE DEF labels, L, n
  <2>3. all \in Seq(L) /\ ToSet(all) = L BY <1>3, <1>4, <2>1, FlattenTyped, FlattenHas
  <2>4. QED BY <2>2, <2>3, FirstOnes
<1>6. ASSUME NEW label \in L
      PROVE  ToSet(BuildGroups(rows, group_by)[label]) = {r \in 1 .. n : label \in ToSet(labels[r])}
  <2> DEFINE F == [r \in 1 .. n |-> [k \in 1 .. times(r, label) |-> r]]
  <2>1. BuildGroups(rows, group_by)[label] = FlattenSeq(F)
    <3> DEFINE G == [r \in 1 .. n |->
                   [k \in 1 .. Cardinality({j \in DOMAIN Labels(modules[rows[r]], group_by) :
                                     Labels(modules[rows[r]], group_by)[j] = label}) |->
                       [q \in 1 .. Len(rows) |-> q][r]]]
    <3>1. \A r \in 1 .. n : /\ Labels(modules[rows[r]], group_by) = labels[r]
                            /\ [q \in 1 .. Len(rows) |-> q][r] = r
      BY <1>2
    <3>2. ASSUME NEW r \in 1 .. n PROVE F[r] = G[r]
      <4>1. PICK lab : lab = labels[r] OBVIOUS
      <4>2. PICK c : c = Cardinality({k \in DOMAIN lab : lab[k] = label}) OBVIOUS
      <4>3. F[r] = [k \in 1 .. c |-> r]
        <5>1. F[r] = [k \in 1 .. times(r, label) |-> r] OBVIOUS
        <5>2. times(r, label) = c
          <6> HIDE DEF labels
          <6>1. QED BY <4>1, <4>2
        <5> HIDE DEF labels, F, times
        <5>3. QED BY <5>1, <5>2
      <4>4. Labels(modules[rows[r]], group_by) = lab BY <3>1, <4>1
      <4>5. [q \in 1 .. Len(rows) |-> q][r] = r BY <3>1
      <4>6. G[r] = [k \in 1 .. c |-> r]
        <5> HIDE DEF F, labels
        <5>1. QED BY <4>2, <4>4, <4>5
      <4> HIDE DEF F, G
      <4>7. QED BY <4>3, <4>6
    <3>5. F = G
      <4>1. F = [r \in 1 .. n |-> F[r]] /\ G = [r \in 1 .. n |-> G[r]] OBVIOUS
      <4> HIDE DEF F, G, n
      <4>2. QED BY <3>2, <4>1
    <3>3. BuildGroups(rows, group_by)[label] = FlattenSeq(G)
      <4> HIDE DEF F, labels
      <4>1. QED BY <1>6, Zenon DEF BuildGroups, GroupsListing
    <3>4. QED BY <3>3, <3>5
  <2>2. ASSUME NEW r \in 1 .. n
        PROVE  F[r] \in Seq(1 .. n) /\ ToSet(F[r]) = IF label \in ToSet(labels[r]) THEN {r} ELSE {}
    <3> DEFINE has == {k \in DOMAIN labels[r] : labels[r][k] = label}
    <3>1. PICK c : c = Cardinality(has) OBVIOUS
    <3>2. F[r] = [k \in 1 .. c |-> r] BY <3>1
    <3>3. IsFiniteSet(has)
      <4>1. PICK m : m = Len(labels[r]) OBVIOUS
      <4>2. DOMAIN labels[r] = 1 .. m /\ m \in Nat
        <5> HIDE DEF labels
        <5>1. QED BY <1>2, <4>1
      <4>3. IsFiniteSet(1 .. m) BY <4>2, FS_Interval
      <4>4. has \subseteq 1 .. m BY <4>2
      <4> HIDE DEF has
      <4>5. QED BY <4>3, <4>4, FS_Subset
    <3>4. has = {} <=> label \notin ToSet(labels[r])
      <4> HIDE DEF labels
      <4>1. QED BY DEF ToSet
    <3> HIDE DEF has, F, labels
    <3>5. c \in Nat /\ (c = 0 <=> has = {}) BY <3>1, <3>3, FS_CardinalityType, FS_EmptySet
    <3>6. F[r] \in Seq(1 .. n)
      <4> HIDE DEF n
      <4>1. \A k \in 1 .. c : r \in 1 .. n OBVIOUS
      <4>2. QED BY <3>2, <3>5, <4>1
    <3>7. DOMAIN F[r] = 1 .. c /\ \A k \in 1 .. c : F[r][k] = r BY <3>2
    <3>8. CASE c = 0
      <4>1. DOMAIN F[r] = {} BY <3>7, <3>8
      <4>2. QED BY <3>4, <3>5, <3>6, <3>8, <4>1 DEF ToSet
    <3>9. CASE c # 0
      <4>1. 1 \in 1 .. c BY <3>5, <3>9
      <4>2. ToSet(F[r]) = {r} BY <3>7, <4>1 DEF ToSet
      <4>3. QED BY <3>4, <3>5, <3>6, <3>9, <4>2
    <3>10. QED BY <3>8, <3>9
  <2>3. F \in Seq(Seq(1 .. n)) /\ Len(F) = n
    <3>1. F = [r \in 1 .. n |-> F[r]] OBVIOUS
    <3> HIDE DEF F, n, labels
    <3>2. PICK S : S = Seq(1 .. n) OBVIOUS
    <3>3. \A r \in 1 .. n : F[r] \in S BY <2>2, <3>2
    <3>4. n \in Nat BY <1>1
    <3>5. F \in [1 .. n -> S] BY <3>1, <3>3
    <3>6. F \in Seq(S) /\ Len(F) = n BY <3>4, <3>5
    <3>7. QED BY <3>2, <3>6
  <2> HIDE DEF F, labels, L
  <2>4. ToSet(FlattenSeq(F)) = UNION {ToSet(F[r]) : r \in 1 .. n} BY <2>3, FlattenHas
  <2>5. UNION {ToSet(F[r]) : r \in 1 .. n} = {r \in 1 .. n : label \in ToSet(labels[r])}
    <3>1. \A r \in 1 .. n : ToSet(F[r]) = IF label \in ToSet(labels[r]) THEN {r} ELSE {} BY <2>2
    <3> HIDE DEF n
    <3>2. ASSUME NEW x \in UNION {ToSet(F[r]) : r \in 1 .. n}
          PROVE  x \in {r \in 1 .. n : label \in ToSet(labels[r])}
      <4>1. PICK r \in 1 .. n : x \in ToSet(F[r]) OBVIOUS
      <4>2. label \in ToSet(labels[r]) /\ x = r BY <3>1, <4>1
      <4>3. QED BY <4>2
    <3>3. ASSUME NEW x \in {r \in 1 .. n : label \in ToSet(labels[r])}
          PROVE  x \in UNION {ToSet(F[r]) : r \in 1 .. n}
      <4>1. x \in 1 .. n /\ ToSet(F[x]) = {x} BY <3>1
      <4>2. QED BY <4>1
    <3>4. QED BY <3>2, <3>3
  <2>6. QED BY <2>1, <2>4, <2>5
<1>7. ASSUME NEW label \in L
      PROVE  {r \in 1 .. n : label \in ToSet(labels[r])} =
             {r \in 1 .. n : label \in ToSet(Labels(modules[rows[r]], group_by))}
  BY <1>2
<1> HIDE DEF labels
<1>8. QED BY <1>5, <1>6, <1>7

------------------------------------------------------------------------------
(* Tables: what is written                                               *)

\* A field that is not left out is as it was.
LEMMA KeptField ==
    ASSUME NEW record, NEW absent, NEW f \in DOMAIN record, f \notin absent
    PROVE  f \in DOMAIN Without(record, absent) /\ Without(record, absent)[f] = record[f]
BY DEF Without

\* The parts of a table that are written.
WrittenIs(w, o, rows) ==
    /\ w.columns = [k \in DOMAIN o.columns |-> ColumnValue(ColumnOf(o.columns[k], o))]
    /\ w.rows = [r \in DOMAIN rows |->
           RowValue([k \in DOMAIN o.columns |-> CellFor(o.columns[k], modules[rows[r]], o)],
                    modules[rows[r]].tags)]
    /\ o.grouped => w.groups = GroupValues(rows, o)
    /\ o.tone_palettes # <<>> => w.tone_palettes =
           [k \in DOMAIN o.tone_palettes |-> PaletteValue(o.tone_palettes[k])]

\* They are what the options and the rows make them.
LEMMA WrittenHas == ASSUME NEW o, NEW rows PROVE WrittenIs(Written(rows, o), o, rows)
<1>1. PICK version, kind, title, columns, filled, groups, sort, filter, palettes :
        /\ version = 1 /\ kind = ViewKind(o) /\ title = o.title
        /\ columns = [k \in DOMAIN o.columns |-> ColumnValue(ColumnOf(o.columns[k], o))]
        /\ filled = [r \in DOMAIN rows |->
               RowValue([k \in DOMAIN o.columns |-> CellFor(o.columns[k], modules[rows[r]], o)],
                        modules[rows[r]].tags)]
        /\ groups = GroupValues(rows, o) /\ sort = SortValue(o.sort) /\ filter = o.filter
        /\ palettes = [k \in DOMAIN o.tone_palettes |-> PaletteValue(o.tone_palettes[k])]
  OBVIOUS
<1> DEFINE all == [schema_version |-> version, kind |-> kind, title |-> title, columns |-> columns,
                   rows |-> filled, groups |-> groups, sort |-> sort, filter |-> filter,
                   tone_palettes |-> palettes]
           absent == {f \in {"title", "sort", "filter"} : o[f] = None} \cup {f \in {"groups"} : ~o.grouped}
                         \cup {f \in {"tone_palettes"} : o[f] = <<>>}
<1>2. Written(rows, o) = Without(all, absent) BY <1>1 DEF Written
<1>3. /\ {"columns", "rows", "groups", "tone_palettes"} \subseteq DOMAIN all
      /\ all["columns"] = columns /\ all["rows"] = filled /\ all["groups"] = groups
      /\ all["tone_palettes"] = palettes
  OBVIOUS
<1>4. /\ "columns" \notin absent /\ "rows" \notin absent
      /\ o.grouped => "groups" \notin absent
      /\ o.tone_palettes # <<>> => "tone_palettes" \notin absent
  OBVIOUS
<1> HIDE DEF all, absent
<1>5. PICK w : w = Written(rows, o) OBVIOUS
<1>6. /\ w["columns"] = columns /\ w["rows"] = filled
      /\ o.grouped => w["groups"] = groups
      /\ o.tone_palettes # <<>> => w["tone_palettes"] = palettes
  BY <1>2, <1>3, <1>4, <1>5, KeptField
<1>7. QED BY <1>1, <1>5, <1>6 DEF WrittenIs

\* A column is read by its key; only the one of the tags has a palette, the first.
LEMMA ColumnHas ==
    ASSUME NEW key, NEW o
    PROVE  LET column == ColumnValue(ColumnOf(key, o))
           IN  /\ column.key = key
               /\ "tone_by" \in DOMAIN column =>
                    key = "tags" /\ o.tone_palettes # <<>> /\ column.tone_by = o.tone_palettes[1].name
<1> DEFINE by == IF key = "tags" /\ o.tone_palettes # <<>> THEN o.tone_palettes[1].name ELSE None
<1>1. PICK b, label : b = by /\ label = ColumnLabel(key) OBVIOUS
<1> DEFINE c == [key |-> key, label |-> label, justify |-> "left", tone_by |-> b]
           absent == {f \in {"justify"} : c[f] = "left"} \cup {f \in {"tone_by"} : c[f] = None}
<1>2. ColumnValue(ColumnOf(key, o)) = Without(c, absent) BY <1>1 DEF ColumnValue, ColumnOf
<1>3. "key" \in DOMAIN c /\ "key" \notin absent /\ c["key"] = key /\ c["tone_by"] = b OBVIOUS
<1>4. "tone_by" \in DOMAIN c /\ (b = None => "tone_by" \in absent) OBVIOUS
<1>5. b # None => key = "tags" /\ o.tone_palettes # <<>> /\ b = o.tone_palettes[1].name BY <1>1
<1> HIDE DEF c, absent
<1>6. PICK column : column = ColumnValue(ColumnOf(key, o)) OBVIOUS
<1>7. column["key"] = key BY <1>2, <1>3, <1>6, KeptField
<1>8. ASSUME "tone_by" \in DOMAIN column PROVE column["tone_by"] = b /\ b # None
  <2>1. "tone_by" \notin absent BY <1>2, <1>6, <1>8 DEF Without
  <2>2. QED BY <1>2, <1>3, <1>4, <1>6, <2>1, KeptField
<1>9. QED BY <1>5, <1>6, <1>7, <1>8

\* A cell with a text says that text.
LEMMA TextCellHas == \A value : CellValue(TextCell(value)).value = value
<1> SUFFICES ASSUME NEW value PROVE CellValue(TextCell(value)).value = value OBVIOUS
<1> DEFINE c == [kind |-> "text", value |-> value, tone |-> None]
           absent == {f \in {"tone"} : c[f] = None}
<1>1. CellValue(TextCell(value)) = Without(c, absent) BY DEF CellValue, TextCell
<1>2. "value" \in DOMAIN c /\ "value" \notin absent /\ c["value"] = value OBVIOUS
<1> HIDE DEF c, absent
<1>3. Without(c, absent)["value"] = value BY <1>2, KeptField
<1>4. QED BY <1>1, <1>3

\* A row has its cells, and its tags even if none are written.
LEMMA RowHas ==
    ASSUME NEW cells, NEW tags
    PROVE  LET row == RowValue(cells, tags)
           IN  /\ row.cells = [k \in DOMAIN cells |-> CellValue(cells[k])]
               /\ tags = IF "tags" \in DOMAIN row THEN row.tags ELSE <<>>
<1>1. PICK values : values = [k \in DOMAIN cells |-> CellValue(cells[k])] OBVIOUS
<1> DEFINE c == [cells |-> values, tags |-> tags]
           absent == {f \in {"tags"} : tags = <<>>}
<1>2. RowValue(cells, tags) = Without(c, absent) BY <1>1 DEF RowValue
<1>3. /\ "cells" \in DOMAIN c /\ "cells" \notin absent /\ c["cells"] = values
      /\ "tags" \in DOMAIN c /\ c["tags"] = tags /\ ("tags" \in absent <=> tags = <<>>)
  OBVIOUS
<1> HIDE DEF c, absent
<1>4. PICK row : row = RowValue(cells, tags) OBVIOUS
<1>5. row["cells"] = values BY <1>2, <1>3, <1>4, KeptField
<1>6. CASE tags = <<>>
  <2>1. "tags" \notin DOMAIN row BY <1>2, <1>3, <1>4, <1>6 DEF Without
  <2>2. QED BY <1>1, <1>4, <1>5, <1>6, <2>1
<1>7. CASE tags # <<>>
  <2>1. "tags" \in DOMAIN row /\ row["tags"] = tags BY <1>2, <1>3, <1>4, <1>7, KeptField
  <2>2. QED BY <1>1, <1>4, <1>5, <2>1
<1>8. QED BY <1>6, <1>7

\* A column names a palette that is given.
LEMMA PalettesNamed ==
    ASSUME NEW o \in ViewOptions, NEW rows
    PROVE  PalettesGiven(Written(rows, o))
<1>1. PICK w : w = Written(rows, o) OBVIOUS
<1>2. /\ w.columns = [k \in DOMAIN o.columns |-> ColumnValue(ColumnOf(o.columns[k], o))]
      /\ o.tone_palettes # <<>> => w.tone_palettes =
             [k \in DOMAIN o.tone_palettes |-> PaletteValue(o.tone_palettes[k])]
  BY <1>1, WrittenHas DEF WrittenIs
<1>3. ASSUME NEW k \in DOMAIN w.columns, "tone_by" \in DOMAIN w.columns[k]
      PROVE  \E p \in DOMAIN w.tone_palettes : w.tone_palettes[p].name = w.columns[k].tone_by
  <2>1. PICK key : key = o.columns[k] OBVIOUS
  <2>2. w.columns[k] = ColumnValue(ColumnOf(key, o)) BY <1>2, <2>1
  <2>3. o.tone_palettes # <<>> /\ w.columns[k].tone_by = o.tone_palettes[1].name
    BY <1>3, <2>2, ColumnHas
  <2>4. PICK palettes : palettes = o.tone_palettes OBVIOUS
  <2>5. palettes \in Seq(ToSet(palettes)) BY <2>4, ViewAssumption DEF ViewAssumption
  <2>6. 1 \in DOMAIN palettes BY <2>3, <2>4, <2>5
  <2>7. 1 \in DOMAIN w.tone_palettes /\ w.tone_palettes[1] = PaletteValue(palettes[1])
    BY <1>2, <2>3, <2>4, <2>6
  <2>8. PaletteValue(palettes[1]).name = palettes[1].name BY DEF PaletteValue
  <2>9. QED BY <2>3, <2>4, <2>7, <2>8
<1>4. QED BY <1>1, <1>3 DEF PalettesGiven

\* In each row a reader finds its own module.
LEMMA RowsSay ==
    ASSUME ListShowable, NEW o \in ViewOptions, NEW rows \in Seq(1 .. Len(modules))
    PROVE  /\ Len(Written(rows, o).rows) = Len(rows)
           /\ \A r \in 1 .. Len(rows) : RowSays(o, modules[rows[r]], Written(rows, o), r)
<1>1. PICK w, n : w = Written(rows, o) /\ n = Len(rows) OBVIOUS
<1>2. n \in Nat /\ DOMAIN rows = 1 .. n BY <1>1
<1>3. PICK keys, c : keys = o.columns /\ c = Len(keys) OBVIOUS
<1>4. c \in Nat /\ DOMAIN keys = 1 .. c
  <2>1. keys \in Seq(ToSet(keys)) BY <1>3, ViewAssumption DEF ViewAssumption
  <2>2. QED BY <1>3, <2>1
<1>5. /\ w.columns = [k \in 1 .. c |-> ColumnValue(ColumnOf(keys[k], o))]
      /\ w.rows = [r \in 1 .. n |->
             RowValue([k \in 1 .. c |-> CellFor(keys[k], modules[rows[r]], o)], modules[rows[r]].tags)]
  <2>1. /\ w.columns = [k \in DOMAIN o.columns |-> ColumnValue(ColumnOf(o.columns[k], o))]
        /\ w.rows = [r \in DOMAIN rows |->
               RowValue([k \in DOMAIN o.columns |-> CellFor(o.columns[k], modules[rows[r]], o)],
                        modules[rows[r]].tags)]
    <3>1. WrittenIs(w, o, rows) BY <1>1, WrittenHas
    <3>2. QED BY <3>1 DEF WrittenIs
  <2>2. DOMAIN o.columns = 1 .. c /\ DOMAIN rows = 1 .. n /\ o.columns = keys BY <1>2, <1>3, <1>4
  <2>3. QED BY <2>1, <2>2, Zenon
<1>6. Len(w.rows) = n
  <2>1. PICK f : f = w.rows OBVIOUS
  <2>2. f = [r \in 1 .. n |-> f[r]] BY <1>5, <2>1
  <2>3. QED BY <1>2, <2>1, <2>2, ListLen
<1>7. ASSUME NEW r \in 1 .. n PROVE RowSays(o, modules[rows[r]], w, r)
  <2>1. PICK m, cells, row :
          /\ m = modules[rows[r]] /\ cells = [k \in 1 .. c |-> CellFor(keys[k], m, o)]
          /\ row = w.rows[r]
    OBVIOUS
  <2>2. row = RowValue(cells, m.tags) BY <1>5, <2>1
  <2>3. /\ row.cells = [k \in DOMAIN cells |-> CellValue(cells[k])]
        /\ m.tags = IF "tags" \in DOMAIN row THEN row.tags ELSE <<>>
    BY <2>2, RowHas
  <2>4. DOMAIN cells = 1 .. c /\ \A k \in 1 .. c : cells[k] = CellFor(keys[k], m, o) BY <2>1
  <2>5. row.cells = [k \in 1 .. c |-> CellValue(CellFor(keys[k], m, o))] BY <2>3, <2>4
  <2>6. DOMAIN w.columns = 1 .. c /\ \A k \in 1 .. c : w.columns[k].key = keys[k]
    <3>1. \A k \in 1 .. c : w.columns[k] = ColumnValue(ColumnOf(keys[k], o)) BY <1>5
    <3>2. QED BY <1>5, <3>1, ColumnHas
  <2>7. Len(row.cells) = Len(w.columns)
    <3>1. PICK f, g : f = row.cells /\ g = w.columns OBVIOUS
    <3>2. f = [k \in 1 .. c |-> f[k]] BY <2>5, <3>1
    <3>3. g = [k \in 1 .. c |-> g[k]] BY <1>5, <3>1
    <3>4. Len(f) = c BY <1>4, <3>2, ListLen
    <3>5. Len(g) = c BY <1>4, <3>3, ListLen
    <3>6. QED BY <3>1, <3>4, <3>5
  <2>8. PICK seen : seen = ReadRow(w, r) OBVIOUS
  <2>9. seen.tags = m.tags BY <2>1, <2>3, <2>8 DEF ReadRow
  <2>10. ASSUME NEW key \in DOMAIN seen.cells, NEW value, CellFor(key, m, o) = TextCell(value)
         PROVE  seen.cells[key].value = value
    <3>1. PICK at : at = CHOOSE k \in DOMAIN w.columns : w.columns[k].key = key OBVIOUS
    <3>2. /\ DOMAIN seen.cells = {w.columns[k].key : k \in DOMAIN w.columns}
          /\ seen.cells[key] = row.cells[at]
      BY <2>1, <2>8, <2>10, <3>1 DEF ReadRow
    <3>3. \E k \in DOMAIN w.columns : w.columns[k].key = key BY <2>10, <3>2
    <3>4. at \in DOMAIN w.columns /\ w.columns[at].key = key BY <3>1, <3>3
    <3>5. at \in 1 .. c /\ keys[at] = key BY <2>6, <3>4
    <3>6. row.cells[at] = CellValue(CellFor(keys[at], m, o)) BY <2>5, <3>5
    <3>7. row.cells[at] = CellValue(TextCell(value)) BY <2>10, <3>5, <3>6
    <3>8. QED BY <3>2, <3>7, TextCellHas
  <2>11. /\ CellFor("module_id", m, o) = TextCell(m.module_id)
         /\ CellFor("alias", m, o) = TextCell(ShownAlias(m, o))
         /\ CellFor("description", m, o) = TextCell(ShownDescription(m, o))
    BY DEF CellFor
  <2>12. /\ "module_id" \in DOMAIN seen.cells => seen.cells["module_id"].value = m.module_id
         /\ "alias" \in DOMAIN seen.cells => seen.cells["alias"].value = ShownAlias(m, o)
         /\ "description" \in DOMAIN seen.cells =>
                seen.cells["description"].value = ShownDescription(m, o)
    BY <2>10, <2>11
  <2>13. QED BY <2>1, <2>7, <2>8, <2>9, <2>12 DEF RowSays
<1>8. QED BY <1>1, <1>6, <1>7

\* In a grouped table each row is under the labels of its module.
LEMMA GroupsSay ==
    ASSUME ListShowable, NEW o, o.grouped, NEW rows \in Seq(1 .. Len(modules)),
           NEW r \in 1 .. Len(rows)
    PROVE  GroupsOfRow(Written(rows, o).groups, Labels(modules[rows[r]], o.group_by), r)
<1>1. PICK groups, by, order, labels :
        /\ groups = Written(rows, o).groups /\ by = o.group_by /\ order = LabelOrder(rows, by)
        /\ labels = Labels(modules[rows[r]], by)
  OBVIOUS
<1>2. groups = [g \in DOMAIN order |->
                   [label |-> order[g], row_indices |-> BuildGroups(rows, by)[order[g]]]]
  <2>1. groups = GroupValues(rows, o) BY <1>1, WrittenHas DEF WrittenIs
  <2>2. QED BY <1>1, <2>1 DEF GroupValues
<1>3. /\ ToSet(order) = UNION {ToSet(Labels(modules[rows[q]], by)) : q \in 1 .. Len(rows)}
      /\ \A label \in ToSet(order) :
            ToSet(BuildGroups(rows, by)[label]) =
                {q \in 1 .. Len(rows) : label \in ToSet(Labels(modules[rows[q]], by))}
  BY <1>1, GroupsAre
<1>4. ASSUME NEW g \in ToSet(groups)
      PROVE  g.label \in ToSet(order) /\ (r \in ToSet(g.row_indices) <=> g.label \in ToSet(labels))
  <2>1. PICK k \in DOMAIN order :
          g = [label |-> order[k], row_indices |-> BuildGroups(rows, by)[order[k]]]
    BY <1>2 DEF ToSet
  <2>2. PICK label : label = order[k] OBVIOUS
  <2>3. label \in ToSet(order) BY <2>2 DEF ToSet
  <2>4. g.label = label /\ g.row_indices = BuildGroups(rows, by)[label] BY <2>1, <2>2
  <2>5. r \in ToSet(g.row_indices) <=> label \in ToSet(labels)
    BY <1>1, <1>3, <2>3, <2>4
  <2>6. QED BY <2>3, <2>4, <2>5
<1>5. ASSUME NEW label \in ToSet(labels) PROVE \E g \in ToSet(groups) : g.label = label
  <2>1. label \in ToSet(order) BY <1>1, <1>3
  <2>2. PICK k \in DOMAIN order : label = order[k] BY <2>1 DEF ToSet
  <2>3. k \in DOMAIN groups /\ groups[k].label = label BY <1>2, <2>2
  <2>4. groups[k] \in ToSet(groups) BY <2>3 DEF ToSet
  <2>5. QED BY <2>3, <2>4
<1>6. GroupsOfRow(groups, labels, r) BY <1>4, <1>5 DEF GroupsOfRow
<1>7. QED BY <1>1, <1>6

------------------------------------------------------------------------------
(* Tables: the theorem                                                     *)

\* The inductive invariant.
TableInv == ListShowable /\ RowsGrouped

\* Before any table.
LEMMA TableStarts == TableInit => TableInv
BY DEF TableInit, TableInv, ListShowable, RowsGrouped, ViewIdle

\* Showing one.
LEMMA TableStep == TableInv /\ [ShowTable]_<<stage, modules, viewVars>> => TableInv'
<1> SUFFICES ASSUME TableInv, [ShowTable]_<<stage, modules, viewVars>> PROVE TableInv' OBVIOUS
<1>1. modules' = modules BY DEF ShowTable, viewVars
<1>2. ListShowable' BY <1>1 DEF TableInv, ListShowable
<1>3. CASE ShowTable
  <2>1. PICK o \in ViewOptions :
          view' = [options |-> o, rows |-> Rows(o), written |-> Written(Rows(o), o)]
    BY <1>3 DEF ShowTable
  <2>2. PICK rows, table : rows = Rows(o) /\ table = Written(rows, o) OBVIOUS
  <2>3. view'.options = o /\ view'.rows = rows /\ view'.written = table BY <2>1, <2>2
  <2>4. ListShowable BY DEF TableInv
  <2>5. ShowsWhatPasses(o, rows) /\ rows \in Seq(1 .. Len(modules)) BY <2>2, <2>4, RowsAre
  <2>6. PalettesGiven(table) BY <2>2, PalettesNamed
  <2>7. /\ Len(table.rows) = Len(rows)
        /\ \A r \in 1 .. Len(rows) : RowSays(o, modules[rows[r]], table, r)
    BY <2>2, <2>4, <2>5, RowsSay
  <2>8. \A r \in 1 .. Len(rows) : o.grouped =>
            GroupsOfRow(table.groups, Labels(modules[rows[r]], o.group_by), r)
    BY <2>2, <2>4, <2>5, GroupsSay
  <2>9. ShowsWhatPasses(o, rows)'
    BY <1>1, <2>5 DEF ShowsWhatPasses, ComesBefore
  <2>10. RowsGrouped'
    <3>1. /\ ShowsWhatPasses(o, rows)' /\ PalettesGiven(table)
          /\ Len(table.rows) = Len(rows)
          /\ \A r \in 1 .. Len(rows) :
               /\ RowSays(o, modules'[rows[r]], table, r)
               /\ o.grouped => GroupsOfRow(table.groups, Labels(modules'[rows[r]], o.group_by), r)
      BY <1>1, <2>6, <2>7, <2>8, <2>9
    <3>2. QED BY <2>3, <3>1 DEF RowsGrouped, ShowsWhatPasses, ComesBefore
  <2>11. QED BY <1>2, <2>10 DEF TableInv
<1>4. CASE UNCHANGED <<stage, modules, viewVars>>
  <2>1. view' = view /\ modules' = modules BY <1>4 DEF viewVars
  <2>2. RowsGrouped' BY <2>1 DEF TableInv, RowsGrouped, ShowsWhatPasses, ComesBefore
  <2>3. QED BY <1>2, <2>2 DEF TableInv
<1>5. QED BY <1>3, <1>4

\* Whatever the modules, their texts and tags, and the options a caller asks with: every table shows
\* the modules its filter lets through and no other, each once and in the order asked for; each row
\* says what its own module says and is under its labels alone; and a palette a column names is one
\* of those given (modules_to_view_model, build_groups, format_view_model).
THEOREM ReaderFindsRows == TableSpec => []RowsGrouped
<1>1. TableInv => RowsGrouped BY DEF TableInv
<1>2. QED BY TableStarts, TableStep, <1>1, PTL DEF TableSpec

------------------------------------------------------------------------------
(* CSV: a reader, character by character                                   *)

\* Readers of texts of characters X.
Readers(X) ==
    [mode : {"text", "quotes", "quote"}, cell : Seq(X), row : Seq(Seq(X)), rows : Seq(Seq(Seq(X)))]

\* The characters that mean something differ.
LEMMA SpecialDiffer ==
    /\ Comma # Quote /\ Comma # Return /\ Comma # LineFeed
    /\ Quote # Return /\ Quote # LineFeed /\ Return # LineFeed
BY Zenon DEF Comma, Quote, Return, LineFeed

\* Readers are made of what they have read.
LEMMA ReaderIs ==
    ASSUME NEW mode, NEW cell, NEW row, NEW rows
    PROVE  LET r == Reader(mode, cell, row, rows)
           IN  r.mode = mode /\ r.cell = cell /\ r.row = row /\ r.rows = rows
BY DEF Reader

LEMMA ReaderTyped ==
    ASSUME NEW X, NEW mode \in {"text", "quotes", "quote"}, NEW cell \in Seq(X),
           NEW row \in Seq(Seq(X)), NEW rows \in Seq(Seq(Seq(X)))
    PROVE  Reader(mode, cell, row, rows) \in Readers(X)
BY DEF Reader, Readers

\* What a reader makes of a character, by where it is.
LEMMA ReadsWithin ==
    ASSUME NEW cell, NEW row, NEW rows, NEW c
    PROVE  /\ c # Quote => ReadCharacter(Reader("quotes", cell, row, rows), c)
                             = Reader("quotes", Append(cell, c), row, rows)
           /\ ReadCharacter(Reader("quotes", cell, row, rows), Quote) = Reader("quote", cell, row, rows)
           /\ ReadCharacter(Reader("quote", cell, row, rows), Quote)
                = Reader("quotes", Append(cell, Quote), row, rows)
           /\ ReadCharacter(Reader("text", <<>>, row, rows), Quote) = Reader("quotes", <<>>, row, rows)
<1>1. c # Quote => ReadCharacter(Reader("quotes", cell, row, rows), c)
                     = Reader("quotes", Append(cell, c), row, rows)
  BY ReaderIs DEF ReadCharacter
<1>2. ReadCharacter(Reader("quotes", cell, row, rows), Quote) = Reader("quote", cell, row, rows)
  BY ReaderIs DEF ReadCharacter
<1>3. ReadCharacter(Reader("quote", cell, row, rows), Quote)
        = Reader("quotes", Append(cell, Quote), row, rows)
  BY ReaderIs, SpecialDiffer DEF ReadCharacter
<1>4. ReadCharacter(Reader("text", <<>>, row, rows), Quote) = Reader("quotes", <<>>, row, rows)
  BY ReaderIs, SpecialDiffer DEF ReadCharacter
<1>5. QED BY <1>1, <1>2, <1>3, <1>4

LEMMA ReadsOutside ==
    ASSUME NEW cell, NEW row, NEW rows, NEW c, c \notin Special
    PROVE  ReadCharacter(Reader("text", cell, row, rows), c)
             = Reader("text", Append(cell, c), row, rows)
BY ReaderIs DEF ReadCharacter, Special

LEMMA ReadsEnds ==
    ASSUME NEW mode \in {"text", "quote"}, NEW cell, NEW row, NEW rows
    PROVE  /\ ReadCharacter(Reader(mode, cell, row, rows), Comma)
                = Reader("text", <<>>, Append(row, cell), rows)
           /\ ReadCharacter(Reader(mode, cell, row, rows), Return) = Reader(mode, cell, row, rows)
           /\ ReadCharacter(Reader(mode, cell, row, rows), LineFeed)
                = Reader("text", <<>>, <<>>, Append(rows, Append(row, cell)))
BY ReaderIs, SpecialDiffer DEF ReadCharacter

LEMMA ReadTyped ==
    ASSUME NEW X, NEW r \in Readers(X), NEW c \in X
    PROVE  ReadCharacter(r, c) \in Readers(X)
<1>1. /\ r.mode \in {"text", "quotes", "quote"} /\ r.cell \in Seq(X) /\ r.row \in Seq(Seq(X))
      /\ r.rows \in Seq(Seq(Seq(X)))
  BY DEF Readers
<1>2. Append(r.cell, c) \in Seq(X) /\ <<>> \in Seq(X) /\ <<>> \in Seq(Seq(X)) BY <1>1
<1>3. Append(r.row, r.cell) \in Seq(Seq(X)) BY <1>1
<1>4. Append(r.rows, Append(r.row, r.cell)) \in Seq(Seq(Seq(X))) BY <1>1, <1>3
<1>5. \/ ReadCharacter(r, c) = r
      \/ \E m \in {"text", "quotes", "quote"}, x \in {r.cell, <<>>, Append(r.cell, c)},
            y \in {r.row, <<>>, Append(r.row, r.cell)},
            z \in {r.rows, Append(r.rows, Append(r.row, r.cell))} :
              ReadCharacter(r, c) = Reader(m, x, y, z)
  BY <1>1 DEF ReadCharacter
<1>6. CASE ReadCharacter(r, c) # r
  <2>1. PICK m \in {"text", "quotes", "quote"}, x \in {r.cell, <<>>, Append(r.cell, c)},
             y \in {r.row, <<>>, Append(r.row, r.cell)},
             z \in {r.rows, Append(r.rows, Append(r.row, r.cell))} :
               ReadCharacter(r, c) = Reader(m, x, y, z)
    BY <1>5, <1>6
  <2>2. x \in Seq(X) /\ y \in Seq(Seq(X)) /\ z \in Seq(Seq(Seq(X))) BY <1>1, <1>2, <1>3, <1>4
  <2>3. QED BY <2>1, <2>2, ReaderTyped
<1>7. QED BY <1>6

------------------------------------------------------------------------------
(* CSV: a reader, text by text                                             *)

\* What a reader has read after each character.
IsReading(f, r, text) ==
    f[0] = r /\ \A i \in 1 .. Len(text) : f[i] = ReadCharacter(f[i - 1], text[i])

LEMMA ReadUnfolds ==
    ASSUME NEW X, NEW r \in Readers(X), NEW text \in Seq(X)
    PROVE  \E f \in [0 .. Len(text) -> Readers(X)] :
              IsReading(f, r, text) /\ ReadFrom(r, text) = f[Len(text)]
<1> DEFINE n == Len(text)
           Y == Readers(X)
           g == [p \in (1 .. n) \X Y |-> ReadCharacter(p[2], text[p[1]])]
           Unfolds(e) == e = [i \in 0 .. n |->
               IF i = 0 THEN r ELSE ReadCharacter(e[i - 1], text[i])]
<1>1. g \in [(1 .. n) \X Y -> Y]
  <2> SUFFICES ASSUME NEW p \in (1 .. n) \X Y PROVE ReadCharacter(p[2], text[p[1]]) \in Y
    OBVIOUS
  <2>1. p[2] \in Readers(X) /\ text[p[1]] \in X OBVIOUS
  <2>2. QED BY <2>1, ReadTyped
<1>2. n \in Nat OBVIOUS
<1>3. PICK h : IsRecursive(h, n, Y, r, g)
  <2> HIDE DEF g, n, Y
  <2>1. r \in Y BY DEF Y
  <2>2. QED BY <1>1, <1>2, <2>1, Recursion
<1>4. \A i \in 1 .. n : h[i] = ReadCharacter(h[i - 1], text[i])
  <2> SUFFICES ASSUME NEW i \in 1 .. n PROVE h[i] = ReadCharacter(h[i - 1], text[i]) OBVIOUS
  <2>1. i - 1 \in 0 .. n BY <1>2
  <2> HIDE DEF n, Y
  <2>2. h[i - 1] \in Y /\ h[i] = g[<<i, h[i - 1]>>] BY <1>3, <2>1 DEF IsRecursive
  <2>3. QED BY <2>2
<1>5. DOMAIN h = 0 .. n /\ h[0] = r /\ h = [i \in 0 .. n |-> h[i]] /\ h \in [0 .. n -> Y]
  BY <1>3 DEF IsRecursive
<1>6. Unfolds(h)
  <2> DEFINE e == [i \in 0 .. n |-> IF i = 0 THEN r ELSE ReadCharacter(h[i - 1], text[i])]
  <2>1. ASSUME NEW i \in 0 .. n PROVE h[i] = e[i]
    <3>1. CASE i = 0 BY <1>5, <3>1
    <3>2. CASE i # 0
      <4>1. i \in 1 .. n BY <1>2, <3>2
      <4>2. QED BY <1>4, <3>2, <4>1
    <3>3. QED BY <3>1, <3>2
  <2>2. QED BY <1>5, <2>1
<1> DEFINE read == CHOOSE e : Unfolds(e)
<1>7. Unfolds(read) BY <1>6
<1>8. ReadFrom(r, text) = read[n] BY DEF ReadFrom
<1>9. read[0] = r /\ \A i \in 1 .. n : read[i] = ReadCharacter(read[i - 1], text[i])
  <2> HIDE DEF read
  <2>1. 0 \in 0 .. n /\ \A i \in 1 .. n : i \in 0 .. n /\ i # 0 BY <1>2
  <2>2. QED BY <1>7, <2>1
<1>10. \A i \in 0 .. n : read[i] = h[i]
  <2> DEFINE T == {i \in 0 .. n : read[i] = h[i]}
  <2> HIDE DEF read, n, Y, Unfolds
  <2>1. 0 \in T BY <1>2, <1>5, <1>9
  <2>2. ASSUME NEW k \in 0 .. n - 1, k \in T PROVE k + 1 \in T
    <3>1. k + 1 \in 1 .. n /\ (k + 1) - 1 = k BY <1>2
    <3>2. read[k + 1] = ReadCharacter(read[k], text[k + 1]) BY <1>9, <3>1
    <3>3. h[k + 1] = ReadCharacter(h[k], text[k + 1]) BY <1>4, <3>1
    <3>4. QED BY <2>2, <3>1, <3>2, <3>3
  <2> HIDE DEF T
  <2>3. 0 .. n \subseteq T BY <1>2, <2>1, <2>2, Induction
  <2>4. QED BY <2>3 DEF T
<1>11. h \in [0 .. Len(text) -> Readers(X)] /\ IsReading(h, r, text) BY <1>4, <1>5 DEF IsReading
<1>12. ReadFrom(r, text) = h[Len(text)]
  <2> HIDE DEF read
  <2>1. n \in 0 .. n BY <1>2
  <2>2. QED BY <1>8, <1>10, <2>1
<1>13. QED BY <1>11, <1>12

\* A text that is empty, and any.
LEMMA ReadNothing ==
    ASSUME NEW X, NEW r \in Readers(X), NEW t \in Seq(X)
    PROVE  ReadFrom(r, <<>>) = r /\ ReadFrom(r, t) \in Readers(X)
<1>1. ReadFrom(r, <<>>) = r
  <2>1. PICK none : none = <<>> OBVIOUS
  <2>2. none \in Seq(X) /\ Len(none) = 0 BY <2>1
  <2>3. PICK e \in [0 .. Len(none) -> Readers(X)] :
            IsReading(e, r, none) /\ ReadFrom(r, none) = e[Len(none)]
    BY <2>2, ReadUnfolds
  <2>4. QED BY <2>1, <2>2, <2>3 DEF IsReading
<1>2. ReadFrom(r, t) \in Readers(X)
  <2>1. PICK f \in [0 .. Len(t) -> Readers(X)] : ReadFrom(r, t) = f[Len(t)] BY ReadUnfolds
  <2>2. Len(t) \in 0 .. Len(t) OBVIOUS
  <2>3. QED BY <2>1, <2>2
<1>3. QED BY <1>1, <1>2

\* A character more.
LEMMA ReadMore ==
    ASSUME NEW X, NEW r \in Readers(X), NEW t \in Seq(X), NEW c \in X
    PROVE  ReadFrom(r, Append(t, c)) = ReadCharacter(ReadFrom(r, t), c)
<1> DEFINE n == Len(t)
           u == Append(t, c)
<1>1. /\ u \in Seq(X) /\ Len(u) = n + 1 /\ u[n + 1] = c /\ n \in Nat
      /\ \A i \in 1 .. n : u[i] = t[i]
  OBVIOUS
<1> HIDE DEF u
<1>2. PICK f \in [0 .. n -> Readers(X)] : IsReading(f, r, t) /\ ReadFrom(r, t) = f[n]
  BY ReadUnfolds
<1>3. PICK h \in [0 .. Len(u) -> Readers(X)] : IsReading(h, r, u) /\ ReadFrom(r, u) = h[Len(u)]
  BY <1>1, ReadUnfolds
<1> DEFINE T == {i \in 0 .. n : f[i] = h[i]}
<1>4. 0 .. n \subseteq T
  <2>1. 0 \in T BY <1>1, <1>2, <1>3 DEF IsReading
  <2>2. ASSUME NEW k \in 0 .. n - 1, k \in T PROVE k + 1 \in T
    <3> HIDE DEF n
    <3>1. k + 1 \in 1 .. n /\ k + 1 \in 1 .. Len(u) /\ (k + 1) - 1 = k BY <1>1
    <3>2. f[k + 1] = ReadCharacter(f[k], t[k + 1]) BY <1>2, <3>1 DEF IsReading, n
    <3>3. h[k + 1] = ReadCharacter(h[k], u[k + 1]) BY <1>3, <3>1 DEF IsReading
    <3>4. QED BY <1>1, <2>2, <3>1, <3>2, <3>3
  <2> HIDE DEF T, n
  <2>3. QED BY <1>1, <2>1, <2>2, Induction
<1>5. f[n] = h[n]
  <2>1. n \in T BY <1>1, <1>4
  <2>2. QED BY <2>1
<1>6. h[n + 1] = ReadCharacter(h[n], c)
  <2>1. n + 1 \in 1 .. Len(u) /\ (n + 1) - 1 = n BY <1>1
  <2>2. QED BY <1>1, <1>3, <2>1 DEF IsReading
<1>7. QED BY <1>1, <1>2, <1>3, <1>5, <1>6 DEF u

\* One character, and two texts one after the other.
LEMMA ReadOne ==
    ASSUME NEW X, NEW r \in Readers(X), NEW c \in X
    PROVE  ReadFrom(r, <<c>>) = ReadCharacter(r, c)
<1>1. PICK none : none = <<>> OBVIOUS
<1>2. none \in Seq(X) /\ Append(none, c) = <<c>> BY <1>1
<1>3. ReadFrom(r, none) = r BY <1>1, <1>2, ReadNothing
<1>4. ReadFrom(r, Append(none, c)) = ReadCharacter(ReadFrom(r, none), c) BY <1>2, ReadMore
<1>5. QED BY <1>2, <1>3, <1>4

LEMMA ReadOn ==
    ASSUME NEW X, NEW r \in Readers(X), NEW t \in Seq(X), NEW u \in Seq(X)
    PROVE  ReadFrom(r, t \o u) = ReadFrom(ReadFrom(r, t), u)
<1> DEFINE T == {v \in Seq(X) : ReadFrom(r, t \o v) = ReadFrom(ReadFrom(r, t), v)}
<1>1. PICK none : none = <<>> OBVIOUS
<1>2. PICK s : s = ReadFrom(r, t) OBVIOUS
<1>3. s \in Readers(X) BY <1>2, ReadNothing
<1>4. none \in T
  <2>1. none \in Seq(X) /\ t \o none = t BY <1>1, ConcatEmptySeq
  <2>2. ReadFrom(s, none) = s BY <1>1, <1>3, <2>1, ReadNothing
  <2>3. QED BY <1>2, <2>1, <2>2
<1>5. ASSUME NEW v \in Seq(X), v \in T, NEW c \in X PROVE Append(v, c) \in T
  <2>1. /\ t \o v \in Seq(X) /\ Append(v, c) \in Seq(X)
        /\ t \o Append(v, c) = Append(t \o v, c)
    OBVIOUS
  <2>2. ReadFrom(r, Append(t \o v, c)) = ReadCharacter(ReadFrom(r, t \o v), c) BY <2>1, ReadMore
  <2>3. ReadFrom(s, Append(v, c)) = ReadCharacter(ReadFrom(s, v), c) BY <1>3, ReadMore
  <2>4. ReadFrom(r, t \o v) = ReadFrom(s, v) BY <1>2, <1>5
  <2>5. QED BY <1>2, <2>1, <2>2, <2>3, <2>4
<1>6. Seq(X) \subseteq T
  <2> HIDE DEF T
  <2>1. QED BY <1>1, <1>4, <1>5, Growing
<1>7. QED BY <1>6

------------------------------------------------------------------------------
(* CSV: what a cell, a line and a table are read as                        *)

\* A reader is at the end of a cell, and after a row up to it.
IsAfter(r, cell, row, rows) == \E mode \in {"text", "quote"} : r = Reader(mode, cell, row, rows)

\* A reader is at the end of a row, which has a cell at least.
IsAfterRow(r, X, cells, rows) ==
    \E row \in Seq(Seq(X)), cell \in Seq(X) : cells = Append(row, cell) /\ IsAfter(r, cell, row, rows)

\* A list of pieces, one longer than another.
LEMMA OneMorePiece ==
    ASSUME NEW Y, NEW n \in Nat, NEW s \in [1 .. n -> Y], NEW v \in [1 .. n + 1 -> Y],
           \A i \in 1 .. n : v[i] = s[i], NEW e, v[n + 1] = e
    PROVE  s \in Seq(Y) /\ v \in Seq(Y) /\ v = Append(s, e)
<1>1. s \in Seq(Y) /\ Len(s) = n OBVIOUS
<1>2. PICK m : m = n + 1 OBVIOUS
<1>3. m \in Nat /\ m \in 1 .. m /\ v \in [1 .. m -> Y] BY <1>2
<1>4. v \in Seq(Y) /\ Len(v) = m /\ e \in Y BY <1>2, <1>3
<1>5. PICK w : w = Append(s, e) OBVIOUS
<1>6. w \in Seq(Y) /\ Len(w) = m /\ w[m] = e /\ \A i \in 1 .. n : w[i] = s[i]
  BY <1>1, <1>2, <1>4, <1>5
<1>7. \A i \in 1 .. m : i = m \/ i \in 1 .. n BY <1>2
<1>8. \A i \in 1 .. Len(w) : v[i] = w[i] BY <1>2, <1>6, <1>7
<1>9. v = w BY <1>4, <1>6, <1>8, SeqEqual
<1>10. QED BY <1>1, <1>4, <1>5, <1>9

\* Within quotes every character is read as it is, a quote for two.
LEMMA QuotedRead ==
    ASSUME NEW X, Special \subseteq X, NEW cell \in Seq(X),
           NEW row \in Seq(Seq(X)), NEW rows \in Seq(Seq(Seq(X)))
    PROVE  /\ QuotesTwice(cell) \in Seq(X)
           /\ ReadFrom(Reader("quotes", <<>>, row, rows), QuotesTwice(cell))
                = Reader("quotes", cell, row, rows)
<1> DEFINE Piece(c) == IF c = Quote THEN <<Quote, Quote>> ELSE <<c>>
           T == {t \in Seq(X) : /\ QuotesTwice(t) \in Seq(X)
                                /\ ReadFrom(Reader("quotes", <<>>, row, rows), QuotesTwice(t))
                                     = Reader("quotes", t, row, rows)}
<1>1. PICK none : none = <<>> OBVIOUS
<1>2. PICK r : r = Reader("quotes", none, row, rows) OBVIOUS
<1>3. none \in Seq(X) /\ r \in Readers(X)
  <2>1. none \in Seq(X) BY <1>1
  <2>2. QED BY <1>2, <2>1, ReaderTyped
<1>4. Quote \in X BY DEF Special
<1>5. \A c \in X : Piece(c) \in Seq(X)
  <2>1. <<Quote, Quote>> \in Seq(X) BY <1>4
  <2>2. QED BY <2>1
<1>6. none \in T
  <2>1. QuotesTwice(none) = none
    <3>1. Len(none) = 0 BY <1>1
    <3>2. PICK s : s = [i \in 1 .. Len(none) |-> Piece(none[i])] OBVIOUS
    <3>3. s = none BY <1>1, <3>1, <3>2
    <3>4. QED BY <1>1, <3>2, <3>3, FlattenNothing DEF QuotesTwice
  <2>2. ReadFrom(r, none) = r BY <1>1, <1>3, ReadNothing
  <2>3. QED BY <1>1, <1>2, <1>3, <2>1, <2>2
<1>7. ASSUME NEW t \in Seq(X), t \in T, NEW c \in X PROVE Append(t, c) \in T
  <2> DEFINE s == [i \in 1 .. Len(t) |-> Piece(t[i])]
             u == Append(t, c)
             v == [i \in 1 .. Len(u) |-> Piece(u[i])]
  <2>1. /\ u \in Seq(X) /\ Len(u) = Len(t) + 1 /\ u[Len(t) + 1] = c
        /\ \A i \in 1 .. Len(t) : u[i] = t[i]
    OBVIOUS
  <2>2. s \in Seq(Seq(X)) /\ v \in Seq(Seq(X)) /\ v = Append(s, Piece(c))
    <3> HIDE DEF u, Piece
    <3>1. PICK n, x : n = Len(t) /\ x = Piece(c) OBVIOUS
    <3>2. s \in [1 .. n -> Seq(X)] BY <1>5, <3>1
    <3>3. v \in [1 .. n + 1 -> Seq(X)] BY <1>5, <2>1, <3>1
    <3>4. \A i \in 1 .. n : v[i] = s[i] BY <2>1, <3>1
    <3>5. n \in Nat /\ v[n + 1] = x BY <2>1, <3>1
    <3> HIDE DEF s, v
    <3>6. s \in Seq(Seq(X)) /\ v \in Seq(Seq(X)) /\ v = Append(s, x)
      BY <3>2, <3>3, <3>4, <3>5, OneMorePiece
    <3>7. QED BY <3>1, <3>6
  <2>3. QuotesTwice(u) = FlattenSeq(v) /\ QuotesTwice(t) = FlattenSeq(s) BY DEF QuotesTwice
  <2>4. PICK p : p = Piece(c) OBVIOUS
  <2>5. p \in Seq(X) BY <1>5, <2>4
  <2>6. QuotesTwice(u) = QuotesTwice(t) \o p
    <3> HIDE DEF s, v, u, Piece
    <3>1. QED BY <2>2, <2>3, <2>4, <2>5, FlattenAppend
  <2>7. QuotesTwice(t) \in Seq(X) /\ ReadFrom(r, QuotesTwice(t)) = Reader("quotes", t, row, rows)
    BY <1>1, <1>2, <1>7
  <2>8. PICK q : q = Reader("quotes", t, row, rows) OBVIOUS
  <2>9. q \in Readers(X) BY <2>8, ReaderTyped
  <2>10. ReadFrom(q, p) = Reader("quotes", u, row, rows)
    <3>1. CASE c = Quote
      <4>0. PICK b : b = <<Quote>> OBVIOUS
      <4>1. p = b \o b /\ b \in Seq(X) BY <1>4, <2>4, <3>1, <4>0
      <4>2. ReadFrom(q, b) = Reader("quote", t, row, rows)
        BY <1>4, <2>8, <2>9, <4>0, ReadOne, ReadsWithin
      <4>3. Reader("quote", t, row, rows) \in Readers(X) BY ReaderTyped
      <4>4. ReadFrom(Reader("quote", t, row, rows), b) = Reader("quotes", u, row, rows)
        BY <1>4, <3>1, <4>0, <4>3, ReadOne, ReadsWithin
      <4>5. ReadFrom(q, b \o b) = ReadFrom(ReadFrom(q, b), b)
        BY <2>9, <4>1, ReadOn
      <4>6. QED BY <4>1, <4>2, <4>4, <4>5
    <3>2. CASE c # Quote
      <4>1. p = <<c>> BY <2>4, <3>2
      <4>2. ReadFrom(q, <<c>>) = ReadCharacter(q, c) BY <2>9, ReadOne
      <4>3. QED BY <2>8, <3>2, <4>1, <4>2, ReadsWithin
    <3>3. QED BY <3>1, <3>2
  <2>11. ReadFrom(r, QuotesTwice(t) \o p) = ReadFrom(ReadFrom(r, QuotesTwice(t)), p)
    BY <1>3, <2>5, <2>7, ReadOn
  <2>12. QuotesTwice(u) \in Seq(X) BY <2>5, <2>6, <2>7
  <2>13. ReadFrom(r, QuotesTwice(u)) = Reader("quotes", u, row, rows)
    BY <2>6, <2>7, <2>8, <2>10, <2>11
  <2>14. QED BY <1>1, <1>2, <2>1, <2>12, <2>13
<1>8. Seq(X) \subseteq T
  <2> HIDE DEF T
  <2>1. QED BY <1>1, <1>6, <1>7, Growing
<1>9. QED BY <1>8

\* Without a special character a cell is read as it is.
LEMMA PlainRead ==
    ASSUME NEW X, NEW cell \in Seq(X), \A i \in 1 .. Len(cell) : cell[i] \notin Special,
           NEW row \in Seq(Seq(X)), NEW rows \in Seq(Seq(Seq(X)))
    PROVE  ReadFrom(Reader("text", <<>>, row, rows), cell) = Reader("text", cell, row, rows)
<1> DEFINE Y == X \ Special
           T == {t \in Seq(Y) : ReadFrom(Reader("text", <<>>, row, rows), t)
                                  = Reader("text", t, row, rows)}
<1>1. PICK none : none = <<>> OBVIOUS
<1>2. PICK r : r = Reader("text", none, row, rows) OBVIOUS
<1>3. none \in Seq(X) /\ r \in Readers(X)
  <2>1. none \in Seq(X) BY <1>1
  <2>2. QED BY <1>2, <2>1, ReaderTyped
<1>4. none \in T
  <2>1. none \in Seq(Y) BY <1>1
  <2>2. ReadFrom(r, none) = r BY <1>1, <1>3, ReadNothing
  <2>3. QED BY <1>1, <1>2, <2>1, <2>2
<1>5. ASSUME NEW t \in Seq(Y), t \in T, NEW c \in Y PROVE Append(t, c) \in T
  <2>1. t \in Seq(X) /\ c \in X /\ c \notin Special /\ Append(t, c) \in Seq(Y) OBVIOUS
  <2>2. ReadFrom(r, Append(t, c)) = ReadCharacter(ReadFrom(r, t), c) BY <1>3, <2>1, ReadMore
  <2>3. ReadFrom(r, t) = Reader("text", t, row, rows) BY <1>1, <1>2, <1>5
  <2>4. ReadCharacter(Reader("text", t, row, rows), c) = Reader("text", Append(t, c), row, rows)
    BY <2>1, ReadsOutside
  <2>5. QED BY <1>1, <1>2, <2>1, <2>2, <2>3, <2>4
<1>6. Seq(Y) \subseteq T
  <2> HIDE DEF T, Y
  <2>1. QED BY <1>1, <1>4, <1>5, Growing
<1>7. cell \in Seq(Y)
  <2>1. \A i \in 1 .. Len(cell) : cell[i] \in Y OBVIOUS
  <2> HIDE DEF Y
  <2>2. QED BY <2>1
<1>8. QED BY <1>6, <1>7

\* A cell, escaped or not, is read as what it was: outside quotes, or just after them.
LEMMA CellRead ==
    ASSUME NEW X, Special \subseteq X, NEW cell \in Seq(X),
           NEW row \in Seq(Seq(X)), NEW rows \in Seq(Seq(Seq(X)))
    PROVE  /\ CsvEscape(cell) \in Seq(X)
           /\ IsAfter(ReadFrom(Reader("text", <<>>, row, rows), CsvEscape(cell)), cell, row, rows)
<1>1. PICK none : none = <<>> OBVIOUS
<1>2. PICK r : r = Reader("text", none, row, rows) OBVIOUS
<1>3. none \in Seq(X) /\ r \in Readers(X)
  <2>1. none \in Seq(X) BY <1>1
  <2>2. QED BY <1>2, <2>1, ReaderTyped
<1>4. CASE \E i \in 1 .. Len(cell) : cell[i] \in Special
  <2>1. PICK q, b : q = QuotesTwice(cell) /\ b = <<Quote>> OBVIOUS
  <2>2. Quote \in X /\ q \in Seq(X) /\ b \in Seq(X) BY <2>1, QuotedRead DEF Special
  <2>3. CsvEscape(cell) = (b \o q) \o b BY <1>4, <2>1 DEF CsvEscape
  <2>4. b \o q \in Seq(X) /\ (b \o q) \o b \in Seq(X) BY <2>2
  <2>5. ReadFrom(r, b) = Reader("quotes", none, row, rows)
    BY <1>1, <1>2, <1>3, <2>1, <2>2, ReadOne, ReadsWithin
  <2>6. ReadFrom(Reader("quotes", none, row, rows), q) = Reader("quotes", cell, row, rows)
    BY <1>1, <2>1, QuotedRead
  <2>7. Reader("quotes", cell, row, rows) \in Readers(X) BY ReaderTyped
  <2>8. ReadFrom(Reader("quotes", cell, row, rows), b) = Reader("quote", cell, row, rows)
    BY <2>1, <2>2, <2>7, ReadOne, ReadsWithin
  <2>9. ReadFrom(r, b \o q) = ReadFrom(ReadFrom(r, b), q) BY <1>3, <2>2, ReadOn
  <2>10. ReadFrom(r, (b \o q) \o b) = ReadFrom(ReadFrom(r, b \o q), b)
    <3>1. PICK d : d = b \o q OBVIOUS
    <3>2. d \in Seq(X) BY <2>4, <3>1
    <3>3. ReadFrom(r, d \o b) = ReadFrom(ReadFrom(r, d), b) BY <1>3, <2>2, <3>2, ReadOn
    <3>4. QED BY <3>1, <3>3
  <2>11. ReadFrom(r, CsvEscape(cell)) = Reader("quote", cell, row, rows)
    BY <2>3, <2>5, <2>6, <2>8, <2>9, <2>10
  <2>12. QED BY <1>1, <1>2, <2>3, <2>4, <2>11 DEF IsAfter
<1>5. CASE ~ \E i \in 1 .. Len(cell) : cell[i] \in Special
  <2>1. CsvEscape(cell) = cell BY <1>5 DEF CsvEscape
  <2>2. ReadFrom(Reader("text", <<>>, row, rows), cell) = Reader("text", cell, row, rows)
    BY <1>5, PlainRead
  <2>3. QED BY <2>1, <2>2 DEF IsAfter
<1>6. QED BY <1>4, <1>5

\* A cell more on a line.
LEMMA JoinMore ==
    ASSUME NEW X, Special \subseteq X, NEW cells \in Seq(Seq(X)), NEW e \in Seq(X)
    PROVE  /\ CsvJoin(cells) \in Seq(X)
           /\ CsvJoin(Append(cells, e)) =
                CsvJoin(cells) \o (IF cells = <<>> THEN CsvEscape(e) ELSE <<Comma>> \o CsvEscape(e))
<1> DEFINE Piece(u, i) == IF i = 1 THEN CsvEscape(u[1]) ELSE <<Comma>> \o CsvEscape(u[i])
           n == Len(cells)
           t == Append(cells, e)
           s == [i \in 1 .. n |-> Piece(cells, i)]
           v == [i \in 1 .. Len(t) |-> Piece(t, i)]
<1>1. /\ t \in Seq(Seq(X)) /\ n \in Nat /\ Len(t) = n + 1 /\ t[n + 1] = e
      /\ \A i \in 1 .. n : t[i] = cells[i]
  OBVIOUS
<1>2. \A c \in Seq(X) : CsvEscape(c) \in Seq(X)
  <2>1. <<>> \in Seq(Seq(X)) /\ <<>> \in Seq(Seq(Seq(X))) OBVIOUS
  <2>2. QED BY <2>1, CellRead
<1> HIDE DEF t
<1>3. \A i \in 1 .. n + 1 : Piece(t, i) \in Seq(X)
  <2> SUFFICES ASSUME NEW i \in 1 .. n + 1 PROVE Piece(t, i) \in Seq(X) OBVIOUS
  <2>1. Comma \in X /\ t[1] \in Seq(X) /\ t[i] \in Seq(X) BY <1>1 DEF Special
  <2>2. PICK a, b : a = CsvEscape(t[1]) /\ b = CsvEscape(t[i]) OBVIOUS
  <2>3. a \in Seq(X) /\ b \in Seq(X) /\ <<Comma>> \in Seq(X) BY <1>2, <2>1, <2>2
  <2>4. <<Comma>> \o b \in Seq(X) BY <2>3
  <2>5. QED BY <2>2, <2>3, <2>4
<1>4. \A i \in 1 .. n : Piece(t, i) = Piece(cells, i)
  <2>1. n # 0 => 1 \in 1 .. n BY <1>1
  <2>2. QED BY <1>1, <2>1
<1>5. s \in Seq(Seq(X)) /\ v \in Seq(Seq(X)) /\ v = Append(s, v[n + 1])
  <2>1. s \in [1 .. n -> Seq(X)]
    <3>1. \A i \in 1 .. n : i \in 1 .. n + 1 BY <1>1
    <3>2. \A i \in 1 .. n : Piece(cells, i) \in Seq(X) BY <1>3, <1>4, <3>1
    <3>3. QED BY <3>2
  <2>2. v \in [1 .. n + 1 -> Seq(X)] BY <1>1, <1>3
  <2>3. \A i \in 1 .. n : v[i] = s[i]
    <3>1. \A i \in 1 .. n : i \in 1 .. Len(t) BY <1>1
    <3>2. QED BY <1>4, <3>1
  <2>4. n \in Nat BY <1>1
  <2>5. PICK x : x = v[n + 1] OBVIOUS
  <2> HIDE DEF s, v, n
  <2>6. QED BY <2>1, <2>2, <2>3, <2>4, <2>5, OneMorePiece
<1>6. CsvJoin(cells) = FlattenSeq(s) /\ CsvJoin(t) = FlattenSeq(v) BY DEF CsvJoin
<1>7. n + 1 \in 1 .. n + 1 /\ v[n + 1] = Piece(t, n + 1) BY <1>1
<1>8. v[n + 1] \in Seq(X) BY <1>3, <1>7
<1>9. v[n + 1] = IF cells = <<>> THEN CsvEscape(e) ELSE <<Comma>> \o CsvEscape(e)
  <2>1. cells = <<>> <=> n + 1 = 1 BY <1>1, EmptySeq
  <2>2. QED BY <1>1, <1>7, <2>1
<1> HIDE DEF s, v, n
<1>10. FlattenSeq(v) = FlattenSeq(s) \o v[n + 1] BY <1>5, <1>8, FlattenAppend
<1>11. FlattenSeq(s) \in Seq(X) BY <1>5, FlattenTyped
<1>12. QED BY <1>6, <1>9, <1>10, <1>11 DEF t

\* The cells of a line, up to its end.
LEMMA JoinRead ==
    ASSUME NEW X, Special \subseteq X, NEW cells \in Seq(Seq(X)), cells # <<>>,
           NEW rows \in Seq(Seq(Seq(X)))
    PROVE  IsAfterRow(ReadFrom(Reader("text", <<>>, <<>>, rows), CsvJoin(cells)), X, cells, rows)
<1>1. PICK none : none = <<>> OBVIOUS
<1>2. none \in Seq(X) /\ none \in Seq(Seq(X)) BY <1>1
<1>3. PICK r : r = Reader("text", none, none, rows) OBVIOUS
<1>4. r \in Readers(X) BY <1>2, <1>3, ReaderTyped
<1> DEFINE IsRead(u) == IsAfterRow(ReadFrom(r, CsvJoin(u)), X, u, rows)
           T == {u \in Seq(Seq(X)) : u = none \/ IsRead(u)}
<1>5. none \in T BY <1>2
<1>6. ASSUME NEW u \in Seq(Seq(X)), u \in T, NEW e \in Seq(X) PROVE Append(u, e) \in T
  <2>1. PICK b, k, j : b = CsvEscape(e) /\ k = <<Comma>> /\ j = CsvJoin(u) OBVIOUS
  <2>2. Comma \in X /\ k \in Seq(X) /\ b \in Seq(X) /\ j \in Seq(X)
    <3>1. Comma \in X BY DEF Special
    <3>2. b \in Seq(X)
      <4>1. none \in Seq(Seq(Seq(X))) BY <1>1
      <4>2. QED BY <1>2, <2>1, <4>1, CellRead
    <3>3. k \in Seq(X) BY <2>1, <3>1
    <3>4. j \in Seq(X) BY <1>2, <2>1, JoinMore
    <3>5. QED BY <3>1, <3>2, <3>3, <3>4
  <2>3. CASE u = none
    <3>1. CsvJoin(Append(u, e)) = j \o b BY <1>1, <2>1, <2>3, JoinMore
    <3>2. j = none
      <4>1. Len(u) = 0 BY <1>1, <2>3
      <4>2. [i \in 1 .. Len(u) |-> IF i = 1 THEN CsvEscape(u[1]) ELSE <<Comma>> \o CsvEscape(u[i])]
              = none
        BY <1>1, <4>1
      <4>3. QED BY <1>1, <2>1, <4>2, FlattenNothing DEF CsvJoin
    <3>3. none \o b = b BY <1>1, <2>2, ConcatEmptySeq
    <3>4. IsAfter(ReadFrom(r, b), e, none, rows) BY <1>1, <1>2, <1>3, <2>1, CellRead
    <3>5. Append(u, e) = Append(none, e) BY <2>3
    <3>6. IsAfter(ReadFrom(r, CsvJoin(Append(u, e))), e, none, rows) BY <3>1, <3>2, <3>3, <3>4
    <3>7. IsRead(Append(u, e)) BY <1>2, <3>5, <3>6 DEF IsAfterRow
    <3>8. Append(u, e) \in Seq(Seq(X)) OBVIOUS
    <3> HIDE DEF IsRead
    <3>9. QED BY <3>7, <3>8
  <2>4. CASE u # none
    <3>1. PICK mode \in {"text", "quote"}, row \in Seq(Seq(X)), cell \in Seq(X) :
            u = Append(row, cell) /\ ReadFrom(r, j) = Reader(mode, cell, row, rows)
      BY <1>6, <2>1, <2>4 DEF IsAfterRow, IsAfter
    <3>2. CsvJoin(Append(u, e)) = j \o (k \o b) BY <1>1, <2>1, <2>4, JoinMore
    <3>3. PICK d : d = k \o b OBVIOUS
    <3>4. d \in Seq(X) BY <2>2, <3>3
    <3>5. PICK q, p : q = Reader(mode, cell, row, rows) /\ p = Reader("text", none, u, rows) OBVIOUS
    <3>6. q \in Readers(X) /\ p \in Readers(X)
      <4>1. q \in Readers(X) BY <3>5, ReaderTyped
      <4>2. p \in Readers(X) BY <1>2, <3>5, ReaderTyped
      <4>3. QED BY <4>1, <4>2
    <3>7. ReadFrom(q, k) = p
      <4>1. ReadFrom(q, k) = ReadCharacter(q, Comma) BY <2>1, <2>2, <3>6, ReadOne
      <4>2. ReadCharacter(q, Comma) = Reader("text", none, Append(row, cell), rows)
        BY <1>1, <3>5, ReadsEnds
      <4>3. QED BY <3>1, <3>5, <4>1, <4>2
    <3>8. IsAfter(ReadFrom(p, b), e, u, rows) BY <1>1, <2>1, <3>5, CellRead
    <3>9. ReadFrom(q, d) = ReadFrom(ReadFrom(q, k), b) BY <2>2, <3>3, <3>6, ReadOn
    <3>10. ReadFrom(r, j \o d) = ReadFrom(ReadFrom(r, j), d) BY <1>4, <2>2, <3>4, ReadOn
    <3>11. IsAfter(ReadFrom(r, CsvJoin(Append(u, e))), e, u, rows)
      BY <3>1, <3>2, <3>3, <3>5, <3>7, <3>8, <3>9, <3>10
    <3>12. IsRead(Append(u, e)) BY <3>11 DEF IsAfterRow
    <3>13. Append(u, e) \in Seq(Seq(X)) OBVIOUS
    <3> HIDE DEF IsRead
    <3>14. QED BY <3>12, <3>13
  <2>5. QED BY <2>3, <2>4
<1>7. Seq(Seq(X)) \subseteq T
  <2> HIDE DEF T
  <2>1. QED BY <1>1, <1>5, <1>6, Growing
<1>8. IsRead(cells) BY <1>1, <1>7
<1>9. QED BY <1>1, <1>3, <1>8

\* A line is read as the row it was written for.
LEMMA LineRead ==
    ASSUME NEW X, Special \subseteq X, NEW cells \in Seq(Seq(X)), cells # <<>>,
           NEW rows \in Seq(Seq(Seq(X)))
    PROVE  /\ CsvLine(cells) \in Seq(X)
           /\ ReadFrom(Reader("text", <<>>, <<>>, rows), CsvLine(cells))
                = Reader("text", <<>>, <<>>, Append(rows, cells))
<1>1. PICK none : none = <<>> OBVIOUS
<1>2. none \in Seq(X) /\ none \in Seq(Seq(X)) BY <1>1
<1>3. PICK r, j, a, b : /\ r = Reader("text", none, none, rows) /\ j = CsvJoin(cells)
                        /\ a = <<Return>> /\ b = <<LineFeed>>
  OBVIOUS
<1>4. r \in Readers(X) BY <1>2, <1>3, ReaderTyped
<1>5. j \in Seq(X) BY <1>2, <1>3, JoinMore
<1>6. Return \in X /\ LineFeed \in X BY DEF Special
<1>7. a \in Seq(X) /\ b \in Seq(X) /\ <<Return, LineFeed>> = a \o b
  <2>1. a \in Seq(X) /\ b \in Seq(X) BY <1>3, <1>6
  <2>2. a \o b = Append(a, LineFeed) BY <1>3, <1>6, <2>1
  <2>3. Append(<<Return>>, LineFeed) = <<Return, LineFeed>> BY AppendToShort
  <2>4. QED BY <1>3, <2>1, <2>2, <2>3
<1>8. PICK mode \in {"text", "quote"}, row \in Seq(Seq(X)), cell \in Seq(X) :
        cells = Append(row, cell) /\ ReadFrom(r, j) = Reader(mode, cell, row, rows)
  <2>1. IsAfterRow(ReadFrom(r, j), X, cells, rows) BY <1>1, <1>3, JoinRead
  <2>2. QED BY <2>1 DEF IsAfterRow, IsAfter
<1>9. PICK q, d : q = Reader(mode, cell, row, rows) /\ d = a \o b OBVIOUS
<1>10. q \in Readers(X) /\ d \in Seq(X)
  <2>1. q \in Readers(X) BY <1>9, ReaderTyped
  <2>2. QED BY <1>7, <1>9, <2>1
<1>11. ReadFrom(q, a) = q
  <2>1. ReadFrom(q, a) = ReadCharacter(q, Return) BY <1>3, <1>6, <1>10, ReadOne
  <2>2. ReadCharacter(q, Return) = q BY <1>9, ReadsEnds
  <2>3. QED BY <2>1, <2>2
<1>12. ReadFrom(q, b) = Reader("text", none, none, Append(rows, cells))
  <2>1. ReadFrom(q, b) = ReadCharacter(q, LineFeed) BY <1>3, <1>6, <1>10, ReadOne
  <2>2. ReadCharacter(q, LineFeed) = Reader("text", none, none, Append(rows, Append(row, cell)))
    BY <1>1, <1>9, ReadsEnds
  <2>3. QED BY <1>8, <2>1, <2>2
<1>13. ReadFrom(q, d) = ReadFrom(ReadFrom(q, a), b) BY <1>7, <1>9, <1>10, ReadOn
<1>14. ReadFrom(r, j \o d) = ReadFrom(ReadFrom(r, j), d) BY <1>4, <1>5, <1>10, ReadOn
<1>15. CsvLine(cells) = j \o d BY <1>3, <1>7, <1>9 DEF CsvLine
<1>16. j \o d \in Seq(X) BY <1>5, <1>10
<1>17. ReadFrom(r, j \o d) = Reader("text", none, none, Append(rows, cells))
  BY <1>8, <1>9, <1>11, <1>12, <1>13, <1>14
<1>18. QED BY <1>1, <1>3, <1>15, <1>16, <1>17

\* A table with at least one column is read as it was written.
LEMMA TableRead ==
    ASSUME NEW C, NEW table \in Seq(Seq(Seq(C))), \A i \in 1 .. Len(table) : table[i] # <<>>
    PROVE  CsvText(table) \in Seq(C \cup Special) /\ ReadCsv(CsvText(table)) = table
<1> DEFINE X == C \cup Special
           Y == Seq(Seq(X)) \ {<<>>}
           T == {t \in Seq(Y) : /\ CsvText(t) \in Seq(X)
                                /\ ReadFrom(Reader("text", <<>>, <<>>, <<>>), CsvText(t))
                                     = Reader("text", <<>>, <<>>, t)}
<1>1. PICK none : none = <<>> OBVIOUS
<1>2. none \in Seq(X) /\ none \in Seq(Seq(X)) /\ none \in Seq(Seq(Seq(X))) BY <1>1
<1>3. PICK r : r = Reader("text", none, none, none) OBVIOUS
<1>4. r \in Readers(X) BY <1>2, <1>3, ReaderTyped
<1>5. Special \subseteq X OBVIOUS
<1>6. table \in Seq(Y)
  <2>1. \A i \in 1 .. Len(table) : table[i] \in Seq(Seq(C)) OBVIOUS
  <2>2. Seq(Seq(C)) \subseteq Seq(Seq(X)) OBVIOUS
  <2>3. \A i \in 1 .. Len(table) : table[i] \in Y BY <2>1, <2>2
  <2>4. table = [i \in 1 .. Len(table) |-> table[i]] /\ Len(table) \in Nat OBVIOUS
  <2> HIDE DEF Y
  <2>5. QED BY <2>3, <2>4, ListTyped
<1>7. \A e \in Y : CsvLine(e) \in Seq(X)
  <2> HIDE DEF X
  <2>1. QED BY <1>1, <1>2, <1>5, LineRead
<1> HIDE DEF X
<1>8. none \in T
  <2>1. none \in Seq(Y) /\ Len(none) = 0 BY <1>1
  <2>2. [i \in 1 .. Len(none) |-> CsvLine(none[i])] = none BY <1>1, <2>1
  <2>3. CsvText(none) = none BY <1>1, <2>2, FlattenNothing DEF CsvText
  <2>4. ReadFrom(r, none) = r BY <1>1, <1>2, <1>4, ReadNothing
  <2>5. QED BY <1>1, <1>2, <1>3, <2>1, <2>3, <2>4
<1>9. ASSUME NEW t \in Seq(Y), t \in T, NEW e \in Y PROVE Append(t, e) \in T
  <2> DEFINE n == Len(t)
             u == Append(t, e)
             s == [i \in 1 .. n |-> CsvLine(t[i])]
             v == [i \in 1 .. Len(u) |-> CsvLine(u[i])]
  <2>1. /\ u \in Seq(Y) /\ n \in Nat /\ Len(u) = n + 1 /\ u[n + 1] = e
        /\ \A i \in 1 .. n : u[i] = t[i]
    OBVIOUS
  <2>2. t \in Seq(Seq(Seq(X))) /\ e \in Seq(Seq(X)) /\ e # <<>> OBVIOUS
  <2> HIDE DEF u, Y
  <2>3. s \in Seq(Seq(X)) /\ v \in Seq(Seq(X)) /\ v = Append(s, CsvLine(e))
    <3>1. s \in [1 .. n -> Seq(X)]
      <4>1. \A i \in 1 .. n : t[i] \in Y BY <2>1
      <4>2. QED BY <1>7, <4>1
    <3>2. v \in [1 .. n + 1 -> Seq(X)]
      <4>1. \A i \in 1 .. n + 1 : u[i] \in Y BY <2>1
      <4>2. QED BY <1>7, <2>1, <4>1
    <3>3. \A i \in 1 .. n : v[i] = s[i]
      <4>1. \A i \in 1 .. n : i \in 1 .. Len(u) BY <2>1
      <4>2. QED BY <2>1, <4>1
    <3>4. v[n + 1] = CsvLine(e) BY <2>1
    <3>5. n \in Nat BY <2>1
    <3> HIDE DEF s, v, n
    <3>6. PICK x : x = CsvLine(e) OBVIOUS
    <3>7. v[n + 1] = x BY <3>4, <3>6
    <3>8. s \in Seq(Seq(X)) /\ v \in Seq(Seq(X)) /\ v = Append(s, x)
      BY <3>1, <3>2, <3>3, <3>5, <3>7, OneMorePiece
    <3>9. QED BY <3>6, <3>8
  <2>4. CsvText(t) = FlattenSeq(s) /\ CsvText(u) = FlattenSeq(v) BY DEF CsvText
  <2>5. PICK l : l = CsvLine(e) OBVIOUS
  <2>6. l \in Seq(X) BY <1>7, <2>5
  <2>7. CsvText(u) = CsvText(t) \o l
    <3> HIDE DEF s, v
    <3>1. QED BY <2>3, <2>4, <2>5, <2>6, FlattenAppend
  <2>8. CsvText(t) \in Seq(X) /\ ReadFrom(r, CsvText(t)) = Reader("text", none, none, t)
    BY <1>1, <1>3, <1>9
  <2>9. ReadFrom(Reader("text", none, none, t), l) = Reader("text", none, none, u)
    BY <1>1, <1>5, <2>2, <2>5, LineRead DEF u
  <2>10. ReadFrom(r, CsvText(t) \o l) = ReadFrom(ReadFrom(r, CsvText(t)), l)
    BY <1>4, <2>6, <2>8, ReadOn
  <2>11. CsvText(u) \in Seq(X) BY <2>6, <2>7, <2>8
  <2>12. QED BY <1>1, <1>3, <2>1, <2>7, <2>8, <2>9, <2>10, <2>11 DEF u
<1>10. Seq(Y) \subseteq T
  <2> HIDE DEF T, Y
  <2>1. QED BY <1>1, <1>8, <1>9, Growing
<1>11. ReadFrom(r, CsvText(table)) = Reader("text", none, none, table) BY <1>1, <1>3, <1>6, <1>10
<1>12. CsvText(table) \in Seq(X) BY <1>6, <1>10
<1>13. ReadCsv(CsvText(table)) = table BY <1>1, <1>3, <1>11, ReaderIs DEF ReadCsv
<1>14. QED BY <1>12, <1>13 DEF X

------------------------------------------------------------------------------
(* CSV: the columns of a table                                             *)

\* Of equal members of a list, the first.
Firsts(a) ==
    FlattenSeq([i \in 1 .. Len(a) |-> IF \E j \in 1 .. (i - 1) : a[j] = a[i] THEN <<>> ELSE <<a[i]>>])

\* No member of a list twice.
OnceEach(a) == \A i, j \in 1 .. Len(a) : a[i] = a[j] => i = j

LEMMA FirstsAppend ==
    ASSUME NEW X, NEW a \in Seq(X), NEW e \in X
    PROVE  Firsts(Append(a, e)) = IF e \in ToSet(a) THEN Firsts(a) ELSE Append(Firsts(a), e)
<1> DEFINE Piece(b, i) == IF \E j \in 1 .. (i - 1) : b[j] = b[i] THEN <<>> ELSE <<b[i]>>
<1>1. PICK n, u, none : n = Len(a) /\ u = Append(a, e) /\ none = <<>> OBVIOUS
<1>2. /\ n \in Nat /\ u \in Seq(X) /\ Len(u) = n + 1 /\ u[n + 1] = e
      /\ \A i \in 1 .. n : u[i] = a[i]
      /\ none \in Seq(X)
  BY <1>1
<1>3. \A b \in Seq(X) : \A i \in 1 .. Len(b) : Piece(b, i) \in Seq(X)
  <2> SUFFICES ASSUME NEW b \in Seq(X), NEW i \in 1 .. Len(b) PROVE Piece(b, i) \in Seq(X)
    OBVIOUS
  <2>1. b[i] \in X OBVIOUS
  <2>2. <<b[i]>> \in Seq(X) BY <2>1
  <2>3. QED BY <1>1, <1>2, <2>2
<1>4. PICK s : s = [i \in 1 .. n |-> Piece(a, i)] OBVIOUS
<1>5. PICK v : v = [i \in 1 .. n + 1 |-> Piece(u, i)] OBVIOUS
<1>6. PICK p : p = Piece(u, n + 1) OBVIOUS
<1>7. \A i \in 1 .. n : Piece(u, i) = Piece(a, i)
  <2> SUFFICES ASSUME NEW i \in 1 .. n PROVE Piece(u, i) = Piece(a, i) OBVIOUS
  <2>1. \A j \in 1 .. (i - 1) : j \in 1 .. n BY <1>2
  <2>2. u[i] = a[i] /\ \A j \in 1 .. (i - 1) : u[j] = a[j] BY <1>2, <2>1
  <2>3. QED BY <2>2
<1>8. s \in Seq(Seq(X)) /\ v \in Seq(Seq(X)) /\ v = Append(s, p)
  <2>1. s \in [1 .. n -> Seq(X)] BY <1>1, <1>3, <1>4
  <2>2. v \in [1 .. n + 1 -> Seq(X)] BY <1>2, <1>3, <1>5
  <2>3. n + 1 \in 1 .. n + 1 /\ \A i \in 1 .. n : i \in 1 .. n + 1 BY <1>2
  <2>4. v[n + 1] = p BY <1>5, <1>6, <2>3
  <2>5. \A i \in 1 .. n : v[i] = s[i] BY <1>4, <1>5, <1>7, <2>3
  <2> HIDE DEF Piece
  <2>6. QED BY <1>2, <2>1, <2>2, <2>4, <2>5, OneMorePiece
<1>9. Firsts(a) = FlattenSeq(s) BY <1>1, <1>4 DEF Firsts
<1>10. Firsts(u) = FlattenSeq(v) BY <1>2, <1>5 DEF Firsts
<1>11. p \in Seq(X) BY <1>2, <1>3, <1>6
<1>12. Firsts(u) = Firsts(a) \o p
  <2> HIDE DEF Piece
  <2>1. QED BY <1>8, <1>9, <1>10, <1>11, FlattenAppend
<1>13. Firsts(a) \in Seq(X) BY FirstOnes DEF Firsts
<1>14. p = IF e \in ToSet(a) THEN none ELSE <<e>>
  <2>1. (n + 1) - 1 = n BY <1>2
  <2>2. (\E j \in 1 .. n : u[j] = u[n + 1]) <=> e \in ToSet(a)
    <3>1. DOMAIN a = 1 .. n BY <1>1
    <3>2. QED BY <1>2, <3>1 DEF ToSet
  <2>3. p = IF \E j \in 1 .. n : u[j] = u[n + 1] THEN <<>> ELSE <<u[n + 1]>> BY <1>6, <2>1
  <2>4. QED BY <1>1, <1>2, <2>2, <2>3
<1>15. CASE e \in ToSet(a)
  <2>1. p = none BY <1>14, <1>15
  <2>2. Firsts(a) \o none = Firsts(a) BY <1>1, <1>13, ConcatEmptySeq
  <2>3. QED BY <1>1, <1>12, <1>15, <2>1, <2>2
<1>16. CASE e \notin ToSet(a)
  <2>1. p = <<e>> BY <1>14, <1>16
  <2>2. Firsts(a) \o <<e>> = Append(Firsts(a), e) BY <1>13, AppendOne
  <2>3. QED BY <1>1, <1>12, <1>16, <2>1, <2>2
<1>17. QED BY <1>15, <1>16

\* What is left of a list is there once.
LEMMA FirstsOnce ==
    ASSUME NEW X, NEW a \in Seq(X)
    PROVE  Firsts(a) \in Seq(X) /\ ToSet(Firsts(a)) = ToSet(a) /\ OnceEach(Firsts(a))
<1> DEFINE T == {b \in Seq(X) : OnceEach(Firsts(b))}
<1>1. PICK none : none = <<>> OBVIOUS
<1>2. \A b \in Seq(X) : Firsts(b) \in Seq(X) /\ ToSet(Firsts(b)) = ToSet(b) BY FirstOnes DEF Firsts
<1>3. none \in T
  <2>1. none \in Seq(X) /\ Len(none) = 0 BY <1>1
  <2>2. PICK f : f = Firsts(none) OBVIOUS
  <2>3. f \in Seq(X) /\ ToSet(f) = {}
    <3>1. ToSet(none) = {} BY <2>1 DEF ToSet
    <3>2. QED BY <1>2, <2>1, <2>2, <3>1
  <2>4. \A i \in 1 .. Len(f) : FALSE BY <2>3 DEF ToSet
  <2>5. QED BY <2>1, <2>2, <2>4 DEF OnceEach
<1>4. ASSUME NEW b \in Seq(X), b \in T, NEW e \in X PROVE Append(b, e) \in T
  <2>1. PICK f, g, n : f = Firsts(b) /\ g = Append(f, e) /\ n = Len(f) OBVIOUS
  <2>2. f \in Seq(X) /\ ToSet(f) = ToSet(b) /\ OnceEach(f) BY <1>2, <1>4, <2>1
  <2>3. Append(b, e) \in Seq(X) OBVIOUS
  <2>4. CASE e \in ToSet(b)
    <3>1. Firsts(Append(b, e)) = f BY <2>1, <2>4, FirstsAppend
    <3>2. QED BY <2>2, <2>3, <3>1
  <2>5. CASE e \notin ToSet(b)
    <3>1. Firsts(Append(b, e)) = g BY <2>1, <2>5, FirstsAppend
    <3>2. /\ n \in Nat /\ Len(g) = n + 1 /\ g[n + 1] = e /\ \A i \in 1 .. n : g[i] = f[i]
      BY <2>1, <2>2
    <3>3. \A i \in 1 .. n : f[i] # e
      <4>1. DOMAIN f = 1 .. n BY <2>1, <2>2
      <4>2. QED BY <2>2, <2>5, <4>1 DEF ToSet
    <3>4. \A i \in 1 .. n + 1 : i = n + 1 \/ i \in 1 .. n BY <3>2
    <3>5. ASSUME NEW i \in 1 .. n + 1, NEW j \in 1 .. n + 1, g[i] = g[j] PROVE i = j
      <4>1. CASE i \in 1 .. n /\ j \in 1 .. n BY <2>1, <2>2, <3>2, <3>5, <4>1 DEF OnceEach
      <4>2. CASE i = n + 1 \/ j = n + 1 BY <3>2, <3>3, <3>4, <3>5, <4>2
      <4>3. QED BY <3>4, <4>1, <4>2
    <3>6. OnceEach(g) BY <3>2, <3>5 DEF OnceEach
    <3>7. QED BY <2>3, <3>1, <3>6
  <2>6. QED BY <2>4, <2>5
<1>5. Seq(X) \subseteq T
  <2> HIDE DEF T
  <2>1. QED BY <1>1, <1>3, <1>4, Growing
<1>6. QED BY <1>2, <1>5

\* What stands before a text is taken off.
LEMMA MarkTaken ==
    ASSUME NEW S, NEW t \in Seq(S), NEW b
    PROVE  Tail(<<b>> \o t) = t
<1>1. PICK X, mark, l : X = S \cup {b} /\ mark = <<b>> /\ l = Len(t) OBVIOUS
<1>2. t \in Seq(X) /\ l \in Nat
  <2>1. S \subseteq X BY <1>1
  <2>2. QED BY <1>1, <2>1
<1>3. mark \in Seq(X) /\ Len(mark) = 1
  <2>1. b \in X BY <1>1
  <2>2. QED BY <1>1, <2>1
<1>4. PICK w : w = mark \o t OBVIOUS
<1>5. w \in Seq(X) /\ Len(w) = l + 1 BY <1>1, <1>2, <1>3, <1>4, ConcatProperties
<1>6. \A i \in 1 .. l : w[i + 1] = t[i]
  <2>1. \A i \in 1 .. l : i + 1 \in 1 .. l + 1 /\ i + 1 > 1 /\ (i + 1) - 1 = i BY <1>2
  <2>2. \A k \in 1 .. l + 1 : k > 1 => w[k] = t[k - 1]
    BY <1>1, <1>2, <1>3, <1>4, ConcatProperties
  <2>3. QED BY <2>1, <2>2
<1>7. w # <<>> BY <1>2, <1>5
<1>8. PICK u : u = Tail(w) OBVIOUS
<1>9. u \in Seq(X) /\ Len(u) = l /\ \A i \in 1 .. l : u[i] = w[i + 1]
  BY <1>2, <1>5, <1>7, <1>8
<1>10. u = t BY <1>1, <1>2, <1>6, <1>9, SeqEqual
<1>11. QED BY <1>1, <1>4, <1>8, <1>10

\* Every key of a row has a column.
KeysHaveColumns(rows, columns) ==
    \A i \in 1 .. Len(rows) : \A k \in 1 .. Len(rows[i]) :
        \E c \in 1 .. Len(columns) : columns[c] = rows[i][k][1]

\* And no key has two.
LEMMA ColumnsAre ==
    ASSUME NEW K, NEW V, NEW rows \in Seq(Seq(K \X V))
    PROVE  /\ Columns(rows) \in Seq(K) /\ OnceEach(Columns(rows))
           /\ KeysHaveColumns(rows, Columns(rows))
<1> DEFINE RowKeys(i) == [k \in 1 .. Len(rows[i]) |-> rows[i][k][1]]
<1>1. PICK s : s = [i \in 1 .. Len(rows) |-> RowKeys(i)] OBVIOUS
<1>2. \A i \in 1 .. Len(rows) : RowKeys(i) \in Seq(K)
  <2> SUFFICES ASSUME NEW i \in 1 .. Len(rows) PROVE RowKeys(i) \in Seq(K) OBVIOUS
  <2>1. PICK row : row = rows[i] OBVIOUS
  <2>2. row \in Seq(K \X V) BY <2>1
  <2>3. \A k \in 1 .. Len(row) : row[k][1] \in K
    <3>1. \A k \in 1 .. Len(row) : row[k] \in K \X V BY <2>2
    <3>2. QED BY <3>1
  <2>4. [k \in 1 .. Len(row) |-> row[k][1]] \in [1 .. Len(row) -> K] /\ Len(row) \in Nat BY <2>2, <2>3
  <2>5. QED BY <2>1, <2>4
<1>3. s \in Seq(Seq(K)) /\ Len(s) = Len(rows) /\ \A i \in 1 .. Len(rows) : s[i] = RowKeys(i)
  <2>1. PICK n : n = Len(rows) OBVIOUS
  <2>2. n \in Nat BY <2>1
  <2> HIDE DEF RowKeys
  <2>3. s = [i \in 1 .. n |-> s[i]] /\ \A i \in 1 .. n : s[i] = RowKeys(i) BY <1>1, <2>1
  <2>4. \A i \in 1 .. n : s[i] \in Seq(K) BY <1>2, <2>1, <2>3
  <2>5. s \in Seq(Seq(K)) BY <2>2, <2>3, <2>4, ListTyped
  <2>6. Len(s) = n BY <2>2, <2>3, ListLen
  <2>7. QED BY <2>1, <2>3, <2>5, <2>6
<1>4. PICK keys : keys = FlattenSeq(s) OBVIOUS
<1>5. keys \in Seq(K) BY <1>3, <1>4, FlattenTyped
<1>6. Columns(rows) = Firsts(keys) BY <1>1, <1>4 DEF Columns, Firsts
<1>7. PICK columns : columns = Columns(rows) OBVIOUS
<1>8. columns \in Seq(K) /\ ToSet(columns) = ToSet(keys) /\ OnceEach(columns)
  BY <1>5, <1>6, <1>7, FirstsOnce
<1>9. ASSUME NEW i \in 1 .. Len(rows), NEW k \in 1 .. Len(rows[i])
      PROVE  \E c \in 1 .. Len(columns) : columns[c] = rows[i][k][1]
  <2>1. PICK x : x = rows[i][k][1] OBVIOUS
  <2>2. x \in ToSet(s[i])
    <3>1. s[i] = RowKeys(i) BY <1>3
    <3>2. DOMAIN RowKeys(i) = 1 .. Len(rows[i]) /\ RowKeys(i)[k] = x BY <2>1
    <3> HIDE DEF RowKeys
    <3>3. QED BY <3>1, <3>2 DEF ToSet
  <2>3. ToSet(keys) = UNION {ToSet(s[l]) : l \in 1 .. Len(s)} BY <1>3, <1>4, FlattenHas
  <2>4. x \in ToSet(columns)
    <3>1. i \in 1 .. Len(s) BY <1>3
    <3>2. QED BY <1>8, <2>2, <2>3, <3>1
  <2>5. DOMAIN columns = 1 .. Len(columns) BY <1>8
  <2>6. QED BY <2>1, <2>4, <2>5 DEF ToSet
<1>10. KeysHaveColumns(rows, columns) BY <1>9 DEF KeysHaveColumns
<1>11. QED BY <1>7, <1>8, <1>10

(* Whatever commas, quotes and line breaks the keys and cells of rows have, and whichever    *)
(* keys each row has, a reader by RFC 4180 finds a first line with every key in one column   *)
(* and, under it, each row's cell for that key as it was put in; the mark a caller may ask   *)
(* for stands before all of it (format_csv, csv_join, csv_escape).                           *)
THEOREM CsvIsReadBack ==
    ASSUME NEW C, NEW V, NEW rows \in Seq(Seq(Seq(C) \X V)), NEW bom \in BOOLEAN,
           \A i \in 1 .. Len(rows), key \in Seq(C) : CsvCell(rows[i], key) \in Seq(C),
           Columns(rows) # <<>>
    PROVE  LET columns == Columns(rows)
               csv     == FormatCsv(rows, bom)
               back    == ReadCsv(IF bom THEN Tail(csv) ELSE csv)
           IN  /\ KeysHaveColumns(rows, columns) /\ OnceEach(columns)
               /\ back = CsvCells(rows) /\ Len(back) = Len(rows) + 1 /\ back[1] = columns
               /\ \A i \in 1 .. Len(rows), c \in 1 .. Len(columns) :
                    back[i + 1][c] = CsvCell(rows[i], columns[c])
<1>1. PICK columns, n, none : columns = Columns(rows) /\ n = Len(rows) /\ none = <<>> OBVIOUS
<1>2. columns \in Seq(Seq(C)) /\ columns # none /\ n \in Nat
  <2>1. PICK K : K = Seq(C) OBVIOUS
  <2>2. rows \in Seq(Seq(K \X V)) BY <2>1
  <2>3. columns \in Seq(K) BY <1>1, <2>2, ColumnsAre
  <2>4. n \in Nat BY <1>1
  <2>5. QED BY <1>1, <2>1, <2>3, <2>4
<1> DEFINE Cells(i) == [k \in 1 .. Len(columns) |-> CsvCell(rows[i], columns[k])]
<1>3. \A i \in 1 .. n : Cells(i) \in Seq(Seq(C)) /\ Cells(i) # none
  <2> SUFFICES ASSUME NEW i \in 1 .. n PROVE Cells(i) \in Seq(Seq(C)) /\ Cells(i) # none OBVIOUS
  <2>1. \A k \in 1 .. Len(columns) : CsvCell(rows[i], columns[k]) \in Seq(C)
    <3>1. \A k \in 1 .. Len(columns) : columns[k] \in Seq(C) BY <1>2
    <3>2. QED BY <1>1, <3>1
  <2>2. PICK m, f : m = Len(columns) /\ f = Cells(i) OBVIOUS
  <2>3. m \in Nat /\ m # 0 BY <1>1, <1>2, <2>2
  <2>4. f \in [1 .. m -> Seq(C)] BY <2>1, <2>2
  <2>5. f \in Seq(Seq(C)) /\ Len(f) = m BY <2>3, <2>4
  <2>6. f # none
    <3>1. Len(none) = 0 BY <1>1
    <3>2. QED BY <2>3, <2>5, <3>1
  <2>7. QED BY <2>2, <2>5, <2>6
<1>4. PICK lines : lines = [i \in 1 .. n |-> Cells(i)] OBVIOUS
<1>5. lines \in Seq(Seq(Seq(C))) /\ Len(lines) = n /\ \A i \in 1 .. n : lines[i] = Cells(i)
  <2> HIDE DEF Cells
  <2>1. lines \in [1 .. n -> Seq(Seq(C))] BY <1>3, <1>4
  <2>2. QED BY <1>2, <1>4, <2>1
<1>6. PICK table, first : first = <<columns>> /\ table = first \o lines OBVIOUS
<1>7. first \in Seq(Seq(Seq(C))) /\ Len(first) = 1 /\ first[1] = columns
  <2>1. PICK X : X = Seq(Seq(C)) OBVIOUS
  <2>2. columns \in X BY <1>2, <2>1
  <2>3. first \in Seq(X) /\ Len(first) = 1 /\ first[1] = columns BY <1>6, <2>2
  <2>4. QED BY <2>1, <2>3
<1>8. /\ table \in Seq(Seq(Seq(C))) /\ Len(table) = n + 1 /\ table[1] = columns
      /\ \A i \in 1 .. n : table[i + 1] = Cells(i)
  <2> HIDE DEF Cells
  <2>1. PICK X : X = Seq(Seq(C)) OBVIOUS
  <2>2. first \in Seq(X) /\ lines \in Seq(X) BY <1>5, <1>7, <2>1
  <2>3. table \in Seq(X) /\ Len(table) = n + 1 BY <1>2, <1>5, <1>6, <1>7, <2>2
  <2>4. table[1] = columns BY <1>2, <1>5, <1>6, <1>7, <2>2
  <2>5. ASSUME NEW i \in 1 .. n PROVE table[i + 1] = Cells(i)
    <3>1. i + 1 \in 1 .. n + 1 /\ i + 1 > 1 /\ (i + 1) - 1 = i BY <1>2
    <3>2. table[i + 1] = lines[i] BY <1>5, <1>6, <1>7, <2>2, <3>1
    <3>3. QED BY <1>5, <3>2
  <2>6. QED BY <2>1, <2>3, <2>4, <2>5
<1>9. \A i \in 1 .. Len(table) : table[i] # none
  <2> SUFFICES ASSUME NEW i \in 1 .. n + 1 PROVE table[i] # none BY <1>8
  <2>1. CASE i = 1 BY <1>2, <1>8, <2>1
  <2>2. CASE i # 1
    <3>1. i - 1 \in 1 .. n /\ (i - 1) + 1 = i BY <1>2, <2>2
    <3>2. table[i] = Cells(i - 1) BY <1>8, <3>1
    <3>3. QED BY <1>3, <3>1, <3>2
  <2>3. QED BY <2>1, <2>2
<1>10. CsvCells(rows) = table BY <1>1, <1>4, <1>6 DEF CsvCells
<1>11. PICK text : text = CsvText(table) OBVIOUS
<1>12. text \in Seq(C \cup Special) /\ ReadCsv(text) = table
  <2> HIDE DEF Cells
  <2>1. QED BY <1>1, <1>8, <1>9, <1>11, TableRead
<1>13. rows # <<>>
  <2> SUFFICES ASSUME rows = <<>> PROVE FALSE OBVIOUS
  <2>1. [i \in 1 .. Len(rows) |-> [k \in 1 .. Len(rows[i]) |-> rows[i][k][1]]] = none
    BY <1>1
  <2>2. [i \in 1 .. Len(none) |->
            IF \E j \in 1 .. (i - 1) : none[j] = none[i] THEN <<>> ELSE <<none[i]>>] = none
    BY <1>1
  <2>3. FlattenSeq(none) = none BY <1>1, FlattenNothing
  <2>4. Columns(rows) = none BY <2>1, <2>2, <2>3 DEF Columns
  <2>5. QED BY <1>1, <2>4
<1>14. PICK csv : csv = FormatCsv(rows, bom) OBVIOUS
<1>15. (IF bom THEN Tail(csv) ELSE csv) = text
  <2>1. csv = (IF bom THEN <<"BOM">> ELSE <<>>) \o text
    BY <1>10, <1>11, <1>13, <1>14 DEF FormatCsv
  <2>2. PICK mark : mark = <<"BOM">> OBVIOUS
  <2>4. Tail(mark \o text) = text BY <1>12, <2>2, MarkTaken
  <2>5. <<>> \o text = text BY <1>12, ConcatEmptySeq
  <2>6. QED BY <2>1, <2>2, <2>4, <2>5
<1>16. PICK back : back = ReadCsv(IF bom THEN Tail(csv) ELSE csv) OBVIOUS
<1>17. back = table BY <1>12, <1>15, <1>16
<1>18. OnceEach(columns) /\ KeysHaveColumns(rows, columns)
  <2>1. PICK K : K = Seq(C) OBVIOUS
  <2>2. rows \in Seq(Seq(K \X V)) BY <2>1
  <2>3. QED BY <1>1, <2>2, ColumnsAre
<1>19. \A i \in 1 .. n, c \in 1 .. Len(columns) : back[i + 1][c] = CsvCell(rows[i], columns[c])
  BY <1>8, <1>17
<1> HIDE DEF Cells
<1>20. QED BY <1>1, <1>8, <1>10, <1>14, <1>16, <1>17, <1>18, <1>19
===============================================================================
