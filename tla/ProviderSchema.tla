--------------------------- MODULE ProviderSchema ---------------------------
(***************************************************************************)
(* The JSON Schema llm/factory.ts sends to a model provider, derived from  *)
(* the Zod schema the answer is validated with afterwards.                 *)
(*                                                                         *)
(* A schema node is a record of the JSON-Schema keywords that matter here: *)
(* a leaf has "types" (its `type`, as a set) and perhaps "enum" (a `const` *)
(* is an enum of one value with "const" |-> TRUE); an object has "props"   *)
(* and "required"; a combinator has "oneOf" or "anyOf", a sequence of      *)
(* nodes.  Lengths, formats and descriptions are left out, so are arrays   *)
(* and numbers: a leaf value is a string or null.                          *)
(***************************************************************************)
EXTENDS Sequences, FiniteSets, SequencesExt

TYPES == {"string", "null", "object"}

\* What z.toJSONSchema renders for the leaves of the two compiler schemas.
Text       == [types |-> {"string"}]
NullNode   == [types |-> {"null"}]
Literal(v) == [types |-> {"string"}, enum |-> {v}, const |-> TRUE]
Enum(vs)   == [types |-> {"string"}, enum |-> vs]

Object(props) == [types |-> {"object"}, props |-> props,
                  required |-> DOMAIN props]

STATUSES == {"active", "disputed"}

\* F1's answer: extract a page or skip the event.
f1Output ==
  [oneOf |-> << Object([action |-> Literal("extract"), type |-> Text,
                        title |-> Text, body |-> Text, path |-> Text,
                        tags |-> Text, confidence |-> Text]),
                Object([action |-> Literal("skip"), reason |-> Text]) >>]

Branch(relationship, target, status) ==
  Object([relationship |-> Literal(relationship), targetConceptId |-> target,
          resultStatus |-> status, mergedBody |-> Text])

\* F2's answer: how a candidate relates to an existing page.
f2Decision ==
  [oneOf |-> << Branch("confirms", Text, Enum(STATUSES)),
                Branch("extends", Text, Enum(STATUSES)),
                Branch("contradicts", Text, Literal("disputed")),
                Branch("unrelated", NullNode, Enum(STATUSES)) >>]

\* A schema whose root is not an object, the shape the envelope is for.
nullableText == [anyOf |-> <<Text, NullNode>>]

Has(node, key) == key \in DOMAIN node

---------------------------------------------------------------------------
(* From the Zod schema to the one that is sent.                            *)

IsLiteral(node) == Has(node, "const")

\* The literals a leaf names, or all of them.
Literals(variants) ==
  UNION {variants[i].enum : i \in {k \in DOMAIN variants :
                                     Has(variants[k], "enum")}}

(* One property's schema out of those its branches give it: identical ones *)
(* collapse, literals become an enum, one type keeps the literals of the   *)
(* variants that have some, several types become a type array.             *)

MergePropertyVariants(variants) ==
  LET types == UNION {variants[i].types : i \in DOMAIN variants}
      lits  == Literals(variants)
  IN  IF \A i \in DOMAIN variants : variants[i] = variants[1]
        THEN variants[1]
      ELSE IF \A i \in DOMAIN variants : IsLiteral(variants[i])
        THEN [types |-> variants[1].types, enum |-> lits]
      ELSE IF Cardinality(types) = 1 /\ lits # {}
        THEN [types |-> types, enum |-> lits]
      ELSE [types |-> types]

\* A union of object branches becomes one object: every branch's properties,
\* only the keys all of them require.
FlattenOneOfBranches(node) ==
  IF ~Has(node, "oneOf") \/ \E i \in DOMAIN node.oneOf :
                              ~Has(node.oneOf[i], "props")
    THEN node
    ELSE LET branches == node.oneOf
             keys == UNION {DOMAIN branches[i].props : i \in DOMAIN branches}
             With(key) == SelectSeq(branches, LAMBDA b : key \in DOMAIN b.props)
             Variants(key) == [i \in DOMAIN With(key) |->
                                 With(key)[i].props[key]]
         IN  [types |-> {"object"},
              props |-> [key \in keys |->
                           MergePropertyVariants(Variants(key))],
              required |-> {key \in keys : \A i \in DOMAIN branches :
                                             key \in branches[i].required}]

\* A combinator of typed leaves becomes a type array.
CollapseLeaf(node) ==
  IF Has(node, "anyOf")
    THEN [types |-> UNION {node.anyOf[i].types : i \in DOMAIN node.anyOf}]
    ELSE node

CollapsePrimitiveCombinators(node) ==
  IF Has(node, "props")
    THEN [node EXCEPT !.props = [key \in DOMAIN @ |-> CollapseLeaf(@[key])]]
    ELSE CollapseLeaf(node)

HasRootCombinator(node) == Has(node, "oneOf") \/ Has(node, "anyOf")

\* The schema sent, in an envelope object unless its root is one already.
ToProviderSchema(schema) ==
  LET stripped == CollapsePrimitiveCombinators(FlattenOneOfBranches(schema))
  IN  IF ~HasRootCombinator(stripped) /\ "object" \in stripped.types
        THEN [schema |-> stripped, wrapped |-> FALSE]
        ELSE [schema |-> Object([result |-> stripped]), wrapped |-> TRUE]

\* Strict mode is asked for only when every property is required everywhere.
IsOpenAiStrictCompatible(node) ==
  /\ Has(node, "props")
  /\ DOMAIN node.props \subseteq node.required
  /\ \A key \in DOMAIN node.props : ~HasRootCombinator(node.props[key])

---------------------------------------------------------------------------
(* What a schema accepts.                                                  *)

Null == "null"
TypeOfLeaf(v) == IF v = Null THEN "null" ELSE "string"

LEAVES == {Null, "text", "extract", "skip", "confirms", "extends",
           "contradicts", "unrelated"} \cup STATUSES

LeafAccepts(node, v) ==
  /\ TypeOfLeaf(v) \in node.types
  /\ Has(node, "enum") => v \in node.enum

\* A JSON-Schema validator, with additionalProperties false.
Admits(node, answer) ==
  /\ node.required \subseteq DOMAIN answer
  /\ DOMAIN answer \subseteq DOMAIN node.props
  /\ \A key \in DOMAIN answer : LeafAccepts(node.props[key], answer[key])

\* The answers one strictObject branch accepts.
BranchAnswers(branch) ==
  LET keys == DOMAIN branch.props
      open == {key \in keys : Has(branch.props[key], "enum")
                              \/ Null \in branch.props[key].types}
  IN  {[key \in keys |-> IF key \in open THEN f[key] ELSE "text"] :
         f \in {g \in [open -> LEAVES] :
                  \A key \in open : LeafAccepts(branch.props[key], g[key])}}

\* The answers the Zod schema accepts.
Answers(schema) ==
  IF Has(schema, "oneOf")
    THEN UNION {BranchAnswers(schema.oneOf[i]) : i \in DOMAIN schema.oneOf}
    ELSE {[result |-> v] : v \in {"text", Null}}
=============================================================================
