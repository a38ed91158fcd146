-------------------------- MODULE MCNexusStructure -------------------------
(***************************************************************************)
(* Every document of up to two items of MCItems and of three of MCFewItems, *)
(* each at the root or in an item before it, the attributes of the root and *)
(* the registry varied with the smaller ones; and the example isis.json.   *)
(***************************************************************************)
EXTENDS NexusStructure

CONSTANTS t1, j1, a, b

MCAttributeNames == {"NX_class", "title", "file_time"}

MCRunStarts ==
  { [start_time_ms |-> 0, stop_time_ms |-> 0, job_id |-> j1, control_topic |-> None] }

\* As the tests have it: a second module under the name of the first
MCDuplicate == Append(DefaultRegistry, [name |-> "NXevent_data", creates |-> "IXseblock"])

MCRegistries == { DefaultRegistry, MCDuplicate }

NoAttributes == EmptyMap

Item(object, attributes) == [object |-> object, attributes |-> attributes]

Group(name)      == Item([type |-> "group", name |-> name, children |-> "array"], NoAttributes)
With(name, atts) == Item([type |-> "group", name |-> name, children |-> "array",
                          attributes |-> "object"], atts)

Events       == Item([module |-> "NXevent_data", config |-> t1], NoAttributes)
Block        == Item([module |-> "IXseblock"], NoAttributes)
Classified   == With(b, [NX_class |-> "ascii", title |-> "other"])
InvalidGroup == Item([type |-> "group_blah_blah_blah", name |-> a], NoAttributes)

MCFewItems == { Group(a), Classified, Events, Block, InvalidGroup }

MCItems == MCFewItems \cup
  { Group("event_id"), With(a, [title |-> "unicode", NX_class |-> "ascii"]),
    Item([type |-> "group", name |-> NotAString], NoAttributes),
    Item([type |-> "group", name |-> a, children |-> "array", attributes |-> "string"],
         NoAttributes),
    Item([type |-> "group", name |-> a, module |-> "IXseblock"], NoAttributes),
    Item([module |-> "IXseblock", config |-> t1], NoAttributes),
    Item([module |-> "NXevent_data"], NoAttributes),
    Item([module |-> "amazing_writer"], NoAttributes) }

\* The document with these items, where last[i] is the last item inside item i
DocumentOf(items, last, atts) ==
  [json |-> TRUE, last |-> last,
   nodes |-> [n \in 0..Len(items) |->
                IF n = 0 THEN [children |-> "array", attributes |-> "object"]
                ELSE items[n].object],
   attributes |-> [n \in 0..Len(items) |-> IF n = 0 THEN atts ELSE items[n].attributes]]

Nested(items, last) ==
  /\ last[0] = Len(items)
  /\ \A i \in DOMAIN items :
       /\ i <= last[i] /\ \A j \in i..last[i] : last[j] <= last[i]
       /\ last[i] # i => "children" \in DOMAIN items[i].object

Shapes(items) == {last \in [0..Len(items) -> 0..Len(items)] : Nested(items, last)}

MCRootAttributes ==
  { NoAttributes, [title |-> "ascii", NX_class |-> "ascii"], [file_time |-> "ascii"] }

MCSmall ==
  UNION {{DocumentOf(items, last, atts) : last \in Shapes(items), atts \in MCRootAttributes} :
           items \in UNION {[1..n -> MCItems] : n \in 0..2}}

MCLarge ==
  UNION {{DocumentOf(items, last, NoAttributes) : last \in Shapes(items)} :
           items \in [1..3 -> MCFewItems]}

MCOne == DocumentOf(<<Block>>, [n \in 0..1 |-> 1], NoAttributes)

MCRefused ==
  { [MCOne EXCEPT !.json = FALSE],
    [MCOne EXCEPT !.nodes[0] = [children |-> "number"]],
    [MCOne
       EXCEPT !.nodes[0] = [children |-> "array", version |-> "number"]] }

MCIsis ==
  LET items == <<With("raw_data_1", [NX_class |-> "ascii"]), Group("detector_1_events"), Events,
                 With("selog", [NX_class |-> "ascii"]), Group("SOME_BLOCK"), Block>>
  IN  DocumentOf(items, [n \in 0..6 |-> IF n \in {2, 3} THEN 3 ELSE 6], NoAttributes)

MCDocuments == MCSmall \cup MCLarge \cup MCRefused \cup {MCIsis}
=============================================================================
