------------------------------- MODULE ModelJson ------------------------------
(***************************************************************************)
(* How the product models and the command models come out of their JSON    *)
(* documents (property.cpp, productModelImp.cpp, commandModelImp.cpp): the *)
(* init methods of the classes, and the two repositories.                  *)
(*                                                                         *)
(* A JSON value is a record [t, v] of its type and its value: an object's  *)
(* is a function from member names, an array's a sequence.  The type of a  *)
(* number is "uint64" when it does not fit an int.  What describes a value *)
(* to its reader (units, limits, names) is checked for its type and left   *)
(* out.                                                                    *)
(***************************************************************************)
EXTENDS ProductModel

CONSTANTS ProductDocument, CommandDocument   \* one of each kind

Json(t, v)  == [t |-> t, v |-> v]
Text_(text) == Json("string", text)
Int_(n)     == Json("int", n)
Object(f)   == Json("object", f)
Array(s)    == Json("array", s)

(* isObject, isMember and isString .. isArray.                              *)
Has(json, name, type) ==
  /\ json.t = "object"
  /\ name \in DOMAIN json.v
  /\ json.v[name].t = type
HasUInt64(json, name) ==
  \/ Has(json, name, "uint64")
  \/ Has(json, name, "int") /\ json.v[name].v >= 0
Get(json, name) == json.v[name].v

Null == [kind |-> "NULL"]
-----------------------------------------------------------------------------
(* makeDataType: what a dataType in a document is, or Null.                 *)
RECURSIVE makeDataType(_)

WithType(json, type) ==
  IF type = Null THEN [rc |-> -2]
  ELSE [rc |-> 0, property |-> Property(Get(json, "identifier"),
                                        Get(json, "index"), type)]

(* property::init; -2 when there is no data type for it.                    *)
propertyInit(json) ==
  IF ~(/\ Has(json, "identifier", "string") /\ Has(json, "index", "int")
       /\ Has(json, "dataType", "object") /\ Has(json, "name", "string"))
  THEN [rc |-> -1]
  ELSE WithType(json, makeDataType(json.v["dataType"]))

AllOrNone(made) ==
  IF \E i \in DOMAIN made : made[i].rc # 0 THEN [rc |-> -3]
  ELSE [rc |-> 0, properties |-> [i \in DOMAIN made |-> made[i].property]]

(* Mutant: a property that cannot be read is left out.                      *)
propertiesInit_Skip(items) ==
  LET made == [i \in 1..Len(items) |-> propertyInit(items[i])]
      good == SelectSeq(made, LAMBDA m : m.rc = 0)
  IN  [rc |-> 0, properties |-> [i \in 1..Len(good) |-> good[i].property]]

(* The properties of a module, a command or a struct: all or none.          *)
propertiesInit(items) ==
  AllOrNone([i \in 1..Len(items) |-> propertyInit(items[i])])

NumberInit(width, specs) ==
  IF /\ Has(specs, "unit", "string")
     /\ \A name \in {"min", "max", "step"} : HasUInt64(specs, name)
  THEN NumberType(width) ELSE Null

StringInit(specs) ==
  IF Has(specs, "length", "int") THEN StringType(Get(specs, "length"))
  ELSE Null

(* base64 is known and refused.                                             *)
BytesInit(specs) ==
  IF /\ Has(specs, "length", "int")
     /\ Has(specs, "codec", "string") /\ Get(specs, "codec") = "hexstring"
  THEN BytesType(Get(specs, "length")) ELSE Null

BoolInit(specs) ==
  IF Has(specs, "1", "string") /\ Has(specs, "0", "string") THEN BoolType
  ELSE Null

EnumInit(specs) ==
  IF /\ specs.t = "object"
     /\ \A name \in DOMAIN specs.v : Has(specs, name, "string")
  THEN EnumType ELSE Null

(* The size of an array is not kept to.                                     *)
ArrayOf(item) == IF item.rc = 0 THEN ArrayType(item.property.type) ELSE Null
ArrayInit(specs) ==
  IF Has(specs, "item", "object") /\ Has(specs, "size", "int")
  THEN ArrayOf(propertyInit(specs.v["item"])) ELSE Null

StructOf(made) == IF made.rc = 0 THEN StructType(made.properties) ELSE Null
StructInit(specs) ==
  IF specs.t = "array" THEN StructOf(propertiesInit(specs.v)) ELSE Null

Width == [int8 |-> 1, int16 |-> 2, int32 |-> 4, int64 |-> 8]

makeDataType(json) ==
  LET type == Get(json, "type")
      specs == json.v["specs"]
  IN  IF ~Has(json, "type", "string") \/ "specs" \notin DOMAIN json.v THEN Null
      ELSE CASE type \in DOMAIN Width -> NumberInit(Width[type], specs)
             [] type = "string" -> StringInit(specs)
             [] type = "bytes"  -> BytesInit(specs)
             [] type = "bool"   -> BoolInit(specs)
             [] type = "enum"   -> EnumInit(specs)
             [] type = "array"  -> ArrayInit(specs)
             [] type = "struct" -> StructInit(specs)
             [] OTHER -> Null
-----------------------------------------------------------------------------
(* A member that may be missing: the items of its array, -2 when it is      *)
(* something else, -3 when an item cannot be read.                          *)
Items(json, name) ==
  IF name \in DOMAIN json.v THEN json.v[name] ELSE Array(<<>>)

ModuleOf(json, made) ==
  IF made.rc # 0 THEN [rc |-> -3]
  ELSE [rc |-> 0,
        module |-> [name |-> Get(json, "module"), index |-> Get(json, "index"),
                    properties |-> made.properties]]

moduleInit(json) ==
  IF ~(/\ Has(json, "module", "string") /\ Has(json, "index", "int")
       /\ Has(json, "source", "string"))
  THEN [rc |-> -1]
  ELSE IF Items(json, "properties").t # "array" THEN [rc |-> -2]
  ELSE ModuleOf(json, propertiesInit(Items(json, "properties").v))

ModelOf(json, made) ==
  IF \E i \in DOMAIN made : made[i].rc # 0 THEN [rc |-> -3]
  ELSE [rc |-> 0, product |-> Get(json, "product"),
        modules |-> [i \in DOMAIN made |-> made[i].module]]

modelInit(json) ==
  IF ~Has(json, "product", "string") THEN [rc |-> -1]
  ELSE LET items == Items(json, "modules")
       IN  IF items.t # "array" THEN [rc |-> -2]
           ELSE ModelOf(json, [i \in DOMAIN items.v |-> moduleInit(items.v[i])])

(* The repository: the modules of each product.  A product that is there    *)
(* is replaced, and its model lost.                                         *)
AddModel(repo, model) ==
  [rc |-> model.rc,
   repo |-> IF model.rc = 0 THEN (model.product :> model.modules) @@ repo
            ELSE repo]
addProductModel(repo, json) == AddModel(repo, modelInit(json))

getProductModel(repo, product) ==
  IF product \in DOMAIN repo THEN repo[product] ELSE <<>>
-----------------------------------------------------------------------------
CommandOf(json, made) ==
  IF made.rc # 0 THEN [rc |-> -3]
  ELSE [rc |-> 0,
        command |-> [topic |-> Get(json, "topic"), cmd |-> Get(json, "cmd"),
                     properties |-> made.properties]]

commandInit(json) ==
  IF ~(Has(json, "topic", "int") /\ Has(json, "cmd", "int")) THEN [rc |-> -1]
  ELSE IF Items(json, "message").t # "array" THEN [rc |-> -2]
  ELSE CommandOf(json, propertiesInit(Items(json, "message").v))

(* Those before the first that cannot be read.                              *)
ReadCommands(made) ==
  SelectSeq([i \in DOMAIN made |-> i],
            LAMBDA i : \A j \in 1..i : made[j].rc = 0)
AddCommands(commands, made) ==
  LET good == ReadCommands(made)
  IN  [rc |-> IF Len(good) = Len(made) THEN 0 ELSE -3,
       commands |-> commands \o [i \in DOMAIN good |-> made[good[i]].command]]

(* commandModelRepo::init, which is what addCommandModel calls.  Commands   *)
(* are added one by one.                                                    *)
addCommandModel(commands, json) ==
  LET items == Items(json, "commands")
  IN  IF json.t # "object" THEN [rc |-> -1, commands |-> commands]
      ELSE IF items.t # "array" THEN [rc |-> -2, commands |-> commands]
      ELSE AddCommands(commands,
                       [i \in DOMAIN items.v |-> commandInit(items.v[i])])
-----------------------------------------------------------------------------
(* A document with one fault: a value of another type, or a member that is  *)
(* not there, anywhere in it.                                               *)
RECURSIVE Faulty(_)
Faulty(json) ==
  LET Names == IF json.t \in {"object", "array"} THEN DOMAIN json.v ELSE {}
      Without(name) == [n \in DOMAIN json.v \ {name} |-> json.v[n]]
  IN  {Json("null", 0)}
        \cup UNION {{[json EXCEPT !.v[name] = fault] :
                        fault \in Faulty(json.v[name])} : name \in Names}
        \cup (IF json.t = "object"
              THEN {Object(Without(name)) : name \in Names} ELSE {})

(* The properties are those of the document, down to those of structs.      *)
RECURSIVE AreThoseOf(_, _)
AreThoseOf(properties, items) ==
  /\ Len(properties) = Len(items)
  /\ \A i \in 1..Len(items) :
       /\ properties[i].name = Get(items[i], "identifier")
       /\ properties[i].type.kind = "struct" =>
            AreThoseOf(properties[i].type.properties,
                       Get(items[i].v["dataType"], "specs"))

(* A product's document is taken as a whole or not at all: with a fault in  *)
(* it, either the repository is what it was, with the product's last model, *)
(* or the fault is one init does not mind and the new model has every       *)
(* module and every property of the document (model::init, addProductModel).*)
ModelIsWhole(model, items) ==
  /\ Len(model) = Len(items)
  /\ \A i \in 1..Len(items) :
       AreThoseOf(model[i].properties, Items(items[i], "properties").v)
AddedWhole(old, document, added) ==
  IF added.rc # 0 THEN added.repo = old
  ELSE ModelIsWhole(getProductModel(added.repo, Get(document, "product")),
                    Items(document, "modules").v)
ProductLoads(product) ==
  /\ product.rc = 0
  /\ getProductModel(product.repo, Get(ProductDocument, "product")) = Modules
  /\ \A document \in Faulty(ProductDocument) :
       AddedWhole(product.repo, document,
                  addProductModel(product.repo, document))
ProductLoadsWhole == ProductLoads(addProductModel(<<>>, ProductDocument))

(* A document of commands is taken up to its first fault, and no part of a  *)
(* command is (commandModelRepo::init).                                     *)
TakenWhole(old, items, added) ==
  LET new == SubSeq(added.commands, Len(old) + 1, Len(added.commands))
  IN  /\ IsPrefix(old, added.commands)
      /\ \A i \in 1..Len(new) :
           AreThoseOf(new[i].properties, Items(items[i], "message").v)
      /\ added.rc = 0 => Len(new) = Len(items)
      /\ added.rc = -3 => commandInit(items[Len(new) + 1]).rc # 0
CommandsLoad(loaded) ==
  /\ loaded.rc = 0 /\ loaded.commands = Commands
  /\ \A document \in Faulty(CommandDocument) :
       TakenWhole(Commands, Items(document, "commands").v,
                  addCommandModel(Commands, document))
CommandsLoadWhole == CommandsLoad(addCommandModel(<<>>, CommandDocument))
=============================================================================
