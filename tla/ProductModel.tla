----------------------------- MODULE ProductModel ----------------------------
(* The product models of star_protocol (property.cpp, productModelImp.cpp,  *)
(* commandModelImp.cpp): a module or a command is a list of properties, and *)
(* its data are one TLV per property.                                       *)
(*                                                                          *)
(* A JSON object is a function from member names; numbers are integers,     *)
(* text and hex text are sequences.  A member of a JSON type its property   *)
(* does not take is skipped as a missing one is, so it is not modelled.     *)
EXTENDS Tlv, SequencesExt, TLC

CONSTANT Modules    \* the modules of the product, a sequence of records
                    \* [name, index, properties]
CONSTANT Commands   \* the commands of topics that are passed through:
                    \* [topic, cmd, properties]

NoMembers == <<>>   \* a JSON value nothing was put in

-----------------------------------------------------------------------------
(* A property and its data type.                                            *)
Property(name, index, type) == [name |-> name, index |-> index, type |-> type]

NumberType(w)     == [kind |-> "number", length |-> w]
StringType(max)   == [kind |-> "string", length |-> max]
BytesType(max)    == [kind |-> "bytes", length |-> max]
BoolType          == [kind |-> "bool", length |-> 1]
EnumType          == [kind |-> "enum", length |-> 1]
StructType(props) == [kind |-> "struct", properties |-> props]
ArrayType(item)   == [kind |-> "array", item |-> item]

(* getProperty, getModule: by index or by name.  Of two with the same index *)
(* or name the maps keep the last.                                          *)
LastOf(items, Is(_)) ==
  items[CHOOSE i \in 1..Len(items) :
          Is(items[i]) /\ \A j \in i + 1..Len(items) : ~Is(items[j])]
HasIndex(items, index) == \E i \in 1..Len(items) : items[i].index = index
OfIndex(items, index) == LastOf(items, LAMBDA item : item.index = index)
HasName(items, name) == \E i \in 1..Len(items) : items[i].name = name
OfName(items, name) == LastOf(items, LAMBDA item : item.name = name)

Cut(text, max) == IF Len(text) > max THEN SubSeq(text, 1, max) ELSE text

-----------------------------------------------------------------------------
RECURSIVE ValueJ2B(_, _, _), dataJ2B(_, _)

(* dataType::j2b.  min and max are never looked at (validate has no caller).*)
NumberJ2B(type, index, value) == Tlv(index, NumberToBytes(value, type.length))

StringJ2B(type, index, value) == Tlv(index, Cut(value, type.length))

BytesJ2B(type, index, value) ==
  Tlv(index, hexStringToBytes(Cut(value, 2 * type.length)))

BoolJ2B(index, value) == Tlv(index, <<IF value THEN 1 ELSE 0>>)

EnumJ2B(index, value) == Tlv(index, NumberToBytes(value, 1))

(* A TLV per item, all with the index of the array; none for no item.       *)
ArrayJ2B(type, index, value) ==
  FlattenSeq([i \in 1..Len(value) |-> ValueJ2B(type.item, index, value[i])])

StructJ2B(type, index, value) ==
  Tlv(index, dataJ2B(type.properties, value))

ValueJ2B(type, index, value) ==
  CASE type.kind = "number" -> NumberJ2B(type, index, value)
    [] type.kind = "string" -> StringJ2B(type, index, value)
    [] type.kind = "bytes"  -> BytesJ2B(type, index, value)
    [] type.kind = "bool"   -> BoolJ2B(index, value)
    [] type.kind = "enum"   -> EnumJ2B(index, value)
    [] type.kind = "array"  -> ArrayJ2B(type, index, value)
    [] type.kind = "struct" -> StructJ2B(type, index, value)

(* module::dataJ2B, commandModel::dataJ2B: unknown members are skipped.  The*)
(* order of the members is that of the properties.                          *)
dataJ2B(properties, json) ==
  LET given == SelectSeq(properties, LAMBDA p : p.name \in DOMAIN json)
  IN  FlattenSeq([i \in 1..Len(given) |->
        ValueJ2B(given[i].type, given[i].index, json[given[i].name])])

-----------------------------------------------------------------------------
RECURSIVE PutB2J(_, _, _, _, _, _), dataB2J(_, _, _, _)

With(json, key, value) == (key :> value) @@ json

(* dataType::b2j: json with the value of w bytes at offset o under key.  A  *)
(* number, a bool or an enum of another length is an error, which the loop  *)
(* of dataB2J pays no attention to.                                         *)
NumberB2J(type, key, mem, o, w, json) ==
  IF w # type.length THEN json ELSE With(json, key, BytesToNumber(mem, o, w))

(* Zeros at the right are cut.                                              *)
StringB2J(key, mem, o, w, json) ==
  LET kept == {i \in 1..w : mem[o + i] # 0}
  IN  With(json, key,
        IF kept = {} THEN <<>>
        ELSE Text(mem, o, CHOOSE i \in kept : \A j \in kept : j <= i))

BytesB2J(key, mem, o, w, json) == With(json, key, BytesToHex(mem, o, w))

BoolB2J(key, mem, o, w, json) ==
  IF w # 1 THEN json ELSE With(json, key, mem[o + 1] = 1)

EnumB2J(key, mem, o, w, json) ==
  IF w # 1 THEN json ELSE With(json, key, mem[o + 1])

(* Every TLV of an array appends an item.                                   *)
ArrayB2J(type, key, mem, o, w, json) ==
  LET item == PutB2J(type.item, "item", mem, o, w, NoMembers)
      old  == IF key \in DOMAIN json THEN json[key] ELSE <<>>
  IN  IF item = NoMembers THEN json
      ELSE With(json, key, Append(old, item["item"]))

StructB2J(type, key, mem, o, w, json) ==
  With(json, key, dataB2J(type.properties, mem, o, w))

PutB2J(type, key, mem, o, w, json) ==
  CASE type.kind = "number" -> NumberB2J(type, key, mem, o, w, json)
    [] type.kind = "string" -> StringB2J(key, mem, o, w, json)
    [] type.kind = "bytes"  -> BytesB2J(key, mem, o, w, json)
    [] type.kind = "bool"   -> BoolB2J(key, mem, o, w, json)
    [] type.kind = "enum"   -> EnumB2J(key, mem, o, w, json)
    [] type.kind = "array"  -> ArrayB2J(type, key, mem, o, w, json)
    [] type.kind = "struct" -> StructB2J(type, key, mem, o, w, json)

(* module::dataB2J, commandModel::dataB2J, dataTypeStruct::b2j: the TLVs in *)
(* the size bytes at offset o.  One that reaches beyond the end stops the   *)
(* loop without an error, an unknown one is passed over.                    *)
dataB2J(properties, mem, o, size) ==
  LET RECURSIVE from(_, _)
      from(offset, json) ==
        IF offset >= size THEN json
        ELSE LET type == mem[o + offset + 1]
                 field == getTlvLength(mem, o + offset + 1)
                 at == offset + 1 + field.bytes
                 next == at + field.length
             IN  IF next > size THEN json
                 ELSE IF ~HasIndex(properties, type) THEN from(next, json)
                 ELSE LET p == OfIndex(properties, type)
                      IN  from(next, PutB2J(p.type, p.name, mem, o + at,
                                            field.length, json))
  IN  from(0, NoMembers)

(* A command's data, as a module's.                                         *)
commandJ2B(command, json) == dataJ2B(command.properties, json)
commandB2J(command, mem, length) == dataB2J(command.properties, mem, 0, length)
=============================================================================
