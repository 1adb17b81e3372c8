----------------------------- MODULE XmlFields -----------------------------
(***************************************************************************)
(* How a member of a message or of a struct becomes an element of the XML  *)
(* document and how the peer reads it back (type_define_ext.cpp).  A type  *)
(* is described by three tables: the class of each member, what its writer *)
(* does (parse_detail(), new_xml_element()) and what its reader does       *)
(* (load_detail(), from_xml_element()).  Values are abstracted to what the *)
(* two sides tell apart:                                                   *)
(*   "none"   the member is as its constructor left it                     *)
(*   "set"    it has another value ("error": ResultType::Error, "many": a  *)
(*            list of two, "blank": a list with an empty string, "null": a *)
(*            configuration type without an object)                        *)
(*   "cleared" a string or an std::optional that the constructor fills has *)
(*            been emptied                                                 *)
(* and the contents of an element to "set", "many", "error", "zero" (the   *)
(* text of a default), "blank" (no text) and "empty" (no children).        *)
(***************************************************************************)
EXTENDS Naturals, FiniteSets

\* The members of f and those of g; f decides about a member of both.
f ++ g == [x \in DOMAIN f \cup DOMAIN g |-> IF x \in DOMAIN f THEN f[x] ELSE g[x]]

\* Every member of S has class c.
Of(c, S) == [f \in S |-> c]

\* The values a member of a class can have before it is written.
ValuesOf(c) ==
    {"none", "set"} \cup
    (CASE c = "list"   -> {"many", "blank"}
       [] c = "result" -> {"error"}
       [] c = "config" -> {"null"}
       [] c = "filled" -> {"cleared"}
       [] OTHER        -> {})

\* Members a writer writes always and members it writes unless they are empty,
\* and when another one (under) is set as well; those it demands (one of each set
\* in needs) before it writes anything.
Writes(always, ifset) ==
    [always |-> always, ifset |-> ifset, under |-> <<>>, needs |-> {}, tag |-> <<>>]

\* Members a reader looks for; those without which it refuses the document
\* (one of each set in needs); those it dereferences unchecked; lists of
\* which it reads the first element only.
Reads(fields) ==
    [fields |-> fields, needs |-> {}, tag |-> <<>>, derefs |-> {}, first |-> {}]

Format(fields, write, read) == [fields |-> fields, write |-> write, read |-> read]

\* The name of the element of a member where it is not the member's own.
TagOf(side, f) == IF f \in DOMAIN side.tag THEN side.tag[f] ELSE f

\* A value for every member.
Typed(fmt, value) ==
    /\ DOMAIN value = DOMAIN fmt.fields
    /\ \A f \in DOMAIN fmt.fields : value[f] \in ValuesOf(fmt.fields[f])

----------------------------------------------------------------------------
(* Writing *)

\* The text new_xml_element() gives a std::string: an empty one is an element
\* with no text in it.
TextElement(v) == IF v = "none" THEN "blank" ELSE v

\* A number always has a text.
NumberElement(v) == IF v = "none" THEN "zero" ELSE v

\* A string or an std::optional that its constructor fills.
FilledElement(v) == CASE v = "none"    -> "zero"
                      [] v = "cleared" -> "blank"
                      [] OTHER         -> v

\* An enumerator that is invalid makes no element.
EnumElement(v) == IF v = "none" THEN "absent" ELSE v

\* Neither does an std::optional without a value.
OptionalElement(v) == IF v = "none" THEN "absent" ELSE v

\* A configuration that is a null pointer is an element without children.
ConfigElement(v) == CASE v = "none" -> "absent"
                      [] v = "null" -> "empty"
                      [] OTHER      -> v

\* The element of a list or of a struct is there even when it has no children.
NestElement(v) == IF v = "none" THEN "empty" ELSE v

Element(c, v) ==
    CASE c \in {"text", "raw"}           -> TextElement(v)
      [] c = "stamp"                     -> "set"
      [] c = "number"                    -> NumberElement(v)
      [] c = "filled"                    -> FilledElement(v)
      [] c \in {"enum", "result"}        -> EnumElement(v)
      [] c = "optional"                  -> OptionalElement(v)
      [] c = "config"                    -> ConfigElement(v)
      [] c \in {"list", "items", "part"} -> NestElement(v)

\* What a member holds when there is nothing in it to write.
EmptyOf(c) == IF c = "filled" THEN "cleared" ELSE "none"

Given(value, f) == IF f = "error" THEN value["Result"] = "error"
                                  ELSE value[f] # "none"

\* parse_detail() refuses the message.
Sendable(fmt, value) ==
    \A S \in fmt.write.needs : \E f \in S : Given(value, f)

Written(fmt, value) ==
    {f \in fmt.write.always : Element(fmt.fields[f], value[f]) # "absent"}
    \cup {f \in fmt.write.ifset :
             /\ value[f] # EmptyOf(fmt.fields[f])
             /\ f \in DOMAIN fmt.write.under => value[fmt.write.under[f]] # "none"}

\* The document: the content of each element that is in it.
ToXml(fmt, value) ==
    [t \in {TagOf(fmt.write, f) : f \in Written(fmt, value)} |->
        LET f == CHOOSE f \in Written(fmt, value) : TagOf(fmt.write, f) = t
        IN  Element(fmt.fields[f], value[f])]

----------------------------------------------------------------------------
(* Reading *)

\* from_xml_element() for a std::string, a number and an enumerator: what the
\* member holds afterwards, and whether the call returned true.
ReadText(x)   == IF x \in {"blank", "empty"} THEN "none" ELSE x
ReadNumber(x) == IF x \in {"zero", "blank"} THEN "none" ELSE x
ReadEnum(x)   == ReadText(x)

\* from_xml_element() for an std::optional reads only into a value that is
\* there already, and every optional member starts without one.
ReadOptional(x) == "none"

\* A configuration whose element is there has an object, if an empty one.
ReadConfig(x) == "set"

ReadNest(x, first) == CASE x = "empty"         -> "none"
                        [] x = "many" /\ first -> "set"
                        [] OTHER               -> x

Has(fmt, xml, f) == f \in fmt.read.fields /\ TagOf(fmt.read, f) \in DOMAIN xml

ReadMember(fmt, xml, f) ==
    IF ~Has(fmt, xml, f) THEN "none"
    ELSE LET x == xml[TagOf(fmt.read, f)]
             c == fmt.fields[f]
         IN  CASE c \in {"text", "raw", "stamp"}     -> ReadText(x)
               [] c \in {"number", "filled"}         -> ReadNumber(x)
               [] c \in {"enum", "result"}           -> ReadEnum(x)
               [] c = "optional"                     -> ReadOptional(x)
               [] c = "config"                       -> ReadConfig(x)
               [] c \in {"list", "items", "part"}    -> ReadNest(x, f \in fmt.read.first)

FromXml(fmt, xml) == [f \in DOMAIN fmt.fields |-> ReadMember(fmt, xml, f)]

\* What a reader that insists on a member accepts: a number and a list need
\* only be there, other members must have been read.
Accepted(fmt, xml, f) ==
    /\ Has(fmt, xml, f)
    /\ \/ fmt.fields[f] \in {"number", "list", "items", "config"}
       \/ ReadMember(fmt, xml, f) # "none"

\* load_detail() refuses the document.
Loadable(fmt, xml) ==
    \A S \in fmt.read.needs : \E f \in S : Accepted(fmt, xml, f)

\* A null pointer is made a std::string.
Null(fmt, xml, c) ==
    \E f \in fmt.read.fields : /\ fmt.fields[f] = c
                              /\ Has(fmt, xml, f)
                              /\ xml[TagOf(fmt.read, f)] = "blank"

\* load_from_xml(): the members every message has come first, then those
\* load_detail() insists on, then the lists.
Load(fmt, xml) ==
    IF Null(fmt, xml, "raw") \/ \E f \in fmt.read.derefs : ~Has(fmt, xml, f)
    THEN "broken"
    ELSE IF ~Loadable(fmt, xml)       THEN "refused"
    ELSE IF Null(fmt, xml, "list")    THEN "broken"
                                      ELSE "loaded"

----------------------------------------------------------------------------
\* Values worth sending: all members set, none set, only those the two sides
\* insist on set, and each of these with one member changed.
Needed(fmt) == UNION (fmt.write.needs \cup fmt.read.needs)
Bases(fmt) == {[f \in DOMAIN fmt.fields |-> IF f \in S THEN "set" ELSE "none"] :
                 S \in {{}, Needed(fmt), DOMAIN fmt.fields}}
Changed(fmt, base, f) == {[base EXCEPT ![f] = x] : x \in ValuesOf(fmt.fields[f])}
Samples(fmt) ==
    Bases(fmt) \cup
    UNION {UNION {Changed(fmt, base, f) : f \in DOMAIN fmt.fields} : base \in Bases(fmt)}
=============================================================================
