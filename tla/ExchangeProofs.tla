--------------------------- MODULE ExchangeProofs ---------------------------
(***************************************************************************)
(* Proofs about Exchange, for every set of values the applications may     *)
(* fill in (Filled).  What a writer and a reader make of a value depends   *)
(* only on their tables.  So the first part proves, for any format, what   *)
(* follows when its tables agree (Sound): a member is read as it was       *)
(* written (RoundTrip), a reader breaks on blanks only (BrokenBy) and      *)
(* accepts what is set (AcceptedWhenSet).  The second part shows that the  *)
(* tables of every struct, message and answer are Sound, the members in    *)
(* Lost and LostInAnswer apart.  The third proves the invariant: FlowOK,   *)
(* how far a message has come says who has answered it and what the sender *)
(* knows, with MessageOK, ReplyOK and AnswerOK, what has been read is what *)
(* the reader makes of what was written.  The theorems are the six         *)
(* properties of the run.                                                  *)
(***************************************************************************)
EXTENDS Exchange, TLAPS

----------------------------------------------------------------------------
\* Formats

(* The classes of members, and the members a writer may write.             *)
Classes ==
    {"text", "raw", "stamp", "number", "filled", "enum", "result", "optional", "config",
     "list", "items", "part"}

Members(fmt) == fmt.write.always \cup fmt.write.ifset

(* No element is read as a member other than the one it was written for.   *)
Straight(fmt) ==
    /\ fmt.read.fields \subseteq DOMAIN fmt.fields
    /\ \A f \in DOMAIN fmt.fields : fmt.fields[f] \in Classes
    /\ \A f \in fmt.read.fields, g \in Members(fmt) :
          TagOf(fmt.write, g) = TagOf(fmt.read, f) => g = f

(* Both sides know the member f, under one name.                           *)
Carries(fmt, f) ==
    /\ f \in Members(fmt) /\ f \in fmt.read.fields
    /\ TagOf(fmt.write, f) = TagOf(fmt.read, f)
    /\ f \notin fmt.read.first
    /\ fmt.fields[f] \in {"stamp", "config"} => f \in fmt.write.always
    /\ IF f = "EventType"
       THEN /\ f \notin fmt.write.always /\ f \in DOMAIN fmt.write.under
            /\ fmt.write.under[f] = "AlarmType"
       ELSE f \notin DOMAIN fmt.write.under

(* The document of a value has the element of f if and only if f was       *)
(* written, and the element is its own.                                    *)
LEMMA Arrives ==
    ASSUME NEW fmt, NEW v, Straight(fmt), NEW f \in fmt.read.fields
    PROVE  /\ Has(fmt, ToXml(fmt, v), f) =>
                 /\ f \in Written(fmt, v) /\ TagOf(fmt.write, f) = TagOf(fmt.read, f)
                 /\ ToXml(fmt, v)[TagOf(fmt.read, f)] = Element(fmt.fields[f], v[f])
           /\ f \in Written(fmt, v) /\ TagOf(fmt.write, f) = TagOf(fmt.read, f) =>
                 Has(fmt, ToXml(fmt, v), f)
<1> DEFINE W == Written(fmt, v)
           t == TagOf(fmt.read, f)
           doc == ToXml(fmt, v)
<1>1. W \subseteq Members(fmt)
  BY DEF Written, Members
<1>2. DOMAIN doc = {TagOf(fmt.write, g) : g \in W}
  BY DEF ToXml
<1>3. \A g \in W : TagOf(fmt.write, g) = t => g = f
  BY <1>1 DEF Straight
<1>4. Has(fmt, doc, f) <=> t \in DOMAIN doc
  BY DEF Has
<1>5. ASSUME t \in DOMAIN doc
      PROVE  /\ f \in W /\ TagOf(fmt.write, f) = t
             /\ doc[t] = Element(fmt.fields[f], v[f])
  <2>1. f \in W /\ TagOf(fmt.write, f) = t
    BY <1>2, <1>3, <1>5
  <2>2. (CHOOSE g \in W : TagOf(fmt.write, g) = t) = f
    BY <1>3, <2>1
  <2>3. doc[t] = LET g == CHOOSE g \in W : TagOf(fmt.write, g) = t
                 IN  Element(fmt.fields[g], v[g])
    BY <1>2, <1>5 DEF ToXml
  <2> QED BY <2>1, <2>2, <2>3
<1>6. f \in W /\ TagOf(fmt.write, f) = t => t \in DOMAIN doc
  BY <1>2
<1> QED BY <1>4, <1>5, <1>6

(* What is written of a value, and what is read of what is written.        *)
ReadBackAs(c, x) ==
    CASE c \in {"text", "raw", "stamp"}  -> ReadText(x)
      [] c \in {"number", "filled"}      -> ReadNumber(x)
      [] c \in {"enum", "result"}        -> ReadEnum(x)
      [] c = "config"                    -> ReadConfig(x)
      [] c \in {"list", "items", "part"} -> ReadNest(x, FALSE)

(* What the values of each class can be.                                   *)
LEMMA ValueFacts ==
    ASSUME NEW c \in Classes, NEW x \in ValuesOf(c)
    PROVE  /\ x \in {"none", "set", "many", "blank", "error", "null", "cleared"}
           /\ x = "cleared" => c = "filled"
           /\ x = "null" => c = "config"
           /\ x \in {"many", "blank"} => c = "list"
           /\ x = "error" => c = "result"
BY DEF Classes, ValuesOf

(* A member that is written has an element.                                *)
LEMMA ElementThere ==
    ASSUME NEW c \in Classes, NEW x \in ValuesOf(c), x # "none" \/ c = "stamp"
    PROVE  Element(c, x) # "absent"
BY ValueFacts
   DEF Classes, Element, TextElement, NumberElement, FilledElement, EnumElement, OptionalElement,
       ConfigElement, NestElement

(* The element of a member, read back as its class is read.                *)
LEMMA TextBack ==
    ASSUME NEW c \in {"text", "raw"}, NEW x \in ValuesOf(c)
    PROVE  ReadBackAs(c, Element(c, x)) = x /\ (Element(c, x) = "blank" => x = "none")
BY DEF ValuesOf, Element, TextElement, ReadBackAs, ReadText

LEMMA NumberBack ==
    ASSUME NEW x \in ValuesOf("number")
    PROVE  ReadBackAs("number", Element("number", x)) = x
BY DEF ValuesOf, Element, NumberElement, ReadBackAs, ReadNumber

LEMMA FilledBack ==
    ASSUME NEW x \in ValuesOf("filled")
    PROVE  ReadBackAs("filled", Element("filled", x)) = IF x = "cleared" THEN "none" ELSE x
BY DEF ValuesOf, Element, FilledElement, ReadBackAs, ReadNumber

LEMMA EnumBack ==
    ASSUME NEW c \in {"enum", "result"}, NEW x \in ValuesOf(c)
    PROVE  ReadBackAs(c, Element(c, x)) = IF x = "none" THEN "absent" ELSE x
BY DEF ValuesOf, Element, EnumElement, ReadBackAs, ReadEnum, ReadText

LEMMA NestBack ==
    ASSUME NEW c \in {"list", "items", "part"}, NEW x \in ValuesOf(c)
    PROVE  ReadBackAs(c, Element(c, x)) = x /\ (Element(c, x) = "blank" => x = "blank")
BY DEF ValuesOf, Element, NestElement, ReadBackAs, ReadNest

LEMMA StampBack == \A x : Element("stamp", x) = "set" /\ ReadBackAs("stamp", "set") = "set"
BY DEF Element, ReadBackAs, ReadText

LEMMA ConfigBack == \A y : ReadBackAs("config", y) = "set"
BY DEF ReadBackAs, ReadConfig

(* The member f of a document, when both sides know it.                    *)
LEMMA MemberRead ==
    ASSUME NEW fmt, NEW v, Straight(fmt), NEW f \in fmt.read.fields,
           fmt.fields[f] # "optional", Carries(fmt, f)
    PROVE  ReadMember(fmt, ToXml(fmt, v), f) =
             IF f \in Written(fmt, v) THEN ReadBackAs(fmt.fields[f], Element(fmt.fields[f], v[f]))
             ELSE "none"
<1> DEFINE doc == ToXml(fmt, v)
           c == fmt.fields[f]
           x == doc[TagOf(fmt.read, f)]
<1>1. TagOf(fmt.write, f) = TagOf(fmt.read, f) /\ f \notin fmt.read.first
  BY DEF Carries
<1>2. c \in Classes \ {"optional"}
  BY DEF Straight
<1>3. CASE f \notin Written(fmt, v)
  <2>1. ~Has(fmt, doc, f)
    BY <1>3, Arrives
  <2> QED BY <1>3, <2>1 DEF ReadMember
<1>4. CASE f \in Written(fmt, v)
  <2>1. Has(fmt, doc, f) /\ x = Element(c, v[f])
    BY <1>1, <1>4, Arrives
  <2> HIDE DEF x, c, doc
  <2>2. ReadMember(fmt, doc, f) = ReadBackAs(c, x)
    BY <1>1, <1>2, <2>1 DEF ReadMember, ReadBackAs, ReadNest, Classes, c, x
  <2> QED BY <1>4, <2>1, <2>2 DEF c, doc
<1> QED BY <1>3, <1>4

(* A member that both sides know is written when it has a value, but for the*)
(* event of an alarm that has no type.                                     *)
LEMMA WrittenWhen ==
    ASSUME NEW fmt, NEW v, Straight(fmt), Typed(fmt, v), NEW f \in fmt.read.fields,
           Carries(fmt, f), v[f] # "none" \/ fmt.fields[f] = "stamp",
           v[f] # "cleared", f = "EventType" => v["AlarmType"] # "none"
    PROVE  f \in Written(fmt, v)
<1>1. fmt.fields[f] \in Classes /\ v[f] \in ValuesOf(fmt.fields[f])
  BY DEF Straight, Typed
<1>2. Element(fmt.fields[f], v[f]) # "absent"
  BY <1>1, ElementThere
<1>3. CASE f \in fmt.write.always
  BY <1>2, <1>3 DEF Written
<1>4. CASE f \notin fmt.write.always
  <2>1. f \in fmt.write.ifset /\ v[f] # "none"
    BY <1>4 DEF Carries, Members
  <2>2. f \in DOMAIN fmt.write.under => v[fmt.write.under[f]] # "none"
    BY DEF Carries
  <2> QED BY <2>1, <2>2 DEF Written, EmptyOf
<1> QED BY <1>3, <1>4

(* Every other member that is written without a value reads as none.       *)
LEMMA UnwrittenMeans ==
    ASSUME NEW fmt, NEW v, Straight(fmt), Typed(fmt, v), NEW f \in fmt.read.fields,
           Carries(fmt, f), f \notin Written(fmt, v)
    PROVE  Meant(fmt, v, f) = "none"
<1>1. fmt.fields[f] # "stamp"
  <2>1. ASSUME fmt.fields[f] = "stamp" PROVE FALSE
    <3>1. f \in fmt.write.always
      BY <2>1 DEF Carries
    <3>2. Element(fmt.fields[f], v[f]) # "absent"
      BY <2>1, StampBack
    <3> QED BY <3>1, <3>2 DEF Written
  <2> QED BY <2>1
<1>2. v[f] \in {"none", "cleared"} \/ (f = "EventType" /\ v["AlarmType"] = "none")
  BY WrittenWhen
<1>3. v[f] # "null"
  <2>1. ASSUME v[f] = "null" PROVE FALSE
    <3>1. fmt.fields[f] = "config"
      BY <2>1, ValueFacts DEF Straight, Typed
    <3>2. f \in fmt.write.always /\ Element(fmt.fields[f], v[f]) # "absent"
      BY <2>1, <3>1 DEF Carries, Element, ConfigElement
    <3> QED BY <3>2 DEF Written
  <2> QED BY <2>1
<1> QED BY <1>1, <1>2, <1>3 DEF Meant

(* What the peer reads of a member that both sides know is what was meant. *)
LEMMA RoundTrip ==
    ASSUME NEW fmt, NEW v, Straight(fmt), Typed(fmt, v), NEW f \in fmt.read.fields,
           fmt.fields[f] # "optional", Carries(fmt, f), Load(fmt, ToXml(fmt, v)) = "loaded"
    PROVE  ReadMember(fmt, ToXml(fmt, v), f) = Meant(fmt, v, f)
<1> DEFINE c == fmt.fields[f]
           x == v[f]
<1>1. c \in Classes \ {"optional"} /\ x \in ValuesOf(c)
  BY DEF Straight, Typed
<1>2. CASE f \notin Written(fmt, v)
  BY <1>2, MemberRead, UnwrittenMeans
<1>3. CASE f \in Written(fmt, v)
  <2>1. ReadMember(fmt, ToXml(fmt, v), f) = ReadBackAs(c, Element(c, x))
    BY <1>3, MemberRead
  <2>2. f = "EventType" => v["AlarmType"] # "none"
    BY <1>3 DEF Written, Carries
  <2>3. Meant(fmt, v, f) = IF c = "stamp" \/ x = "null" THEN "set"
                           ELSE IF x = "cleared" THEN "none" ELSE x
    BY <1>1, <2>2, ValueFacts DEF Meant
  <2>4. x = "none" => Element(c, x) # "absent"
    <3>1. CASE c = "filled"
      <4>1. x = "none" => Element(c, x) = "zero"
        BY <3>1 DEF Element, FilledElement
      <4> QED BY <4>1
    <3>2. CASE c # "filled"
      <4>1. x = "none" => f \in fmt.write.always
        BY <1>3, <3>2 DEF Written, EmptyOf
      <4>2. x = "none" => f \in {g \in fmt.write.always : Element(fmt.fields[g], v[g]) # "absent"}
        BY <1>3, <3>2, <4>1 DEF Written, EmptyOf
      <4> QED BY <4>2
    <3> QED BY <3>1, <3>2
  <2> HIDE DEF c, x
  <2>5. ReadBackAs(c, Element(c, x)) = IF c = "stamp" \/ x = "null" THEN "set"
                                       ELSE IF x = "cleared" THEN "none" ELSE x
    <3>1. CASE c \in {"text", "raw"}
      BY <1>1, <3>1, TextBack, ValueFacts
    <3>2. CASE c = "number"
      BY <1>1, <3>2, NumberBack, ValueFacts
    <3>3. CASE c \in {"enum", "result"}
      <4>1. x # "none"
        BY <2>4, <3>3 DEF Element, EnumElement
      <4> QED BY <1>1, <3>3, <4>1, EnumBack, ValueFacts
    <3>4. CASE c = "config"
      <4>1. x \in {"set", "null"}
        BY <1>1, <2>4, <3>4 DEF ValuesOf, Element, ConfigElement
      <4> QED BY <3>4, <4>1, ConfigBack
    <3>5. CASE c \in {"list", "items", "part"}
      BY <1>1, <3>5, NestBack, ValueFacts
    <3>6. CASE c = "stamp"
      BY <3>6, StampBack
    <3>7. CASE c = "filled"
      BY <1>1, <3>7, FilledBack, ValueFacts
    <3> QED BY <1>1, <3>1, <3>2, <3>3, <3>4, <3>5, <3>6, <3>7 DEF Classes
  <2> QED BY <2>1, <2>3, <2>5
<1> QED BY <1>2, <1>3

(* A null pointer comes from a member with no text that is written         *)
(* nevertheless, or read unchecked; or from a list with an empty string.   *)
LEMMA BrokenBy ==
    ASSUME NEW fmt, NEW v, Straight(fmt), Typed(fmt, v),
           \A f \in fmt.read.derefs : /\ f \in fmt.read.fields /\ Carries(fmt, f)
                                      /\ f # "EventType" /\ fmt.fields[f] # "filled",
           Load(fmt, ToXml(fmt, v)) = "broken"
    PROVE  \/ Blank(v)
           \/ \E f \in fmt.read.derefs : v[f] = "none"
           \/ \E f \in fmt.write.always : /\ f \in DOMAIN fmt.fields /\ fmt.fields[f] = "raw"
                                         /\ v[f] = "none"
<1> DEFINE doc == ToXml(fmt, v)
<1>1. CASE Null(fmt, doc, "list")
  <2>1. PICK f \in fmt.read.fields : /\ fmt.fields[f] = "list" /\ Has(fmt, doc, f)
                                     /\ doc[TagOf(fmt.read, f)] = "blank"
    BY <1>1 DEF Null
  <2>2. Element("list", v[f]) = "blank" /\ v[f] \in ValuesOf("list") /\ f \in DOMAIN v
    BY <2>1, Arrives DEF Straight, Typed
  <2>3. v[f] = "blank"
    BY <2>2, NestBack
  <2> QED BY <2>2, <2>3 DEF Blank
<1>2. CASE Null(fmt, doc, "raw")
  <2>1. PICK f \in fmt.read.fields : /\ fmt.fields[f] = "raw" /\ Has(fmt, doc, f)
                                     /\ doc[TagOf(fmt.read, f)] = "blank"
    BY <1>2 DEF Null
  <2>2. /\ Element("raw", v[f]) = "blank" /\ v[f] \in ValuesOf("raw")
        /\ f \in Written(fmt, v) /\ f \in DOMAIN fmt.fields
    BY <2>1, Arrives DEF Straight, Typed
  <2>3. v[f] = "none"
    BY <2>2, TextBack
  <2>4. f \in fmt.write.always
    BY <2>1, <2>2, <2>3 DEF Written, EmptyOf
  <2> QED BY <2>1, <2>2, <2>3, <2>4
<1>3. CASE \E f \in fmt.read.derefs : ~Has(fmt, doc, f)
  <2>1. PICK f \in fmt.read.derefs : ~Has(fmt, doc, f)
    BY <1>3
  <2>2. f \notin Written(fmt, v)
    BY <2>1, Arrives DEF Carries
  <2>3. v[f] # "cleared"
    BY ValueFacts DEF Straight, Typed
  <2> QED BY <2>2, <2>3, WrittenWhen
<1> QED BY <1>1, <1>2, <1>3 DEF Load

(* A member that has a value is accepted by a reader that insists on it.   *)
LEMMA AcceptedWhenSet ==
    ASSUME NEW fmt, NEW v, Straight(fmt), Typed(fmt, v), NEW f \in fmt.read.fields,
           fmt.fields[f] # "optional", Carries(fmt, f), f # "EventType",
           \/ v[f] \notin {"none", "null", "blank", "cleared"}
           \/ fmt.fields[f] = "stamp"
           \/ fmt.fields[f] \in {"number", "list", "items"} /\ f \in fmt.write.always
    PROVE  Accepted(fmt, ToXml(fmt, v), f)
<1> DEFINE c == fmt.fields[f]
           x == v[f]
<1>1. c \in Classes \ {"optional"} /\ x \in ValuesOf(c)
  BY DEF Straight, Typed
<1>2. f \in Written(fmt, v)
  <2>1. CASE c \in {"number", "list", "items"} /\ f \in fmt.write.always
    <3>1. Element(c, x) # "absent"
      BY <1>1, <2>1, ElementThere DEF Element, NumberElement, NestElement
    <3> QED BY <2>1, <3>1 DEF Written
  <2> QED BY <1>1, <2>1, WrittenWhen, ValueFacts
<1>3. Has(fmt, ToXml(fmt, v), f)
  BY <1>2, Arrives DEF Carries
<1>4. CASE c \in {"number", "list", "items", "config"}
  BY <1>3, <1>4 DEF Accepted
<1>5. CASE c \notin {"number", "list", "items", "config"}
  <2>1. ReadMember(fmt, ToXml(fmt, v), f) = ReadBackAs(c, Element(c, x))
    BY <1>2, MemberRead
  <2>2. c = "stamp" \/ x \notin {"none", "null", "blank", "cleared"}
    BY <1>5
  <2> HIDE DEF c, x
  <2>3. ReadBackAs(c, Element(c, x)) # "none"
    <3>1. CASE c \in {"text", "raw"}
      BY <1>1, <2>2, <3>1, TextBack
    <3>2. CASE c \in {"enum", "result"}
      BY <1>1, <2>2, <3>2, EnumBack
    <3>3. CASE c = "part"
      BY <1>1, <2>2, <3>3, NestBack
    <3>4. CASE c = "stamp"
      BY <3>4, StampBack
    <3>5. CASE c = "filled"
      BY <1>1, <2>2, <3>5, FilledBack
    <3> QED BY <1>1, <1>5, <3>1, <3>2, <3>3, <3>4, <3>5 DEF Classes
  <2> QED BY <1>3, <2>1, <2>3 DEF Accepted
<1> QED BY <1>4, <1>5

----------------------------------------------------------------------------
\* The tables

(* Both sides know every member but those in E, every member a reader      *)
(* insists on is one of them, and a null pointer comes from a list or from a*)
(* member in H.                                                            *)
Sound(fmt, E, H) ==
    /\ Straight(fmt)
    /\ \A f \in DOMAIN fmt.fields \ E : fmt.fields[f] # "optional" => Carries(fmt, f)
    /\ \A S \in fmt.read.needs : \E f \in S :
          f \in DOMAIN fmt.fields \ (E \cup {"EventType"}) /\ fmt.fields[f] # "optional"
    /\ \A f \in fmt.read.derefs :
          /\ f \in H /\ f \in DOMAIN fmt.fields \ (E \cup {"EventType"})
          /\ fmt.fields[f] \notin {"optional", "filled"}
    /\ \A f \in DOMAIN fmt.fields \cap fmt.write.always : fmt.fields[f] = "raw" => f \in H

IsWriter(w) ==
    w = [always |-> w.always, ifset |-> w.ifset, under |-> w.under, needs |-> w.needs,
         tag |-> w.tag]
IsReader(r) ==
    r = [fields |-> r.fields, needs |-> r.needs, tag |-> r.tag, derefs |-> r.derefs,
         first |-> r.first]

(* The classes most members have.                                          *)
Usual(F) ==
    /\ \A f \in DOMAIN F : F[f] \in Classes \ {"raw", "stamp", "config"}
    /\ "EventType" \notin DOMAIN F

(* Tables without a name of their own for an element.                      *)
Simple(F, W, R, E) ==
    /\ IsWriter(W) /\ W.tag = <<>> /\ W.under = <<>>
    /\ IsReader(R) /\ R.tag = <<>> /\ R.first = {}
    /\ R.fields \subseteq DOMAIN F
    /\ \A f \in DOMAIN F : F[f] \in Classes \ {"raw"}
    /\ "EventType" \notin DOMAIN F
    /\ \A f \in DOMAIN F \ E : /\ f \in R.fields /\ f \in W.always \cup W.ifset
                               /\ F[f] \in {"stamp", "config"} => f \in W.always
    /\ \A S \in R.needs : \E f \in S : f \in DOMAIN F \ E /\ F[f] # "optional"

(* The tables of a plain writer and of a plain reader.                     *)
LEMMA WritesTable ==
    ASSUME NEW a, NEW i
    PROVE  LET w == Writes(a, i) IN
           /\ IsWriter(w) /\ w.always = a /\ w.ifset = i /\ w.tag = <<>> /\ w.under = <<>>
           /\ w.needs = {}
BY DEF Writes, IsWriter

LEMMA ReadsTable ==
    ASSUME NEW r
    PROVE  LET t == Reads(r) IN
           /\ IsReader(t) /\ t.fields = r /\ t.tag = <<>> /\ t.needs = {} /\ t.first = {}
           /\ t.derefs = {}
BY DEF Reads, IsReader

(* The tables of one with tags, or with members it insists on.             *)
LEMMA TaggedWriter ==
    ASSUME NEW a, NEW i, NEW t
    PROVE  LET w == [Writes(a, i) EXCEPT !.tag = t] IN
           /\ w.always = a /\ w.ifset = i /\ w.under = <<>> /\ w.tag = t
BY DEF Writes

LEMMA NeedsWrite ==
    ASSUME NEW W, IsWriter(W), NEW n
    PROVE  LET w == [W EXCEPT !.needs = n] IN
           /\ IsWriter(w) /\ w.always = W.always /\ w.ifset = W.ifset /\ w.under = W.under
           /\ w.tag = W.tag /\ w.needs = n
BY DEF IsWriter

LEMMA NeedsRead ==
    ASSUME NEW R, IsReader(R), NEW n
    PROVE  LET r == [R EXCEPT !.needs = n] IN
           /\ IsReader(r) /\ r.fields = R.fields /\ r.needs = n /\ r.tag = R.tag
           /\ r.derefs = R.derefs /\ r.first = R.first
BY DEF IsReader

LEMMA FormatTable ==
    ASSUME NEW F, NEW W, NEW R
    PROVE  LET t == Format(F, W, R) IN t.fields = F /\ t.write = W /\ t.read = R
BY DEF Format

(* A type without tags is Sound when each side knows every member.         *)
LEMMA SimpleSound ==
    ASSUME NEW F, NEW W, NEW R, NEW E, Simple(F, W, R, E), R.derefs = {}
    PROVE  Sound(Format(F, W, R), E, {})
BY FormatTable DEF Simple, Sound, Straight, Carries, Members, TagOf

LEMMA WholeSimple ==
    ASSUME NEW F, Usual(F), NEW a, NEW i, DOMAIN F \subseteq a \cup i
    PROVE  Simple(F, Writes(a, i), Reads(DOMAIN F), {})
BY WritesTable, ReadsTable DEF Usual, Simple

(* What a side insists on does not change how it writes and reads.         *)
LEMMA WriteNeeds ==
    ASSUME NEW F, NEW W, NEW R, NEW E, Simple(F, W, R, E), NEW n
    PROVE  Simple(F, [W EXCEPT !.needs = n], R, E)
BY DEF Simple, IsWriter

LEMMA ReadNeeds ==
    ASSUME NEW F, NEW W, NEW R, NEW E, Simple(F, W, R, E), NEW n,
           \A S \in n : \E f \in S : f \in DOMAIN F \ E /\ F[f] # "optional"
    PROVE  Simple(F, W, [R EXCEPT !.needs = n], E)
BY DEF Simple, IsReader

(* A struct that its writer and its reader treat member by member.         *)
LEMMA WholeSound ==
    ASSUME NEW F, Usual(F), NEW a, NEW i, DOMAIN F \subseteq a \cup i
    PROVE  Sound(Format(F, Writes(a, i), Reads(DOMAIN F)), {}, {})
BY WholeSimple, SimpleSound, ReadsTable

(* A writer that writes more of its members always is as good.             *)
LEMMA MoreWritten ==
    ASSUME NEW W, IsWriter(W), NEW S
    PROVE  LET w == AlsoWrites(W, S) IN
           /\ IsWriter(w) /\ w.always = W.always /\ w.ifset = W.ifset \cup S
           /\ w.under = W.under /\ w.tag = W.tag /\ w.needs = W.needs
<1> DEFINE w == AlsoWrites(W, S)
           more == W.ifset \cup S
<1>1. w = [W EXCEPT !.ifset = more]
  BY DEF AlsoWrites
<1> HIDE DEF w, more
<1>2. w = [always |-> W.always, ifset |-> more, under |-> W.under, needs |-> W.needs,
           tag |-> W.tag]
  BY <1>1 DEF IsWriter
<1>3. /\ w.always = W.always /\ w.ifset = more /\ w.under = W.under
      /\ w.needs = W.needs /\ w.tag = W.tag
  BY <1>2
<1>4. IsWriter(w)
  BY <1>2, <1>3 DEF IsWriter
<1> QED BY <1>3, <1>4 DEF w, more

LEMMA MoreRead ==
    ASSUME NEW R, IsReader(R), NEW S
    PROVE  LET r == AlsoReads(R, S) IN
           /\ IsReader(r) /\ r.fields = R.fields \cup S /\ r.needs = R.needs
           /\ r.tag = R.tag /\ r.derefs = R.derefs /\ r.first = R.first
<1> DEFINE r == AlsoReads(R, S)
           more == R.fields \cup S
<1>1. r = [R EXCEPT !.fields = more]
  BY DEF AlsoReads
<1> HIDE DEF r, more
<1>2. r = [fields |-> more, needs |-> R.needs, tag |-> R.tag, derefs |-> R.derefs,
           first |-> R.first]
  BY <1>1 DEF IsReader
<1>3. /\ r.fields = more /\ r.needs = R.needs
      /\ r.tag = R.tag /\ r.derefs = R.derefs /\ r.first = R.first
  BY <1>2
<1>4. IsReader(r)
  BY <1>2, <1>3 DEF IsReader
<1> QED BY <1>3, <1>4 DEF r, more

BaseNames == {"DeviceID", "Reason"}

(* Message(...) adds the members every message has.                        *)
LEMMA MessageTables ==
    ASSUME NEW F, NEW W, NEW R, IsWriter(W), IsReader(R)
    PROVE  LET m == Message(F, W, R) IN
           /\ DOMAIN m.fields = DOMAIN F \cup BaseNames
           /\ \A f \in DOMAIN F : m.fields[f] = F[f]
           /\ \A f \in BaseNames : f \notin DOMAIN F => m.fields[f] = "raw"
           /\ m.write.always = W.always /\ m.write.ifset = W.ifset \cup BaseNames
           /\ m.write.under = W.under /\ m.write.tag = W.tag /\ m.write.needs = W.needs
           /\ m.read.fields = R.fields \cup BaseNames /\ m.read.needs = R.needs
           /\ m.read.derefs = R.derefs /\ m.read.first = R.first /\ m.read.tag = R.tag
<1> DEFINE G == F ++ BaseFields
           w == AlsoWrites(W, DOMAIN BaseFields)
           r == AlsoReads(R, DOMAIN BaseFields)
<1>1. DOMAIN BaseFields = BaseNames /\ \A f \in BaseNames : BaseFields[f] = "raw"
  BY DEF BaseFields, Of, BaseNames
<1>2. /\ DOMAIN G = DOMAIN F \cup BaseNames
      /\ \A f \in DOMAIN F : G[f] = F[f]
      /\ \A f \in BaseNames : f \notin DOMAIN F => G[f] = "raw"
  BY <1>1 DEF ++
<1>3. /\ w.always = W.always /\ w.ifset = W.ifset \cup BaseNames
      /\ w.under = W.under /\ w.tag = W.tag /\ w.needs = W.needs
  BY <1>1, MoreWritten
<1>4. /\ r.fields = R.fields \cup BaseNames /\ r.needs = R.needs
      /\ r.tag = R.tag /\ r.derefs = R.derefs /\ r.first = R.first
  BY <1>1, MoreRead
<1>5. Message(F, W, R) = Format(G, w, r)
  BY DEF Message
<1> HIDE DEF G, w, r
<1> DEFINE m == Format(G, w, r)
<1>6. m.fields = G /\ m.write = w /\ m.read = r
  BY FormatTable
<1> HIDE DEF m
<1> QED BY <1>2, <1>3, <1>4, <1>5, <1>6 DEF m

(* A sound message: its device, if it has one, is a text.                  *)
SoundMessage(fmt, E, H) ==
    Sound(fmt, E, H) /\ ("DeviceID" \in DOMAIN fmt.fields => fmt.fields["DeviceID"] = "raw")

LEMMA NoTags == ASSUME NEW side, NEW f, side.tag = <<>> PROVE TagOf(side, f) = f
BY DEF TagOf

(* What makes the format of a message Sound.                               *)
LEMMA MessageSound ==
    ASSUME NEW F, NEW W, NEW R, NEW E, NEW H, Simple(F, W, R, E),
           DOMAIN F \cap BaseNames = {}, E \cap BaseNames = {},
           W.always \cap BaseNames \subseteq H, R.derefs \subseteq H \cap BaseNames
    PROVE  SoundMessage(Message(F, W, R), E, H)
<1> DEFINE m == Message(F, W, R)
<1>1. /\ IsWriter(W) /\ W.under = <<>> /\ W.tag = <<>>
      /\ IsReader(R) /\ R.tag = <<>> /\ R.first = {}
  BY DEF Simple
<1>2. /\ DOMAIN m.fields = DOMAIN F \cup BaseNames
      /\ \A f \in DOMAIN F : m.fields[f] = F[f]
      /\ \A f \in BaseNames : m.fields[f] = "raw"
  BY <1>1, MessageTables
<1>3. /\ m.write.always = W.always /\ m.write.ifset = W.ifset \cup BaseNames
      /\ m.write.under = <<>> /\ m.write.tag = <<>>
      /\ m.read.fields = R.fields \cup BaseNames /\ m.read.needs = R.needs
      /\ m.read.derefs = R.derefs /\ m.read.first = {} /\ m.read.tag = <<>>
  BY <1>1, MessageTables
<1> HIDE DEF m
<1>4. \A f : TagOf(m.write, f) = f /\ TagOf(m.read, f) = f
  BY <1>3, NoTags
<1>5. Straight(m)
  BY <1>2, <1>3, <1>4 DEF Straight, Members, Simple, Classes
<1>6. ASSUME NEW f \in DOMAIN m.fields \ E PROVE Carries(m, f)
  BY <1>2, <1>3, <1>4 DEF Carries, Members, Simple, BaseNames
<1>7. \A S \in m.read.needs : \E f \in S :
         f \in DOMAIN m.fields \ (E \cup {"EventType"}) /\ m.fields[f] # "optional"
  BY <1>2, <1>3 DEF Simple
<1>8. \A f \in m.read.derefs : /\ f \in H /\ f \in DOMAIN m.fields \ (E \cup {"EventType"})
                              /\ m.fields[f] \notin {"optional", "filled"}
  BY <1>2, <1>3 DEF BaseNames
<1>9. \A f \in DOMAIN m.fields \cap m.write.always : m.fields[f] = "raw" => f \in H
  BY <1>2, <1>3 DEF Simple
<1>10. "DeviceID" \in DOMAIN m.fields => m.fields["DeviceID"] = "raw"
  BY <1>2 DEF BaseNames
<1> QED BY <1>5, <1>6, <1>7, <1>8, <1>9, <1>10 DEF Sound, SoundMessage, m

(* Every control can have ExtraInfo.                                       *)
LEMMA ControlSound ==
    ASSUME NEW F, NEW W, NEW R, NEW E, Simple(F, W, R, E), R.derefs = {},
           DOMAIN F \cap {"DeviceID", "Reason", "ExtraInfo"} = {},
           E \cap {"DeviceID", "Reason", "ExtraInfo"} = {},
           W.always \cap {"DeviceID", "Reason", "ExtraInfo"} = {}
    PROVE  SoundMessage(Control(F, W, R), E, {})
<1> DEFINE X == {"ExtraInfo"}
           G == F ++ ExtraInfo
           w == AlsoWrites(W, X)
           r == AlsoReads(R, X)
<1>0. /\ IsWriter(W) /\ W.under = <<>> /\ W.tag = <<>>
      /\ IsReader(R) /\ R.tag = <<>> /\ R.first = {}
  BY DEF Simple
<1>1. /\ DOMAIN G = DOMAIN F \cup {"ExtraInfo"} /\ G["ExtraInfo"] = "items"
      /\ \A f \in DOMAIN F : G[f] = F[f]
  BY DEF ExtraInfo, Of, ++
<1> HIDE DEF X
<1>2. /\ IsWriter(w) /\ w.always = W.always /\ w.ifset = W.ifset \cup X
      /\ w.under = <<>> /\ w.tag = <<>>
  BY <1>0, MoreWritten
<1>3. /\ IsReader(r) /\ r.fields = R.fields \cup X /\ r.needs = R.needs
      /\ r.tag = <<>> /\ r.derefs = {} /\ r.first = {}
  BY <1>0, MoreRead
<1>4. Control(F, W, R) = Message(G, w, r)
  BY DEF Control, X
<1> HIDE DEF G, w, r
<1>5. Simple(G, w, r, E)
  BY <1>1, <1>2, <1>3 DEF Simple, Classes, X
<1> QED BY <1>1, <1>2, <1>3, <1>4, <1>5, MessageSound DEF BaseNames

----------------------------------------------------------------------------
\* The structs

(* A reader with tags.                                                     *)
LEMMA TaggedReader ==
    ASSUME NEW a, NEW t
    PROVE  LET r == [Reads(a) EXCEPT !.tag = t] IN
           /\ r.fields = a /\ r.needs = {} /\ r.derefs = {} /\ r.first = {} /\ r.tag = t
BY DEF Reads

(* The members the two sides of a struct disagree about.                   *)
LEMMA LostInStructs ==
    /\ Except(Lost, "RecordSchedule") = {"TimeSegment"}
    /\ Except(Lost, "RegionListItem") = {"Seq", "Point"}
    /\ Except(Lost, "AlarmStatusItem") = {"DeviceID", "DutyStatus"}
    /\ Except(Lost, "ItemFile") = {"FilePath"}
    /\ Except(Lost, "ItemTypeInfo") = {"BusinessGroupID"}
    /\ \A k : k \notin {"RecordSchedule", "RegionListItem", "AlarmStatusItem", "ItemFile",
                       "ItemTypeInfo", "DragZoomOut", "RecordInfoQuery"} => Except(Lost, k) = {}
BY DEF Except, Lost

(* Every configuration type.                                               *)
LEMMA ConfigsSound ==
    \A k \in DOMAIN Configs : Sound(Configs[k], Except(Lost, k), {})
<1>1. Sound(Format(BasicParamCfgType, BasicParamWrite, BasicParamRead), {}, {})
  <2>1. Usual(BasicParamCfgType)
    BY DEF Usual, Classes, BasicParamCfgType, Of, ++
  <2> QED BY <2>1, WholeSound DEF BasicParamWrite, BasicParamRead
<1>2. Sound(Format(VideoParamOptCfgType, VideoParamOptWrite, VideoParamOptRead), {}, {})
  <2>1. Usual(VideoParamOptCfgType)
    BY DEF Usual, Classes, VideoParamOptCfgType, Of, ++
  <2> QED BY <2>1, WholeSound DEF VideoParamOptWrite, VideoParamOptRead
<1>3. Sound(Format(ROIParmaInfoItem, ROIItemWrite, ROIItemRead), {}, {})
  <2>1. Usual(ROIParmaInfoItem)
    BY DEF Usual, Classes, ROIParmaInfoItem, Of, ++
  <2> QED BY <2>1, WholeSound DEF ROIItemWrite, ROIItemRead
<1>4. Sound(Format(ROIParmaInfo, ROIWrite, ROIRead), {}, {})
  <2>1. Usual(ROIParmaInfo)
    BY DEF Usual, Classes, ROIParmaInfo, Of, ++
  <2>2. DOMAIN ROIParmaInfo = {"ROIFlag", "ROINumber"} \cup {"Item"}
    BY DEF ROIParmaInfo, Of, ++
  <2> QED BY <2>1, <2>2, WholeSound DEF ROIWrite, ROIRead
<1>5. Sound(Format(SVACParamInfo, SVACParamWrite, SVACParamRead), {}, {})
  <2>1. Usual(SVACParamInfo)
    BY DEF Usual, Classes, SVACParamInfo, Of, ++
  <2> QED BY <2>1, WholeSound DEF SVACParamWrite, SVACParamRead
<1>6. Sound(Format(SurveillanceParamInfo, SurveillanceWrite, SurveillanceRead), {}, {})
  <2>1. Usual(SurveillanceParamInfo)
    BY DEF Usual, Classes, SurveillanceParamInfo, Of, ++
  <2> QED BY <2>1, WholeSound DEF SurveillanceWrite, SurveillanceRead
<1>7. Sound(Format(AudioParamInfo, Writes(DOMAIN AudioParamInfo, {}),
      Reads(DOMAIN AudioParamInfo)), {}, {})
  <2>1. Usual(AudioParamInfo)
    BY DEF Usual, Classes, AudioParamInfo, Of, ++
  <2> QED BY <2>1, WholeSound
<1>8. Sound(Format(SVACEncodeCfgType, SVACEncodeWrite, SVACEncodeRead), {}, {})
  <2>1. Usual(SVACEncodeCfgType)
    BY DEF Usual, Classes, SVACEncodeCfgType, Of, ++
  <2> QED BY <2>1, WholeSound DEF SVACEncodeWrite, SVACEncodeRead
<1>9. Sound(Format(SVCParamInfo, SVCParamWrite, SVCParamRead), {}, {})
  <2>1. Usual(SVCParamInfo)
    BY DEF Usual, Classes, SVCParamInfo, Of, ++
  <2> QED BY <2>1, WholeSound DEF SVCParamWrite, SVCParamRead
<1>10. Sound(Format(SVACDecodeCfgType, SVACDecodeWrite, SVACDecodeRead), {}, {})
  <2>1. Usual(SVACDecodeCfgType)
    BY DEF Usual, Classes, SVACDecodeCfgType, Of, ++
  <2> QED BY <2>1, WholeSound DEF SVACDecodeWrite, SVACDecodeRead
<1>11. Sound(Format(VideoParamAttributeCfgTypeItem, VideoAttributeItemWrite,
      VideoAttributeItemRead), {}, {})
  <2>1. Usual(VideoParamAttributeCfgTypeItem)
    BY DEF Usual, Classes, VideoParamAttributeCfgTypeItem, Of, ++
  <2> QED BY <2>1, WholeSound DEF VideoAttributeItemWrite, VideoAttributeItemRead
<1>12. Sound(Format(VideoParamAttributeCfgType, VideoAttributeWrite, VideoAttributeRead), {}, {})
  <2>1. Usual(VideoParamAttributeCfgType)
    BY DEF Usual, Classes, VideoParamAttributeCfgType, Of, ++
  <2>2. DOMAIN VideoParamAttributeCfgType = {"Item"}
    BY DEF VideoParamAttributeCfgType, Of, ++
  <2> QED BY <2>1, <2>2, WholeSound DEF VideoAttributeWrite, VideoAttributeRead
<1>13. Sound(Format(TimeSegment, TimeSegmentWrite, TimeSegmentRead), {}, {})
  <2>1. Usual(TimeSegment)
    BY DEF Usual, Classes, TimeSegment, Of, ++
  <2> QED BY <2>1, WholeSound DEF TimeSegmentWrite, TimeSegmentRead
<1>14. Sound(Format(RecordSchedule, ScheduleWrite, ScheduleRead), {"TimeSegment"}, {})
  <2>1. /\ DOMAIN RecordSchedule = {"WeekDayNum", "TimeSegmentSumNum", "TimeSegment"}
        /\ \A f \in DOMAIN RecordSchedule : RecordSchedule[f] \in {"number", "items"}
    BY DEF RecordSchedule, Of, ++
  <2>2. /\ ScheduleWrite.always = {"WeekDayNum", "TimeSegmentSumNum"}
        /\ ScheduleWrite.ifset = {"TimeSegment"} /\ ScheduleWrite.under = <<>>
        /\ ScheduleWrite.tag = [TimeSegment |-> "../TimeSegment"]
    BY TaggedWriter DEF ScheduleWrite
  <2>3. /\ TagOf(ScheduleWrite, "TimeSegment") = "../TimeSegment"
        /\ \A f : f # "TimeSegment" => TagOf(ScheduleWrite, f) = f
    BY <2>2 DEF TagOf
  <2>4. /\ ScheduleRead.fields = DOMAIN RecordSchedule /\ ScheduleRead.needs = {}
        /\ ScheduleRead.derefs = {} /\ ScheduleRead.first = {}
        /\ \A f : TagOf(ScheduleRead, f) = f
    BY ReadsTable, NoTags DEF ScheduleRead
  <2> QED BY <2>1, <2>2, <2>3, <2>4, FormatTable DEF Sound, Straight, Carries, Members, Classes
<1>15. Sound(Format(VideoRecordPlanCfgType, RecordPlanWrite, RecordPlanRead), {}, {})
  <2>1. Usual(VideoRecordPlanCfgType)
    BY DEF Usual, Classes, VideoRecordPlanCfgType, Of, ++
  <2>2. DOMAIN VideoRecordPlanCfgType = {"RecordEnable", "StreamNumber",
        "RecordScheduleSumNum"} \cup {"RecordSchedule"}
    BY DEF VideoRecordPlanCfgType, Of, ++
  <2> QED BY <2>1, <2>2, WholeSound DEF RecordPlanWrite, RecordPlanRead
<1>16. Sound(Format(VideoAlarmRecordCfgType, AlarmRecordWrite, AlarmRecordRead), {}, {})
  <2>1. Usual(VideoAlarmRecordCfgType)
    BY DEF Usual, Classes, VideoAlarmRecordCfgType, Of, ++
  <2> QED BY <2>1, WholeSound DEF AlarmRecordWrite, AlarmRecordRead
<1>17. Sound(Format(RegionListItem, RegionItemWrite, RegionItemRead), {"Seq", "Point"}, {})
  <2>1. /\ DOMAIN RegionListItem = {"Seq", "Point"}
        /\ \A f \in DOMAIN RegionListItem : RegionListItem[f] \in {"number", "part"}
    BY DEF RegionListItem, Of, ++
  <2>2. /\ RegionItemWrite.always = DOMAIN RegionListItem
        /\ RegionItemWrite.ifset = {} /\ RegionItemWrite.under = <<>>
        /\ RegionItemWrite.tag = [Seq |-> "../../Seq", Point |-> "../../Point"]
    BY TaggedWriter DEF RegionItemWrite
  <2>3. /\ TagOf(RegionItemWrite, "Seq") = "../../Seq"
        /\ TagOf(RegionItemWrite, "Point") = "../../Point"
    BY <2>2 DEF TagOf
  <2>4. /\ RegionItemRead.fields = DOMAIN RegionListItem /\ RegionItemRead.needs = {}
        /\ RegionItemRead.derefs = {} /\ RegionItemRead.first = {}
        /\ \A f : TagOf(RegionItemRead, f) = f
    BY ReadsTable, NoTags DEF RegionItemRead
  <2> QED BY <2>1, <2>2, <2>3, <2>4, FormatTable DEF Sound, Straight, Carries, Members, Classes
<1>18. Sound(Format(PictureMaskClgType, PictureMaskWrite, PictureMaskRead), {}, {})
  <2>1. Usual(PictureMaskClgType)
    BY DEF Usual, Classes, PictureMaskClgType, Of, ++
  <2>2. DOMAIN PictureMaskClgType = {"On", "SumNum"} \cup {"RegionList"}
    BY DEF PictureMaskClgType, Of, ++
  <2> QED BY <2>1, <2>2, WholeSound DEF PictureMaskWrite, PictureMaskRead
<1>19. Sound(Format(FrameMirrorCfgType, FrameMirrorWrite, FrameMirrorRead), {}, {})
  <2>1. Usual(FrameMirrorCfgType)
    BY DEF Usual, Classes, FrameMirrorCfgType, Of, ++
  <2>2. DOMAIN FrameMirrorCfgType = {"FrameMirror"}
    BY DEF FrameMirrorCfgType, Of, ++
  <2> QED BY <2>1, <2>2, WholeSound DEF FrameMirrorWrite, FrameMirrorRead
<1>20. Sound(Format(AlarmReportCfgType, AlarmReportWrite, AlarmReportRead), {}, {})
  <2>1. Usual(AlarmReportCfgType)
    BY DEF Usual, Classes, AlarmReportCfgType, Of, ++
  <2> QED BY <2>1, WholeSound DEF AlarmReportWrite, AlarmReportRead
<1>21. Sound(Format(OSDCfgTypeTextItem, OSDItemWrite, OSDItemRead), {}, {})
  <2>1. Usual(OSDCfgTypeTextItem)
    BY DEF Usual, Classes, OSDCfgTypeTextItem, Of, ++
  <2> QED BY <2>1, WholeSound DEF OSDItemWrite, OSDItemRead
<1>22. Sound(Format(OSDCfgType, OSDWrite, OSDRead), {}, {})
  <2>1. Usual(OSDCfgType)
    BY DEF Usual, Classes, OSDCfgType, Of, ++
  <2>2. DOMAIN OSDCfgType = (DOMAIN OSDCfgType \ {"Item"}) \cup {"Item"}
    BY DEF OSDCfgType, Of, ++
  <2> QED BY <2>1, <2>2, WholeSound DEF OSDWrite, OSDRead
<1>23. Sound(Format(SnapShotCfgType, SnapShotWrite, SnapShotRead), {}, {})
  <2>1. Usual(SnapShotCfgType)
    BY DEF Usual, Classes, SnapShotCfgType, Of, ++
  <2> QED BY <2>1, WholeSound DEF SnapShotWrite, SnapShotRead
<1>24. \A k \in {"BasicParam", "VideoParamOpt", "ROIItem", "ROIParma", "SVACParam",
                 "SurveillanceParam", "AudioParam", "SVACEncodeConfig"} :
          Sound(Configs[k], Except(Lost, k), {})
  <2>1. /\ Configs["BasicParam"] = Format(BasicParamCfgType, BasicParamWrite, BasicParamRead)
        /\ Configs["VideoParamOpt"] =
              Format(VideoParamOptCfgType, VideoParamOptWrite, VideoParamOptRead)
        /\ Configs["ROIItem"] = Format(ROIParmaInfoItem, ROIItemWrite, ROIItemRead)
        /\ Configs["ROIParma"] = Format(ROIParmaInfo, ROIWrite, ROIRead)
    BY DEF Configs
  <2>2. /\ Configs["SVACParam"] = Format(SVACParamInfo, SVACParamWrite, SVACParamRead)
        /\ Configs["SurveillanceParam"] =
              Format(SurveillanceParamInfo, SurveillanceWrite, SurveillanceRead)
        /\ Configs["AudioParam"] =
              Format(AudioParamInfo, Writes(DOMAIN AudioParamInfo, {}),
                     Reads(DOMAIN AudioParamInfo))
        /\ Configs["SVACEncodeConfig"] =
              Format(SVACEncodeCfgType, SVACEncodeWrite, SVACEncodeRead)
    BY DEF Configs
  <2> QED
    BY <2>1, <2>2, <1>1, <1>2, <1>3, <1>4, <1>5, <1>6, <1>7, <1>8, LostInStructs
<1>25. \A k \in {"SVCParam", "SVACDecodeConfig", "VideoAttributeItem", "VideoParamAttribute",
                 "TimeSegment", "RecordSchedule", "VideoRecordPlan", "VideoAlarmRecord"} :
          Sound(Configs[k], Except(Lost, k), {})
  <2>1. /\ Configs["SVCParam"] = Format(SVCParamInfo, SVCParamWrite, SVCParamRead)
        /\ Configs["SVACDecodeConfig"] =
              Format(SVACDecodeCfgType, SVACDecodeWrite, SVACDecodeRead)
        /\ Configs["VideoAttributeItem"] =
              Format(VideoParamAttributeCfgTypeItem, VideoAttributeItemWrite, VideoAttributeItemRead)
        /\ Configs["VideoParamAttribute"] =
              Format(VideoParamAttributeCfgType, VideoAttributeWrite, VideoAttributeRead)
    BY DEF Configs
  <2>2. /\ Configs["TimeSegment"] = Format(TimeSegment, TimeSegmentWrite, TimeSegmentRead)
        /\ Configs["RecordSchedule"] = Format(RecordSchedule, ScheduleWrite, ScheduleRead)
        /\ Configs["VideoRecordPlan"] =
              Format(VideoRecordPlanCfgType, RecordPlanWrite, RecordPlanRead)
        /\ Configs["VideoAlarmRecord"] =
              Format(VideoAlarmRecordCfgType, AlarmRecordWrite, AlarmRecordRead)
    BY DEF Configs
  <2> QED
    BY <2>1, <2>2, <1>9, <1>10, <1>11, <1>12, <1>13, <1>14, <1>15, <1>16, LostInStructs
<1>26. \A k \in {"RegionListItem", "PictureMask", "FrameMirror", "AlarmReport", "OSDItem",
                 "OSDConfig", "SnapShotConfig"} :
          Sound(Configs[k], Except(Lost, k), {})
  <2>1. /\ Configs["RegionListItem"] = Format(RegionListItem, RegionItemWrite, RegionItemRead)
        /\ Configs["PictureMask"] =
              Format(PictureMaskClgType, PictureMaskWrite, PictureMaskRead)
        /\ Configs["FrameMirror"] =
              Format(FrameMirrorCfgType, FrameMirrorWrite, FrameMirrorRead)
        /\ Configs["AlarmReport"] =
              Format(AlarmReportCfgType, AlarmReportWrite, AlarmReportRead)
    BY DEF Configs
  <2>2. /\ Configs["OSDItem"] = Format(OSDCfgTypeTextItem, OSDItemWrite, OSDItemRead)
        /\ Configs["OSDConfig"] = Format(OSDCfgType, OSDWrite, OSDRead)
        /\ Configs["SnapShotConfig"] = Format(SnapShotCfgType, SnapShotWrite, SnapShotRead)
    BY DEF Configs
  <2> QED
    BY <2>1, <2>2, <1>17, <1>18, <1>19, <1>20, <1>21, <1>22, <1>23, LostInStructs
<1>27. DOMAIN Configs =
          {"BasicParam", "VideoParamOpt", "ROIItem", "ROIParma", "SVACParam",
           "SurveillanceParam", "AudioParam", "SVACEncodeConfig"}
          \cup {"SVCParam", "SVACDecodeConfig", "VideoAttributeItem", "VideoParamAttribute",
                "TimeSegment", "RecordSchedule", "VideoRecordPlan", "VideoAlarmRecord"}
          \cup {"RegionListItem", "PictureMask", "FrameMirror", "AlarmReport", "OSDItem",
                "OSDConfig", "SnapShotConfig"}
  BY DEF Configs
<1> QED BY <1>24, <1>25, <1>26, <1>27

(* Every item type.                                                        *)
LEMMA ItemsSound ==
    \A k \in DOMAIN Items : Sound(Items[k], Except(Lost, k), {})
<1>1. Sound(Format(ItemTypeInfo, ItemTypeInfoWrite, ItemTypeInfoRead), {"BusinessGroupID"}, {})
  <2>1. Usual(ItemTypeInfo) /\ "DeviceID" \in DOMAIN ItemTypeInfo
    BY DEF Usual, Classes, ItemTypeInfo, Of, ++
  <2>2. Simple(ItemTypeInfo, ItemTypeInfoWrite, ItemTypeInfoRead, {"BusinessGroupID"})
    BY <2>1, WritesTable, ReadsTable DEF ItemTypeInfoWrite, ItemTypeInfoRead, Simple, Usual
  <2>3. ItemTypeInfoRead.derefs = {}
    BY ReadsTable DEF ItemTypeInfoRead
  <2> QED BY <2>2, <2>3, SimpleSound
<1>2. Sound(Format(ItemTypeInfoDetail, DetailWrite, DetailRead), {}, {})
  <2>1. /\ Usual(ItemTypeInfoDetail) /\ ItemTypeInfoDetail["DirectionType"] = "optional"
        /\ "Direction" \notin DOMAIN ItemTypeInfoDetail
    BY DEF Usual, Classes, ItemTypeInfoDetail, Of, ++
  <2>2. /\ DOMAIN ItemTypeInfoDetail \subseteq DetailWrite.always \cup DetailWrite.ifset
        /\ DetailWrite.under = <<>> /\ DetailWrite.tag = [DirectionType |-> "Direction"]
    BY TaggedWriter DEF DetailWrite
  <2>3. /\ TagOf(DetailWrite, "DirectionType") = "Direction"
        /\ \A f : f # "DirectionType" => TagOf(DetailWrite, f) = f
    BY <2>2 DEF TagOf
  <2>4. /\ DetailRead.fields = DOMAIN ItemTypeInfoDetail /\ DetailRead.needs = {}
        /\ DetailRead.derefs = {} /\ DetailRead.first = {}
        /\ \A f : TagOf(DetailRead, f) = f
    BY ReadsTable, NoTags DEF DetailRead
  <2>5. Straight(Format(ItemTypeInfoDetail, DetailWrite, DetailRead))
    BY <2>1, <2>3, <2>4, FormatTable DEF Straight, Usual
  <2> QED
    BY <2>1, <2>2, <2>3, <2>4, <2>5, FormatTable DEF Sound, Carries, Members, Usual
<1>3. Sound(Format(ItemFileType, ItemFileWrite, ItemFileRead), {"FilePath"}, {})
  <2>1. Usual(ItemFileType) /\ "FilePath_" \notin DOMAIN ItemFileType
    BY DEF Usual, Classes, ItemFileType, Of, ++
  <2>2. /\ ItemFileWrite.always = {"Secrecy"}
        /\ ItemFileWrite.ifset = DOMAIN ItemFileType \ {"Secrecy"} /\ ItemFileWrite.under = <<>>
        /\ \A f : TagOf(ItemFileWrite, f) = f
    BY WritesTable, NoTags DEF ItemFileWrite
  <2>3. /\ ItemFileRead.fields = DOMAIN ItemFileType /\ ItemFileRead.needs = {}
        /\ ItemFileRead.derefs = {} /\ ItemFileRead.first = {}
        /\ ItemFileRead.tag = [FilePath |-> "FilePath_"]
    BY TaggedReader DEF ItemFileRead
  <2>4. /\ TagOf(ItemFileRead, "FilePath") = "FilePath_"
        /\ \A f : f # "FilePath" => TagOf(ItemFileRead, f) = f
    BY <2>3 DEF TagOf
  <2>5. "Secrecy" \in DOMAIN ItemFileType
    BY DEF ItemFileType, Of, ++
  <2>6. Straight(Format(ItemFileType, ItemFileWrite, ItemFileRead))
    BY <2>1, <2>2, <2>3, <2>4, <2>5, FormatTable DEF Straight, Members, Usual
  <2> QED
    BY <2>1, <2>2, <2>3, <2>4, <2>6, FormatTable DEF Sound, Carries, Members, Usual
<1>4. Sound(Format(ItemMobilePositionType, ItemMobilePositionWrite, ItemMobilePositionRead),
      {}, {})
  <2>1. Usual(ItemMobilePositionType)
    BY DEF Usual, Classes, ItemMobilePositionType, Of, ++
  <2>2. DOMAIN ItemMobilePositionType = {"DeviceID", "CaptureTime", "Longitude",
        "Latitude"} \cup {"Speed", "Direction", "Altitude", "Height"}
    BY DEF ItemMobilePositionType, Of, ++
  <2> QED BY <2>1, <2>2, WholeSound DEF ItemMobilePositionWrite, ItemMobilePositionRead
<1>5. Sound(Format(DeviceStatusAlarmStatusItem, AlarmStatusItemWrite, AlarmStatusItemRead),
      {"DeviceID", "DutyStatus"}, {})
  <2>1. /\ DOMAIN DeviceStatusAlarmStatusItem = {"DeviceID", "DutyStatus"}
        /\ \A f \in DOMAIN DeviceStatusAlarmStatusItem :
              DeviceStatusAlarmStatusItem[f] \in {"text", "enum"}
    BY DEF DeviceStatusAlarmStatusItem, Of, ++
  <2>2. /\ AlarmStatusItemWrite.always = DOMAIN DeviceStatusAlarmStatusItem
        /\ AlarmStatusItemWrite.ifset = {} /\ AlarmStatusItemWrite.under = <<>>
        /\ AlarmStatusItemWrite.tag = [DeviceID |-> "key/DeviceID",
              DutyStatus |-> "key/DutyStatus"]
    BY TaggedWriter DEF AlarmStatusItemWrite
  <2>3. /\ TagOf(AlarmStatusItemWrite, "DeviceID") = "key/DeviceID"
        /\ TagOf(AlarmStatusItemWrite, "DutyStatus") = "key/DutyStatus"
    BY <2>2 DEF TagOf
  <2>4. /\ AlarmStatusItemRead.fields = DOMAIN DeviceStatusAlarmStatusItem
        /\ AlarmStatusItemRead.needs = {} /\ AlarmStatusItemRead.derefs = {}
        /\ AlarmStatusItemRead.first = {} /\ \A f : TagOf(AlarmStatusItemRead, f) = f
    BY ReadsTable, NoTags DEF AlarmStatusItemRead
  <2> QED BY <2>1, <2>2, <2>3, <2>4, FormatTable DEF Sound, Straight, Carries, Members, Classes
<1>6. Sound(Plain(PresetListItem), {}, {})
  <2>1. Usual(PresetListItem)
    BY DEF Usual, Classes, PresetListItem, Of, ++
  <2> QED BY <2>1, WholeSound DEF Plain
<1>7. Sound(Plain(CruiseTrackListItemType), {}, {})
  <2>1. Usual(CruiseTrackListItemType)
    BY DEF Usual, Classes, CruiseTrackListItemType, Of, ++
  <2> QED BY <2>1, WholeSound DEF Plain
<1>8. Sound(Plain(CruisePointType), {}, {})
  <2>1. Usual(CruisePointType)
    BY DEF Usual, Classes, CruisePointType, Of, ++
  <2> QED BY <2>1, WholeSound DEF Plain
<1>9. Sound(Plain(SdCardInfoType), {}, {})
  <2>1. Usual(SdCardInfoType)
    BY DEF Usual, Classes, SdCardInfoType, Of, ++
  <2> QED BY <2>1, WholeSound DEF Plain
<1>10. Sound(Format(PtzCmdParams, Writes({}, DOMAIN PtzCmdParams),
      Reads(DOMAIN PtzCmdParams)), {}, {})
  <2>1. Usual(PtzCmdParams)
    BY DEF Usual, Classes, PtzCmdParams, Of, ++
  <2> QED BY <2>1, WholeSound
<1>11. Sound(Plain(AlarmCmdInfoType), {}, {})
  <2>1. Usual(AlarmCmdInfoType)
    BY DEF Usual, Classes, AlarmCmdInfoType, Of, ++
  <2> QED BY <2>1, WholeSound DEF Plain
<1>12. Sound(Plain(DragZoomType), {}, {})
  <2>1. Usual(DragZoomType)
    BY DEF Usual, Classes, DragZoomType, Of, ++
  <2> QED BY <2>1, WholeSound DEF Plain
<1>13. Sound(Plain(PTZPreciseCtrlType), {}, {})
  <2>1. Usual(PTZPreciseCtrlType)
    BY DEF Usual, Classes, PTZPreciseCtrlType, Of, ++
  <2> QED BY <2>1, WholeSound DEF Plain
<1>14. Sound(Plain(HomePositionType), {}, {})
  <2>1. Usual(HomePositionType)
    BY DEF Usual, Classes, HomePositionType, Of, ++
  <2> QED BY <2>1, WholeSound DEF Plain
<1>15. \A k \in {"ItemTypeInfo", "ItemTypeInfoDetail", "ItemFile", "ItemMobilePosition",
                 "AlarmStatusItem", "PresetListItem", "CruiseTrackListItem"} :
          Sound(Items[k], Except(Lost, k), {})
  <2>1. /\ Items["ItemTypeInfo"] = Format(ItemTypeInfo, ItemTypeInfoWrite, ItemTypeInfoRead)
        /\ Items["ItemTypeInfoDetail"] = Format(ItemTypeInfoDetail, DetailWrite, DetailRead)
        /\ Items["ItemFile"] = Format(ItemFileType, ItemFileWrite, ItemFileRead)
        /\ Items["ItemMobilePosition"] =
              Format(ItemMobilePositionType, ItemMobilePositionWrite, ItemMobilePositionRead)
    BY DEF Items
  <2>2. /\ Items["AlarmStatusItem"] =
              Format(DeviceStatusAlarmStatusItem, AlarmStatusItemWrite, AlarmStatusItemRead)
        /\ Items["PresetListItem"] = Plain(PresetListItem)
        /\ Items["CruiseTrackListItem"] = Plain(CruiseTrackListItemType)
    BY DEF Items
  <2> QED
    BY <2>1, <2>2, <1>1, <1>2, <1>3, <1>4, <1>5, <1>6, <1>7, LostInStructs
<1>16. \A k \in {"CruisePoint", "SdCardInfo", "PtzCmdParams", "AlarmCmdInfo", "TargetArea",
                 "PTZPreciseCtrlType", "HomePositionType"} :
          Sound(Items[k], Except(Lost, k), {})
  <2>1. /\ Items["CruisePoint"] = Plain(CruisePointType)
        /\ Items["SdCardInfo"] = Plain(SdCardInfoType)
        /\ Items["PtzCmdParams"] =
              Format(PtzCmdParams, Writes({}, DOMAIN PtzCmdParams), Reads(DOMAIN PtzCmdParams))
        /\ Items["AlarmCmdInfo"] = Plain(AlarmCmdInfoType)
    BY DEF Items
  <2>2. /\ Items["TargetArea"] = Plain(DragZoomType)
        /\ Items["PTZPreciseCtrlType"] = Plain(PTZPreciseCtrlType)
        /\ Items["HomePositionType"] = Plain(HomePositionType)
    BY DEF Items
  <2> QED
    BY <2>1, <2>2, <1>8, <1>9, <1>10, <1>11, <1>12, <1>13, <1>14, LostInStructs
<1>17. DOMAIN Items =
          {"ItemTypeInfo", "ItemTypeInfoDetail", "ItemFile", "ItemMobilePosition",
           "AlarmStatusItem", "PresetListItem", "CruiseTrackListItem"}
          \cup {"CruisePoint", "SdCardInfo", "PtzCmdParams", "AlarmCmdInfo", "TargetArea",
                "PTZPreciseCtrlType", "HomePositionType"}
  BY DEF Items
<1> QED BY <1>15, <1>16, <1>17

----------------------------------------------------------------------------
\* The messages

QueryKinds ==
    {"DeviceStatusQuery", "DeviceInfoQuery", "CatalogQuery", "RecordInfoQuery",
     "ConfigDownloadQuery", "PresetQuery", "HomePositionQuery", "CruiseTrackListQuery",
     "CruiseTrackQuery", "PTZPositionQuery", "SDCardStatusQuery", "AlarmQuery",
     "MobilePositionQuery"}
ControlKinds ==
    {"PTZCmd", "TeleBoot", "RecordCmd", "GuardCmd", "AlarmCmd", "IFrameCmd", "DragZoomIn",
     "DragZoomOut", "HomePosition", "PTZPreciseCtrl", "DeviceUpgrade", "FormatSDCard",
     "TargetTrack", "DeviceConfig"}
NotificationKinds ==
    {"Broadcast", "Keepalive", "Alarm", "CatalogNotify", "MediaStatus", "MobilePosition",
     "PTZPositionNotify", "UploadSnapShotFinished", "VideoUploadNotify", "DeviceUpgradeResult"}

(* The kinds of requests and the commands of their answers.                *)
LEMMA QueryDomain == DOMAIN Queries = QueryKinds
BY DEF Queries, QueryKinds

LEMMA ControlDomain == DOMAIN Controls = ControlKinds
BY DEF Controls, ControlKinds

LEMMA NotificationDomain == DOMAIN Notifications = NotificationKinds
BY DEF Notifications, NotificationKinds

LEMMA RequestDomain == DOMAIN Requests = QueryKinds \cup ControlKinds \cup NotificationKinds
BY QueryDomain, ControlDomain, NotificationDomain DEF Requests, ++

Commands ==
    {"DeviceStatus", "DeviceInfo", "Catalog", "RecordInfo", "ConfigDownload", "PresetQuery",
     "HomePositionQuery", "CruiseTrackListQuery", "CruiseTrackQuery", "PTZPosition",
     "SDCardStatus", "DeviceControl", "DeviceConfig", "Alarm", "Broadcast"}

LEMMA ResponseDomain == DOMAIN Responses = Commands
BY DEF Responses, Commands

(* Readers that dereference, writers with members under others.            *)
LEMMA DerefsRead ==
    ASSUME NEW R, IsReader(R), NEW d
    PROVE  LET r == [R EXCEPT !.derefs = d] IN
           /\ IsReader(r) /\ r.fields = R.fields /\ r.needs = R.needs /\ r.tag = R.tag
           /\ r.derefs = d /\ r.first = R.first
BY DEF IsReader

LEMMA ReadDerefs ==
    ASSUME NEW F, NEW W, NEW R, NEW E, Simple(F, W, R, E), NEW d
    PROVE  Simple(F, W, [R EXCEPT !.derefs = d], E)
BY DEF Simple, IsReader

LEMMA PartSimple ==
    ASSUME NEW F, NEW a, NEW i, NEW r, NEW E,
           r \subseteq DOMAIN F,
           \A f \in DOMAIN F : F[f] \in Classes \ {"raw"},
           "EventType" \notin DOMAIN F,
           \A f \in DOMAIN F \ E : /\ f \in r /\ f \in a \cup i
                                   /\ F[f] \in {"stamp", "config"} => f \in a
    PROVE  Simple(F, Writes(a, i), Reads(r), E)
<1> DEFINE W == Writes(a, i)
           R == Reads(r)
<1>1. /\ IsWriter(W) /\ W.always = a /\ W.ifset = i /\ W.tag = <<>> /\ W.under = <<>>
      /\ IsReader(R) /\ R.fields = r /\ R.tag = <<>> /\ R.needs = {} /\ R.first = {}
  BY WritesTable, ReadsTable
<1> HIDE DEF W, R
<1>2. Simple(F, W, R, E)
  BY <1>1 DEF Simple
<1> QED BY <1>2 DEF W, R

LEMMA UnderWrite ==
    ASSUME NEW W, IsWriter(W), NEW u
    PROVE  LET w == [W EXCEPT !.under = u] IN
           /\ IsWriter(w) /\ w.always = W.always /\ w.ifset = W.ifset /\ w.under = u
           /\ w.tag = W.tag
BY DEF IsWriter

LEMMA TagWrite ==
    ASSUME NEW W, IsWriter(W), NEW t
    PROVE  LET w == [W EXCEPT !.tag = t] IN
           /\ IsWriter(w) /\ w.always = W.always /\ w.ifset = W.ifset /\ w.under = W.under
           /\ w.tag = t /\ w.needs = W.needs
BY DEF IsWriter

(* The members the two sides of a request disagree about.                  *)
LEMMA LostInRequests ==
    /\ Except(Lost, "RecordInfoQuery") = {"Secrecy"}
    /\ Except(Lost, "DragZoomOut") = DOMAIN DragZoomType
    /\ \A k \in QueryKinds \cup ControlKinds \cup NotificationKinds :
          k \notin {"DragZoomOut", "RecordInfoQuery"} => Except(Lost, k) = {}
BY DEF Except, Lost, QueryKinds, ControlKinds, NotificationKinds

(* The format of every message.                                            *)
LEMMA QueryFormats ==
    /\ Queries["DeviceStatusQuery"].format = Query
    /\ Queries["DeviceInfoQuery"].format = Query
    /\ Queries["CatalogQuery"].format =
          Message(CatalogRequestFields, CatalogRequestWrite, CatalogRequestRead)
    /\ Queries["RecordInfoQuery"].format =
          Message(RecordRequestFields, RecordRequestWrite, RecordRequestRead)
    /\ Queries["ConfigDownloadQuery"].format =
          Message(ConfigRequestFields, ConfigRequestWrite, ConfigRequestRead)
    /\ Queries["PresetQuery"].format = Query
    /\ Queries["HomePositionQuery"].format = Query
    /\ Queries["CruiseTrackListQuery"].format = Query
    /\ Queries["CruiseTrackQuery"].format =
          Message(CruiseRequestFields, CruiseRequestWrite, CruiseRequestRead)
    /\ Queries["PTZPositionQuery"].format = Query
    /\ Queries["SDCardStatusQuery"].format = Query
    /\ Queries["AlarmQuery"].format =
          Message(AlarmRequestFields, AlarmRequestWrite, AlarmRequestRead)
    /\ Queries["MobilePositionQuery"].format =
          Message(MobilePositionRequestFields, MobilePositionRequestWrite,
                MobilePositionRequestRead)
BY DEF Queries, Request

LEMMA ControlFormats ==
    /\ Controls["PTZCmd"].format = Control(PTZCmdFields, PTZCmdWrite, PTZCmdRead)
    /\ Controls["TeleBoot"].format =
          Control(TeleBootFields, TeleBootWrite, TeleBootRead)
    /\ Controls["RecordCmd"].format =
          Control(RecordCmdFields, RecordCmdWrite, RecordCmdRead)
    /\ Controls["GuardCmd"].format =
          Control(GuardCmdFields, GuardCmdWrite, GuardCmdRead)
    /\ Controls["AlarmCmd"].format =
          Control(AlarmCmdFields, AlarmCmdWrite, AlarmCmdRead)
    /\ Controls["IFrameCmd"].format = Control(IFrameFields, IFrameWrite, IFrameRead)
    /\ Controls["DragZoomIn"].format =
          Control(DragZoomInFields, DragZoomInWrite, DragZoomInRead)
    /\ Controls["DragZoomOut"].format =
          Control(DragZoomOutFields, DragZoomOutWrite, DragZoomOutRead)
    /\ Controls["HomePosition"].format =
          Control(HomePositionCmdFields, HomePositionCmdWrite, HomePositionCmdRead)
    /\ Controls["PTZPreciseCtrl"].format =
          Control(PtzPreciseFields, PtzPreciseWrite, PtzPreciseRead)
    /\ Controls["DeviceUpgrade"].format =
          Control(DeviceUpgradeFields, DeviceUpgradeWrite, DeviceUpgradeRead)
    /\ Controls["FormatSDCard"].format =
          Control(FormatSDFields, FormatSDWrite, FormatSDRead)
    /\ Controls["TargetTrack"].format =
          Control(TargetTrackFields, TargetTrackWrite, TargetTrackRead)
    /\ Controls["DeviceConfig"].format =
          Message(DeviceConfigFields, DeviceConfigWrite, DeviceConfigRead)
BY DEF Controls, Request

LEMMA NotificationFormats ==
    /\ Notifications["Broadcast"].format =
          Format(BroadcastFields, BroadcastWrite, BroadcastRead)
    /\ Notifications["Keepalive"].format =
          Message(KeepaliveFields, KeepaliveWrite, KeepaliveRead)
    /\ Notifications["Alarm"].format = Message(AlarmFields, AlarmWrite, AlarmRead)
    /\ Notifications["CatalogNotify"].format =
          Message(CatalogFields, CatalogWrite, CatalogRead)
    /\ Notifications["MediaStatus"].format =
          Message(MediaStatusFields, MediaStatusWrite, MediaStatusRead)
    /\ Notifications["MobilePosition"].format =
          Message(MobilePositionFields, MobilePositionWrite, MobilePositionRead)
    /\ Notifications["PTZPositionNotify"].format =
          Message(PTZPositionFields, PTZNotifyWrite, PTZNotifyRead)
    /\ Notifications["UploadSnapShotFinished"].format =
          Message(SnapShotFinishedFields, SnapShotFinishedWrite, SnapShotFinishedRead)
    /\ Notifications["VideoUploadNotify"].format =
          Message(VideoUploadFields, VideoUploadWrite, VideoUploadRead)
    /\ Notifications["DeviceUpgradeResult"].format =
          Message(UpgradeResultFields, UpgradeResultWrite, UpgradeResultRead)
BY DEF Notifications, Request

LEMMA ResponseFormats ==
    /\ Responses["DeviceStatus"] =
          Message(DeviceStatusFields, DeviceStatusWrite, DeviceStatusRead)
    /\ Responses["DeviceInfo"] =
          Message(DeviceInfoFields, DeviceInfoWrite, DeviceInfoRead)
    /\ Responses["Catalog"] =
          Message(CatalogFields, CatalogWrite, CatalogRead)
    /\ Responses["RecordInfo"] =
          Message(RecordInfoFields, RecordInfoWrite, RecordInfoRead)
    /\ Responses["ConfigDownload"] =
          Message(ConfigDownloadFields, ConfigDownloadWrite, ConfigDownloadRead)
    /\ Responses["PresetQuery"] =
          Message(PresetFields, PresetWrite, PresetRead)
    /\ Responses["HomePositionQuery"] =
          Message(HomePositionFields, HomePositionWrite, HomePositionRead)
    /\ Responses["CruiseTrackListQuery"] =
          Message(CruiseListFields, CruiseListWrite, CruiseListRead)
    /\ Responses["CruiseTrackQuery"] =
          Message(CruiseFields, CruiseWrite, CruiseRead)
    /\ Responses["PTZPosition"] =
          Message(PTZPositionFields ++ ResultField, PTZPositionWrite, PTZPositionRead)
    /\ Responses["SDCardStatus"] =
          Message(SdCardFields, SdCardWrite, SdCardRead)
    /\ Responses["DeviceControl"] = Answer
    /\ Responses["DeviceConfig"] = Answer
    /\ Responses["Alarm"] = Answer
    /\ Responses["Broadcast"] =
          Message(ResultField, BroadcastAnswerWrite, ResultRead)
BY DEF Responses

(* Every query.                                                            *)
LEMMA QueriesSound ==
    \A k \in DOMAIN Queries :
        SoundMessage(Queries[k].format, Except(Lost, k),
              IF k = "CatalogQuery" THEN {"DeviceID"} ELSE {})
<1>1. SoundMessage(Query, {}, {})
  <2>1. /\ Usual(NoFields)
        /\ DOMAIN NoFields = {}
    <3>1. Usual(NoFields)
      BY DEF Usual, Classes, NoFields, Of, ++
    <3>2. /\ DOMAIN NoFields = {}
      BY DEF NoFields, Of, ++
    <3> QED BY <3>1, <3>2
  <2>2. Simple(NoFields, Writes({}, {}), Reads(DOMAIN NoFields), {})
    BY <2>1, WholeSimple, ReadNeeds, WriteNeeds
  <2>3. DOMAIN NoFields = {} /\ Writes({}, {}).always \cap BaseNames = {} /\ Reads({}).derefs = {}
    BY <2>1, WritesTable, ReadsTable, NeedsWrite, NeedsRead DEF BaseNames
  <2> QED BY <2>1, <2>2, <2>3, MessageSound DEF BaseNames, Query
<1>2. SoundMessage(Message(CatalogRequestFields, CatalogRequestWrite, CatalogRequestRead),
      {}, {"DeviceID"})
  <2>1. /\ Usual(CatalogRequestFields)
        /\ DOMAIN CatalogRequestFields = {"StartTime", "EndTime"}
    <3>1. Usual(CatalogRequestFields)
      BY DEF Usual, Classes, CatalogRequestFields, Of
    <3>2. /\ DOMAIN CatalogRequestFields = {"StartTime", "EndTime"}
      BY DEF CatalogRequestFields, Of
    <3> QED BY <3>1, <3>2
  <2>2. Simple(CatalogRequestFields, CatalogRequestWrite, CatalogRequestRead, {})
    BY <2>1, WholeSimple, ReadDerefs DEF CatalogRequestWrite, CatalogRequestRead
  <2>3. /\ CatalogRequestWrite.always \cap BaseNames = {}
        /\ CatalogRequestRead.derefs = {"DeviceID"}
    BY WritesTable, ReadsTable, DerefsRead DEF CatalogRequestWrite, CatalogRequestRead
  <2> QED BY <2>1, <2>2, <2>3, MessageSound DEF BaseNames
<1>3. SoundMessage(Message(RecordRequestFields, RecordRequestWrite, RecordRequestRead),
      {"Secrecy"}, {})
  <2>1. /\ Usual(RecordRequestFields)
        /\ DOMAIN RecordRequestFields =
              {"StartTime", "EndTime", "FilePath", "Address", "Type", "RecorderID",
                    "IndistinctQuery",
               "AlarmMethod", "AlarmType", "Secrecy", "StreamNumber"}
        /\ RecordRequestFields["StartTime"] = "text" /\ RecordRequestFields["EndTime"] = "text"
    <3>1. Usual(RecordRequestFields)
      BY DEF Usual, Classes, RecordRequestFields, Of, ++
    <3>2. /\ DOMAIN RecordRequestFields =
                {"StartTime", "EndTime", "FilePath", "Address", "Type", "RecorderID",
                      "IndistinctQuery",
                 "AlarmMethod", "AlarmType", "Secrecy", "StreamNumber"}
          /\ RecordRequestFields["StartTime"] = "text" /\ RecordRequestFields["EndTime"] = "text"
      BY DEF RecordRequestFields, Of, ++
    <3> QED BY <3>1, <3>2
  <2>2. Simple(RecordRequestFields, Writes({"StartTime", "EndTime"}, 
                      DOMAIN RecordRequestFields \ {"StartTime", "EndTime", "Secrecy"}),
               Reads(DOMAIN RecordRequestFields), {"Secrecy"})
    BY <2>1, PartSimple DEF Usual, Classes
  <2>3. Simple(RecordRequestFields, RecordRequestWrite, RecordRequestRead, {"Secrecy"})
    BY <2>1, <2>2, ReadNeeds, WriteNeeds DEF RecordRequestWrite, RecordRequestRead
  <2>4. RecordRequestWrite.always \cap BaseNames = {} /\ RecordRequestRead.derefs = {}
    BY <2>1, WritesTable, ReadsTable, NeedsWrite, NeedsRead
          DEF RecordRequestWrite, RecordRequestRead, BaseNames
  <2> QED BY <2>1, <2>3, <2>4, MessageSound DEF BaseNames
<1>4. SoundMessage(Message(ConfigRequestFields, ConfigRequestWrite, ConfigRequestRead), {}, {})
  <2>1. /\ Usual(ConfigRequestFields)
        /\ DOMAIN ConfigRequestFields = {"ConfigType"}
        /\ ConfigRequestFields["ConfigType"] = "enum"
    <3>1. Usual(ConfigRequestFields)
      BY DEF Usual, Classes, ConfigRequestFields, Of, ++
    <3>2. /\ DOMAIN ConfigRequestFields = {"ConfigType"}
          /\ ConfigRequestFields["ConfigType"] = "enum"
      BY DEF ConfigRequestFields, Of, ++
    <3> QED BY <3>1, <3>2
  <2>2. Simple(ConfigRequestFields, ConfigRequestWrite, ConfigRequestRead, {})
    BY <2>1, WholeSimple, ReadNeeds, WriteNeeds DEF ConfigRequestWrite, ConfigRequestRead
  <2>3. ConfigRequestWrite.always \cap BaseNames = {} /\ ConfigRequestRead.derefs = {}
    BY <2>1, WritesTable, ReadsTable, NeedsWrite, NeedsRead
          DEF ConfigRequestWrite, ConfigRequestRead, BaseNames
  <2> QED BY <2>1, <2>2, <2>3, MessageSound DEF BaseNames
<1>5. SoundMessage(Message(CruiseRequestFields, CruiseRequestWrite, CruiseRequestRead), {}, {})
  <2>1. /\ Usual(CruiseRequestFields)
        /\ DOMAIN CruiseRequestFields = {"Number"}
        /\ CruiseRequestFields["Number"] = "number"
    <3>1. Usual(CruiseRequestFields)
      BY DEF Usual, Classes, CruiseRequestFields, Of, ++
    <3>2. /\ DOMAIN CruiseRequestFields = {"Number"}
          /\ CruiseRequestFields["Number"] = "number"
      BY DEF CruiseRequestFields, Of, ++
    <3> QED BY <3>1, <3>2
  <2>2. Simple(CruiseRequestFields, CruiseRequestWrite, CruiseRequestRead, {})
    BY <2>1, WholeSimple, ReadNeeds, WriteNeeds DEF CruiseRequestWrite, CruiseRequestRead
  <2>3. CruiseRequestWrite.always \cap BaseNames = {} /\ CruiseRequestRead.derefs = {}
    BY <2>1, WritesTable, ReadsTable, NeedsWrite, NeedsRead
          DEF CruiseRequestWrite, CruiseRequestRead, BaseNames
  <2> QED BY <2>1, <2>2, <2>3, MessageSound DEF BaseNames
<1>6. SoundMessage(Message(AlarmRequestFields, AlarmRequestWrite, AlarmRequestRead), {}, {})
  <2>1. /\ Usual(AlarmRequestFields)
        /\ DOMAIN AlarmRequestFields = {"StartAlarmPriority", "EndAlarmPriority",
              "AlarmMethod", "AlarmType", "StartAlarmTime", "EndAlarmTime"}
    <3>1. Usual(AlarmRequestFields)
      BY DEF Usual, Classes, AlarmRequestFields, Of, ++
    <3>2. /\ DOMAIN AlarmRequestFields = {"StartAlarmPriority", "EndAlarmPriority",
                "AlarmMethod", "AlarmType", "StartAlarmTime", "EndAlarmTime"}
      BY DEF AlarmRequestFields, Of, ++
    <3> QED BY <3>1, <3>2
  <2>2. Simple(AlarmRequestFields, AlarmRequestWrite, AlarmRequestRead, {})
    BY <2>1, WholeSimple, ReadNeeds, WriteNeeds DEF AlarmRequestWrite, AlarmRequestRead
  <2>3. AlarmRequestWrite.always \cap BaseNames = {} /\ AlarmRequestRead.derefs = {}
    BY <2>1, WritesTable, ReadsTable, NeedsWrite, NeedsRead
          DEF AlarmRequestWrite, AlarmRequestRead, BaseNames
  <2> QED BY <2>1, <2>2, <2>3, MessageSound DEF BaseNames
<1>7. SoundMessage(Message(MobilePositionRequestFields, MobilePositionRequestWrite,
      MobilePositionRequestRead), {}, {})
  <2>1. /\ Usual(MobilePositionRequestFields)
        /\ DOMAIN MobilePositionRequestFields = {"Interval"}
    <3>1. Usual(MobilePositionRequestFields)
      BY DEF Usual, Classes, MobilePositionRequestFields, Of, ++
    <3>2. /\ DOMAIN MobilePositionRequestFields = {"Interval"}
      BY DEF MobilePositionRequestFields, Of, ++
    <3> QED BY <3>1, <3>2
  <2>2. Simple(MobilePositionRequestFields, MobilePositionRequestWrite,
        MobilePositionRequestRead, {})
    BY <2>1, WholeSimple, ReadNeeds, WriteNeeds
          DEF MobilePositionRequestWrite, MobilePositionRequestRead
  <2>3. MobilePositionRequestWrite.always \cap BaseNames = {}
        /\ MobilePositionRequestRead.derefs = {}
    BY <2>1, WritesTable, ReadsTable, NeedsWrite, NeedsRead
          DEF MobilePositionRequestWrite, MobilePositionRequestRead, BaseNames
  <2> QED BY <2>1, <2>2, <2>3, MessageSound DEF BaseNames
<1>8. \A k \in QueryKinds \ {"CatalogQuery", "RecordInfoQuery"} : Except(Lost, k) = {}
  <2>1. "DragZoomOut" \notin QueryKinds
    BY DEF QueryKinds
  <2> QED BY <2>1, LostInRequests
<1>9. \A k \in {"DeviceStatusQuery", "DeviceInfoQuery", "PresetQuery", "HomePositionQuery",
               "CruiseTrackListQuery", "PTZPositionQuery", "SDCardStatusQuery"} :
         Queries[k].format = Query
  BY QueryFormats
<1>10. \A k \in {"CatalogQuery", "RecordInfoQuery", "ConfigDownloadQuery", "CruiseTrackQuery",
                "AlarmQuery", "MobilePositionQuery"} :
          SoundMessage(Queries[k].format, Except(Lost, k),
                       IF k = "CatalogQuery" THEN {"DeviceID"} ELSE {})
  BY <1>2, <1>3, <1>4, <1>5, <1>6, <1>7, LostInRequests, QueryFormats DEF QueryKinds
<1> QED BY <1>1, <1>8, <1>9, <1>10, QueryDomain DEF QueryKinds

(* Every control.                                                          *)
LEMMA ControlsSound ==
    \A k \in DOMAIN Controls : SoundMessage(Controls[k].format, Except(Lost, k), {})
<1>1. SoundMessage(Control(PTZCmdFields, PTZCmdWrite, PTZCmdRead), {}, {})
  <2>1. /\ Usual(PTZCmdFields)
        /\ DOMAIN PTZCmdFields = {"PTZCmd", "PTZCmdParams"}
        /\ PTZCmdFields["PTZCmd"] = "number"
    <3>1. Usual(PTZCmdFields)
      BY DEF Usual, Classes, PTZCmdFields, Of, ++
    <3>2. /\ DOMAIN PTZCmdFields = {"PTZCmd", "PTZCmdParams"}
          /\ PTZCmdFields["PTZCmd"] = "number"
      BY DEF PTZCmdFields, Of, ++
    <3> QED BY <3>1, <3>2
  <2>2. Simple(PTZCmdFields, PTZCmdWrite, PTZCmdRead, {})
    BY <2>1, WholeSimple, ReadNeeds, WriteNeeds DEF PTZCmdWrite, PTZCmdRead
  <2>3. PTZCmdWrite.always \cap {"DeviceID", "Reason", "ExtraInfo"} = {} /\ PTZCmdRead.derefs = {}
    BY <2>1, WritesTable, ReadsTable, NeedsWrite, NeedsRead DEF PTZCmdWrite, PTZCmdRead
  <2> QED BY <2>1, <2>2, <2>3, ControlSound
<1>2. SoundMessage(Control(TeleBootFields, TeleBootWrite, TeleBootRead), {}, {})
  <2>1. /\ Usual(TeleBootFields)
        /\ DOMAIN TeleBootFields = {"TeleBoot"}
        /\ TeleBootFields["TeleBoot"] = "number"
    <3>1. Usual(TeleBootFields)
      BY DEF Usual, Classes, TeleBootFields, Of, ++
    <3>2. /\ DOMAIN TeleBootFields = {"TeleBoot"}
          /\ TeleBootFields["TeleBoot"] = "number"
      BY DEF TeleBootFields, Of, ++
    <3> QED BY <3>1, <3>2
  <2>2. Simple(TeleBootFields, TeleBootWrite, TeleBootRead, {})
    BY <2>1, WholeSimple, ReadNeeds, WriteNeeds DEF TeleBootWrite, TeleBootRead
  <2>3. TeleBootWrite.always \cap {"DeviceID", "Reason", "ExtraInfo"} = {}
        /\ TeleBootRead.derefs = {}
    BY <2>1, WritesTable, ReadsTable, NeedsWrite, NeedsRead DEF TeleBootWrite, TeleBootRead
  <2> QED BY <2>1, <2>2, <2>3, ControlSound
<1>3. SoundMessage(Control(RecordCmdFields, RecordCmdWrite, RecordCmdRead), {}, {})
  <2>1. /\ Usual(RecordCmdFields)
        /\ DOMAIN RecordCmdFields = {"RecordCmd", "StreamNumber"}
        /\ RecordCmdFields["RecordCmd"] = "enum"
    <3>1. Usual(RecordCmdFields)
      BY DEF Usual, Classes, RecordCmdFields, Of, ++
    <3>2. /\ DOMAIN RecordCmdFields = {"RecordCmd", "StreamNumber"}
          /\ RecordCmdFields["RecordCmd"] = "enum"
      BY DEF RecordCmdFields, Of, ++
    <3> QED BY <3>1, <3>2
  <2>2. Simple(RecordCmdFields, RecordCmdWrite, RecordCmdRead, {})
    BY <2>1, WholeSimple, ReadNeeds, WriteNeeds DEF RecordCmdWrite, RecordCmdRead
  <2>3. RecordCmdWrite.always \cap {"DeviceID", "Reason", "ExtraInfo"} = {}
        /\ RecordCmdRead.derefs = {}
    BY <2>1, WritesTable, ReadsTable, NeedsWrite, NeedsRead DEF RecordCmdWrite, RecordCmdRead
  <2> QED BY <2>1, <2>2, <2>3, ControlSound
<1>4. SoundMessage(Control(GuardCmdFields, GuardCmdWrite, GuardCmdRead), {}, {})
  <2>1. /\ Usual(GuardCmdFields)
        /\ DOMAIN GuardCmdFields = {"GuardCmd"}
        /\ GuardCmdFields["GuardCmd"] = "enum"
    <3>1. Usual(GuardCmdFields)
      BY DEF Usual, Classes, GuardCmdFields, Of, ++
    <3>2. /\ DOMAIN GuardCmdFields = {"GuardCmd"}
          /\ GuardCmdFields["GuardCmd"] = "enum"
      BY DEF GuardCmdFields, Of, ++
    <3> QED BY <3>1, <3>2
  <2>2. Simple(GuardCmdFields, GuardCmdWrite, GuardCmdRead, {})
    BY <2>1, WholeSimple, ReadNeeds, WriteNeeds DEF GuardCmdWrite, GuardCmdRead
  <2>3. GuardCmdWrite.always \cap {"DeviceID", "Reason", "ExtraInfo"} = {}
        /\ GuardCmdRead.derefs = {}
    BY <2>1, WritesTable, ReadsTable, NeedsWrite, NeedsRead DEF GuardCmdWrite, GuardCmdRead
  <2> QED BY <2>1, <2>2, <2>3, ControlSound
<1>5. SoundMessage(Control(AlarmCmdFields, AlarmCmdWrite, AlarmCmdRead), {}, {})
  <2>1. /\ Usual(AlarmCmdFields)
        /\ DOMAIN AlarmCmdFields = {"AlarmCmd", "Info"}
        /\ AlarmCmdFields["AlarmCmd"] = "number"
    <3>1. Usual(AlarmCmdFields)
      BY DEF Usual, Classes, AlarmCmdFields, Of, ++
    <3>2. /\ DOMAIN AlarmCmdFields = {"AlarmCmd", "Info"}
          /\ AlarmCmdFields["AlarmCmd"] = "number"
      BY DEF AlarmCmdFields, Of, ++
    <3> QED BY <3>1, <3>2
  <2>2. Simple(AlarmCmdFields, AlarmCmdWrite, AlarmCmdRead, {})
    BY <2>1, WholeSimple, ReadNeeds, WriteNeeds DEF AlarmCmdWrite, AlarmCmdRead
  <2>3. AlarmCmdWrite.always \cap {"DeviceID", "Reason", "ExtraInfo"} = {}
        /\ AlarmCmdRead.derefs = {}
    BY <2>1, WritesTable, ReadsTable, NeedsWrite, NeedsRead DEF AlarmCmdWrite, AlarmCmdRead
  <2> QED BY <2>1, <2>2, <2>3, ControlSound
<1>6. SoundMessage(Control(IFrameFields, IFrameWrite, IFrameRead), {}, {})
  <2>1. /\ Usual(IFrameFields)
        /\ DOMAIN IFrameFields = {"IFrameCmd", "IFameCmd"}
        /\ IFrameFields["IFrameCmd"] = "number"
    <3>1. Usual(IFrameFields)
      BY DEF Usual, Classes, IFrameFields, Of, ++
    <3>2. /\ DOMAIN IFrameFields = {"IFrameCmd", "IFameCmd"}
          /\ IFrameFields["IFrameCmd"] = "number"
      BY DEF IFrameFields, Of, ++
    <3> QED BY <3>1, <3>2
  <2>2. Simple(IFrameFields, IFrameWrite, IFrameRead, {})
    BY <2>1, WholeSimple, ReadNeeds, WriteNeeds DEF IFrameWrite, IFrameRead
  <2>3. IFrameWrite.always \cap {"DeviceID", "Reason", "ExtraInfo"} = {} /\ IFrameRead.derefs = {}
    BY <2>1, WritesTable, ReadsTable, NeedsWrite, NeedsRead DEF IFrameWrite, IFrameRead
  <2> QED BY <2>1, <2>2, <2>3, ControlSound
<1>7. SoundMessage(Control(DragZoomInFields, DragZoomInWrite, DragZoomInRead), {}, {})
  <2>1. /\ Usual(DragZoomInFields)
        /\ DOMAIN DragZoomInFields = {"Length", "Width", "MidPointX", "MidPointY", "LengthX",
              "LengthY"}
    <3>1. Usual(DragZoomInFields)
      BY DEF Usual, Classes, DragZoomInFields, DragZoomType, Of, ++
    <3>2. /\ DOMAIN DragZoomInFields = {"Length", "Width", "MidPointX", "MidPointY", "LengthX",
                "LengthY"}
      BY DEF DragZoomInFields, DragZoomType, Of, ++
    <3> QED BY <3>1, <3>2
  <2>2. Simple(DragZoomInFields, DragZoomInWrite, DragZoomInRead, {})
    BY <2>1, WholeSimple, ReadNeeds, WriteNeeds
          DEF DragZoomInFields, DragZoomInWrite, DragZoomInRead
  <2>3. DragZoomInWrite.always \cap {"DeviceID", "Reason", "ExtraInfo"} = {}
        /\ DragZoomInRead.derefs = {}
    BY <2>1, WritesTable, ReadsTable, NeedsWrite, NeedsRead
          DEF DragZoomInFields, DragZoomInWrite, DragZoomInRead
  <2> QED BY <2>1, <2>2, <2>3, ControlSound
<1>8. SoundMessage(Control(HomePositionCmdFields, HomePositionCmdWrite, HomePositionCmdRead),
      {}, {})
  <2>1. /\ Usual(HomePositionCmdFields)
        /\ DOMAIN HomePositionCmdFields = {"Enabled", "PresetIndex", "ResetTime"}
        /\ HomePositionCmdFields["Enabled"] = "number"
    <3>1. Usual(HomePositionCmdFields)
      BY DEF Usual, Classes, HomePositionCmdFields, HomePositionType, Of, ++
    <3>2. /\ DOMAIN HomePositionCmdFields = {"Enabled", "PresetIndex", "ResetTime"}
          /\ HomePositionCmdFields["Enabled"] = "number"
      BY DEF HomePositionCmdFields, HomePositionType, Of, ++
    <3> QED BY <3>1, <3>2
  <2>2. Simple(HomePositionCmdFields, HomePositionCmdWrite, HomePositionCmdRead, {})
    BY <2>1, WholeSimple, ReadNeeds, WriteNeeds DEF HomePositionCmdWrite, HomePositionCmdRead
  <2>3. HomePositionCmdWrite.always \cap {"DeviceID", "Reason", "ExtraInfo"} = {}
        /\ HomePositionCmdRead.derefs = {}
    BY <2>1, WritesTable, ReadsTable, NeedsWrite, NeedsRead
          DEF HomePositionCmdWrite, HomePositionCmdRead
  <2> QED BY <2>1, <2>2, <2>3, ControlSound
<1>9. SoundMessage(Control(PtzPreciseFields, PtzPreciseWrite, PtzPreciseRead), {}, {})
  <2>1. /\ Usual(PtzPreciseFields)
        /\ DOMAIN PtzPreciseFields = {"PTZPreciseCtrl"}
        /\ PtzPreciseFields["PTZPreciseCtrl"] = "part"
    <3>1. Usual(PtzPreciseFields)
      BY DEF Usual, Classes, PtzPreciseFields, Of, ++
    <3>2. /\ DOMAIN PtzPreciseFields = {"PTZPreciseCtrl"}
          /\ PtzPreciseFields["PTZPreciseCtrl"] = "part"
      BY DEF PtzPreciseFields, Of, ++
    <3> QED BY <3>1, <3>2
  <2>2. Simple(PtzPreciseFields, PtzPreciseWrite, PtzPreciseRead, {})
    BY <2>1, WholeSimple, ReadNeeds, WriteNeeds DEF PtzPreciseWrite, PtzPreciseRead
  <2>3. PtzPreciseWrite.always \cap {"DeviceID", "Reason", "ExtraInfo"} = {}
        /\ PtzPreciseRead.derefs = {}
    BY <2>1, WritesTable, ReadsTable, NeedsWrite, NeedsRead DEF PtzPreciseWrite, PtzPreciseRead
  <2> QED BY <2>1, <2>2, <2>3, ControlSound
<1>10. SoundMessage(Control(DeviceUpgradeFields, DeviceUpgradeWrite, DeviceUpgradeRead), {}, {})
  <2>1. /\ Usual(DeviceUpgradeFields)
        /\ DOMAIN DeviceUpgradeFields = {"Firmware", "FileURL", "Manufacturer", "SessionID"}
    <3>1. Usual(DeviceUpgradeFields)
      BY DEF Usual, Classes, DeviceUpgradeFields, DeviceUpgradeType, Of, ++
    <3>2. /\ DOMAIN DeviceUpgradeFields = {"Firmware", "FileURL", "Manufacturer", "SessionID"}
      BY DEF DeviceUpgradeFields, DeviceUpgradeType, Of, ++
    <3> QED BY <3>1, <3>2
  <2>2. Simple(DeviceUpgradeFields, DeviceUpgradeWrite, DeviceUpgradeRead, {})
    BY <2>1, WholeSimple, ReadNeeds, WriteNeeds
          DEF DeviceUpgradeFields, DeviceUpgradeWrite, DeviceUpgradeRead
  <2>3. DeviceUpgradeWrite.always \cap {"DeviceID", "Reason", "ExtraInfo"} = {}
        /\ DeviceUpgradeRead.derefs = {}
    BY <2>1, WritesTable, ReadsTable, NeedsWrite, NeedsRead
          DEF DeviceUpgradeFields, DeviceUpgradeWrite, DeviceUpgradeRead
  <2> QED BY <2>1, <2>2, <2>3, ControlSound
<1>11. SoundMessage(Control(FormatSDFields, FormatSDWrite, FormatSDRead), {}, {})
  <2>1. /\ Usual(FormatSDFields)
        /\ DOMAIN FormatSDFields = {"FormatSDCard"}
        /\ FormatSDFields["FormatSDCard"] = "number"
    <3>1. Usual(FormatSDFields)
      BY DEF Usual, Classes, FormatSDFields, Of, ++
    <3>2. /\ DOMAIN FormatSDFields = {"FormatSDCard"}
          /\ FormatSDFields["FormatSDCard"] = "number"
      BY DEF FormatSDFields, Of, ++
    <3> QED BY <3>1, <3>2
  <2>2. Simple(FormatSDFields, FormatSDWrite, FormatSDRead, {})
    BY <2>1, WholeSimple, ReadNeeds, WriteNeeds DEF FormatSDWrite, FormatSDRead
  <2>3. FormatSDWrite.always \cap {"DeviceID", "Reason", "ExtraInfo"} = {}
        /\ FormatSDRead.derefs = {}
    BY <2>1, WritesTable, ReadsTable, NeedsWrite, NeedsRead DEF FormatSDWrite, FormatSDRead
  <2> QED BY <2>1, <2>2, <2>3, ControlSound
<1>12. SoundMessage(Control(TargetTrackFields, TargetTrackWrite, TargetTrackRead), {}, {})
  <2>1. /\ Usual(TargetTrackFields)
        /\ DOMAIN TargetTrackFields = {"TargetTrack", "DeviceID2", "TargetArea"}
        /\ TargetTrackFields["TargetTrack"] = "enum"
    <3>1. Usual(TargetTrackFields)
      BY DEF Usual, Classes, TargetTrackFields, Of, ++
    <3>2. /\ DOMAIN TargetTrackFields = {"TargetTrack", "DeviceID2", "TargetArea"}
          /\ TargetTrackFields["TargetTrack"] = "enum"
      BY DEF TargetTrackFields, Of, ++
    <3> QED BY <3>1, <3>2
  <2>2. Simple(TargetTrackFields, TargetTrackWrite, TargetTrackRead, {})
    BY <2>1, WholeSimple, ReadNeeds, WriteNeeds DEF TargetTrackWrite, TargetTrackRead
  <2>3. TargetTrackWrite.always \cap {"DeviceID", "Reason", "ExtraInfo"} = {}
        /\ TargetTrackRead.derefs = {}
    BY <2>1, WritesTable, ReadsTable, NeedsWrite, NeedsRead DEF TargetTrackWrite, TargetTrackRead
  <2> QED BY <2>1, <2>2, <2>3, ControlSound
<1>13. SoundMessage(Control(DragZoomOutFields, DragZoomOutWrite, DragZoomOutRead),
      DOMAIN DragZoomType, {})
  <2>1. /\ Usual(DragZoomOutFields)
        /\ DOMAIN DragZoomOutFields =
              {"Length", "Width", "MidPointX", "MidPointY", "LengthX", "LengthY"}
        /\ DragZoomOutFields = DragZoomType
    <3>1. Usual(DragZoomOutFields)
      BY DEF Usual, Classes, DragZoomOutFields, DragZoomType, Of, ++
    <3>2. /\ DOMAIN DragZoomOutFields =
                {"Length", "Width", "MidPointX", "MidPointY", "LengthX", "LengthY"}
          /\ DragZoomOutFields = DragZoomType
      BY DEF DragZoomOutFields, DragZoomType, Of, ++
    <3> QED BY <3>1, <3>2
  <2>2. Simple(DragZoomOutFields, Writes(DOMAIN DragZoomType, {}), Reads({}), DOMAIN DragZoomType)
    BY <2>1, PartSimple DEF Usual, Classes
  <2>3. Simple(DragZoomOutFields, DragZoomOutWrite, DragZoomOutRead, DOMAIN DragZoomType)
    BY <2>1, <2>2, ReadNeeds, WriteNeeds DEF DragZoomOutWrite, DragZoomOutRead
  <2>4. DragZoomOutWrite.always \cap {"DeviceID", "Reason", "ExtraInfo"} = {}
        /\ DragZoomOutRead.derefs = {}
    BY <2>1, WritesTable, ReadsTable, NeedsWrite, NeedsRead DEF DragZoomOutWrite, DragZoomOutRead
  <2> QED BY <2>1, <2>3, <2>4, ControlSound
<1>14. SoundMessage(Message(DeviceConfigFields, DeviceConfigWrite, DeviceConfigRead), {}, {})
  <2>1. /\ DOMAIN DeviceConfigFields = {"Config"} /\ DeviceConfigFields["Config"] = "config"
    BY DEF Usual, Classes, DeviceConfigFields, Of, ++
  <2>2. Simple(DeviceConfigFields, Writes({"Config"}, {}), Reads({"Config"}), {})
    BY <2>1, PartSimple DEF Usual, Classes
  <2>3. Simple(DeviceConfigFields, DeviceConfigWrite, DeviceConfigRead, {})
    BY <2>1, <2>2, ReadNeeds, WriteNeeds DEF DeviceConfigWrite, DeviceConfigRead
  <2>4. DeviceConfigWrite.always \cap BaseNames = {} /\ DeviceConfigRead.derefs = {}
    BY <2>1, WritesTable, ReadsTable, NeedsWrite, NeedsRead
          DEF DeviceConfigWrite, DeviceConfigRead, BaseNames
  <2> QED BY <2>1, <2>3, <2>4, MessageSound DEF BaseNames
<1>15. \A k \in {"PTZCmd", "TeleBoot", "RecordCmd", "GuardCmd", "AlarmCmd", "IFrameCmd",
      "DragZoomIn"} :
         SoundMessage(Controls[k].format, Except(Lost, k), {})
  BY <1>1, <1>2, <1>3, <1>4, <1>5, <1>6, <1>7, LostInRequests, ControlFormats
     DEF ControlKinds
<1>16. \A k \in {"DragZoomOut", "HomePosition", "PTZPreciseCtrl", "DeviceUpgrade", "FormatSDCard",
                "TargetTrack", "DeviceConfig"} :
         SoundMessage(Controls[k].format, Except(Lost, k), {})
  BY <1>8, <1>9, <1>10, <1>11, <1>12, <1>13, <1>14, LostInRequests, ControlFormats
     DEF ControlKinds
<1> QED BY <1>15, <1>16, ControlDomain DEF ControlKinds

(* Every notification that is read.                                        *)
LEMMA NotificationsSound ==
    \A k \in DOMAIN Notifications \ {"Keepalive"} :
        SoundMessage(Notifications[k].format, Except(Lost, k), {})
<1>1. SoundMessage(Format(BroadcastFields, BroadcastWrite, BroadcastRead), {}, {})
  <2>1. /\ DOMAIN BroadcastFields = {"SourceID", "TargetID", "Reason"}
        /\ BroadcastFields["SourceID"] = "text" /\ BroadcastFields["TargetID"] = "text"
        /\ BroadcastFields["Reason"] = "raw"
    BY DEF BroadcastFields, Of, ++
  <2>2. /\ BroadcastWrite.always = {"SourceID", "TargetID"} /\ BroadcastWrite.ifset = {"Reason"}
        /\ BroadcastWrite.under = <<>> /\ BroadcastWrite.tag = <<>>
    BY WritesTable DEF BroadcastWrite
  <2>3. /\ BroadcastRead.fields = DOMAIN BroadcastFields
        /\ BroadcastRead.needs = {{"SourceID"}, {"TargetID"}}
        /\ BroadcastRead.derefs = {} /\ BroadcastRead.first = {} /\ BroadcastRead.tag = <<>>
    BY ReadsTable, NeedsRead DEF BroadcastRead
  <2>4. \A f : TagOf(BroadcastWrite, f) = f /\ TagOf(BroadcastRead, f) = f
    BY <2>2, <2>3, NoTags
  <2> QED BY <2>1, <2>2, <2>3, <2>4, FormatTable
        DEF Sound, SoundMessage, Straight, Carries, Members, Classes
<1>2. SoundMessage(Message(AlarmFields, AlarmWrite, AlarmRead), {}, {})
  <2> DEFINE m == Message(AlarmFields, AlarmWrite, AlarmRead)
  <2>1. /\ DOMAIN AlarmFields =
              {"AlarmPriority", "AlarmMethod", "AlarmTime", "AlarmDescription", "Longitude",
               "Latitude", "AlarmType", "EventType", "ExtraInfo"}
        /\ \A f \in DOMAIN AlarmFields : AlarmFields[f] \in {"text", "number", "list"}
    BY DEF AlarmFields, Of, ++
  <2>2. /\ IsWriter(AlarmWrite) /\ AlarmWrite.tag = <<>>
        /\ AlarmWrite.always = {"AlarmPriority", "AlarmMethod", "AlarmTime", "AlarmDescription"}
        /\ AlarmWrite.ifset = {"Longitude", "Latitude", "AlarmType", "EventType", "ExtraInfo"}
        /\ AlarmWrite.under = [EventType |-> "AlarmType"]
    BY WritesTable, UnderWrite DEF AlarmWrite
  <2>3. /\ IsReader(AlarmRead) /\ AlarmRead.tag = <<>> /\ AlarmRead.needs = {}
        /\ AlarmRead.fields = DOMAIN AlarmFields /\ AlarmRead.derefs = {} /\ AlarmRead.first = {}
    BY ReadsTable DEF AlarmRead
  <2>4. DOMAIN AlarmFields \cap BaseNames = {}
    BY <2>1 DEF BaseNames
  <2>5. /\ DOMAIN m.fields = DOMAIN AlarmFields \cup BaseNames
        /\ \A f \in DOMAIN AlarmFields : m.fields[f] \in {"text", "number", "list"}
        /\ \A f \in BaseNames : m.fields[f] = "raw"
    BY <2>4, <2>1, <2>2, <2>3, MessageTables
  <2>6. /\ m.write.always = AlarmWrite.always /\ m.write.ifset = AlarmWrite.ifset \cup BaseNames
        /\ m.write.under = [EventType |-> "AlarmType"]
        /\ m.read.fields = DOMAIN m.fields /\ m.read.needs = {} /\ m.read.derefs = {}
        /\ m.read.first = {}
        /\ \A f : TagOf(m.write, f) = f /\ TagOf(m.read, f) = f
    BY <2>2, <2>3, <2>5, MessageTables, NoTags
  <2> HIDE DEF m
  <2>7. Straight(m)
    BY <2>5, <2>6 DEF Straight, Classes
  <2>8. ASSUME NEW f \in DOMAIN m.fields PROVE Carries(m, f)
    <3>1. f \in Members(m) /\ f \in m.read.fields /\ m.fields[f] \notin {"stamp", "config"}
      BY <2>1, <2>2, <2>5, <2>6 DEF Members
    <3>2. CASE f = "EventType"
      BY <2>2, <2>6, <3>1, <3>2 DEF Carries
    <3>3. CASE f # "EventType"
      BY <2>6, <3>1, <3>3 DEF Carries
    <3> QED BY <3>2, <3>3
  <2>9. \A f \in DOMAIN m.fields \cap m.write.always : m.fields[f] # "raw"
    BY <2>1, <2>2, <2>5, <2>6 DEF BaseNames
  <2>10. m.fields["DeviceID"] = "raw"
    BY <2>5 DEF BaseNames
  <2>11. SoundMessage(m, {}, {})
    BY <2>6, <2>7, <2>8, <2>9, <2>10 DEF Sound, SoundMessage
  <2> QED BY <2>11 DEF m
<1>3. SoundMessage(Message(CatalogFields, CatalogWrite, CatalogRead), {}, {})
  <2>1. /\ Usual(CatalogFields)
        /\ DOMAIN CatalogFields = {"SumNum", "DeviceList", "ExtraInfo"}
    <3>1. Usual(CatalogFields)
      BY DEF Usual, Classes, CatalogFields, Of, ++
    <3>2. /\ DOMAIN CatalogFields = {"SumNum", "DeviceList", "ExtraInfo"}
      BY DEF CatalogFields, Of, ++
    <3> QED BY <3>1, <3>2
  <2>2. Simple(CatalogFields, CatalogWrite, CatalogRead, {})
    BY <2>1, WholeSimple, ReadNeeds, WriteNeeds DEF CatalogWrite, CatalogRead
  <2>3. CatalogWrite.always \cap BaseNames = {} /\ CatalogRead.derefs = {}
    BY <2>1, WritesTable, ReadsTable, NeedsWrite, NeedsRead
          DEF CatalogWrite, CatalogRead, BaseNames
  <2> QED BY <2>1, <2>2, <2>3, MessageSound DEF BaseNames
<1>4. SoundMessage(Message(MediaStatusFields, MediaStatusWrite, MediaStatusRead), {}, {})
  <2>1. /\ Usual(MediaStatusFields)
        /\ DOMAIN MediaStatusFields = {"NotifyType"}
        /\ MediaStatusFields["NotifyType"] = "text"
    <3>1. Usual(MediaStatusFields)
      BY DEF Usual, Classes, MediaStatusFields, Of, ++
    <3>2. /\ DOMAIN MediaStatusFields = {"NotifyType"}
          /\ MediaStatusFields["NotifyType"] = "text"
      BY DEF MediaStatusFields, Of, ++
    <3> QED BY <3>1, <3>2
  <2>2. Simple(MediaStatusFields, MediaStatusWrite, MediaStatusRead, {})
    BY <2>1, WholeSimple, ReadNeeds, WriteNeeds DEF MediaStatusWrite, MediaStatusRead
  <2>3. MediaStatusWrite.always \cap BaseNames = {} /\ MediaStatusRead.derefs = {}
    BY <2>1, WritesTable, ReadsTable, NeedsWrite, NeedsRead
          DEF MediaStatusWrite, MediaStatusRead, BaseNames
  <2> QED BY <2>1, <2>2, <2>3, MessageSound DEF BaseNames
<1>5. SoundMessage(Message(MobilePositionFields, MobilePositionWrite, MobilePositionRead), {}, {})
  <2>1. /\ DOMAIN MobilePositionFields = {"Time", "SumNum", "DeviceList"}
        /\ \A f \in DOMAIN MobilePositionFields :
              MobilePositionFields[f] \in {"stamp", "number", "items"}
    BY DEF MobilePositionFields, Of, ++
  <2>2. Simple(MobilePositionFields, Writes(DOMAIN MobilePositionFields, {}),
        Reads(DOMAIN MobilePositionFields), {})
    BY <2>1, PartSimple DEF Usual, Classes
  <2>3. Simple(MobilePositionFields, MobilePositionWrite, MobilePositionRead, {})
    BY <2>1, <2>2, ReadNeeds, WriteNeeds DEF MobilePositionWrite, MobilePositionRead
  <2>4. MobilePositionWrite.always \cap BaseNames = {} /\ MobilePositionRead.derefs = {}
    BY <2>1, WritesTable, ReadsTable, NeedsWrite, NeedsRead
          DEF MobilePositionWrite, MobilePositionRead, BaseNames
  <2> QED BY <2>1, <2>3, <2>4, MessageSound DEF BaseNames
<1>6. SoundMessage(Message(PTZPositionFields, PTZNotifyWrite, PTZNotifyRead), {}, {})
  <2>1. /\ Usual(PTZPositionFields)
        /\ DOMAIN PTZPositionFields = {"Pan", "Tilt", "Zoom", "HorizontalFieldAngle",
              "VerticalFieldAngle", "MaxViewDistance"}
    <3>1. Usual(PTZPositionFields)
      BY DEF Usual, Classes, PTZPositionFields, Of, ++
    <3>2. /\ DOMAIN PTZPositionFields = {"Pan", "Tilt", "Zoom", "HorizontalFieldAngle",
                "VerticalFieldAngle", "MaxViewDistance"}
      BY DEF PTZPositionFields, Of, ++
    <3> QED BY <3>1, <3>2
  <2>2. Simple(PTZPositionFields, PTZNotifyWrite, PTZNotifyRead, {})
    BY <2>1, WholeSimple, ReadNeeds, WriteNeeds DEF PTZNotifyWrite, PTZNotifyRead
  <2>3. PTZNotifyWrite.always \cap BaseNames = {} /\ PTZNotifyRead.derefs = {}
    BY <2>1, WritesTable, ReadsTable, NeedsWrite, NeedsRead
          DEF PTZNotifyWrite, PTZNotifyRead, BaseNames
  <2> QED BY <2>1, <2>2, <2>3, MessageSound DEF BaseNames
<1>7. SoundMessage(Message(SnapShotFinishedFields, SnapShotFinishedWrite,
      SnapShotFinishedRead), {}, {})
  <2>1. /\ Usual(SnapShotFinishedFields)
        /\ DOMAIN SnapShotFinishedFields = {"SessionID", "SnapShotList"}
        /\ SnapShotFinishedFields["SessionID"] = "text"
        /\ SnapShotFinishedFields["SnapShotList"] = "list"
    <3>1. Usual(SnapShotFinishedFields)
      BY DEF Usual, Classes, SnapShotFinishedFields, Of, ++
    <3>2. /\ DOMAIN SnapShotFinishedFields = {"SessionID", "SnapShotList"}
          /\ SnapShotFinishedFields["SessionID"] = "text"
          /\ SnapShotFinishedFields["SnapShotList"] = "list"
      BY DEF SnapShotFinishedFields, Of, ++
    <3> QED BY <3>1, <3>2
  <2>2. Simple(SnapShotFinishedFields, SnapShotFinishedWrite, SnapShotFinishedRead, {})
    BY <2>1, WholeSimple, ReadNeeds, WriteNeeds DEF SnapShotFinishedWrite, SnapShotFinishedRead
  <2>3. SnapShotFinishedWrite.always \cap BaseNames = {} /\ SnapShotFinishedRead.derefs = {}
    BY <2>1, WritesTable, ReadsTable, NeedsWrite, NeedsRead
          DEF SnapShotFinishedWrite, SnapShotFinishedRead, BaseNames
  <2> QED BY <2>1, <2>2, <2>3, MessageSound DEF BaseNames
<1>8. SoundMessage(Message(VideoUploadFields, VideoUploadWrite, VideoUploadRead), {}, {})
  <2>1. /\ DOMAIN VideoUploadFields = {"Time", "Longitude", "Latitude"}
        /\ VideoUploadFields["Time"] = "stamp"
        /\ \A f \in DOMAIN VideoUploadFields : VideoUploadFields[f] \in {"stamp", "optional"}
    BY DEF VideoUploadFields, Of, ++
  <2>2. Simple(VideoUploadFields, Writes(DOMAIN VideoUploadFields, {}),
        Reads(DOMAIN VideoUploadFields), {})
    BY <2>1, PartSimple DEF Usual, Classes
  <2>3. Simple(VideoUploadFields, VideoUploadWrite, VideoUploadRead, {})
    BY <2>1, <2>2, ReadNeeds, WriteNeeds DEF VideoUploadWrite, VideoUploadRead
  <2>4. VideoUploadWrite.always \cap BaseNames = {} /\ VideoUploadRead.derefs = {}
    BY <2>1, WritesTable, ReadsTable, NeedsWrite, NeedsRead
          DEF VideoUploadWrite, VideoUploadRead, BaseNames
  <2> QED BY <2>1, <2>3, <2>4, MessageSound DEF BaseNames
<1>9. SoundMessage(Message(UpgradeResultFields, UpgradeResultWrite, UpgradeResultRead), {}, {})
  <2>1. /\ Usual(UpgradeResultFields)
        /\ DOMAIN UpgradeResultFields = {"Result", "SessionID", "Firmware"}
        /\ UpgradeResultFields["Result"] = "result"
        /\ UpgradeResultFields["SessionID"] = "text"
    <3>1. Usual(UpgradeResultFields)
      BY DEF Usual, Classes, UpgradeResultFields, ResultField, Of, ++
    <3>2. /\ DOMAIN UpgradeResultFields = {"Result", "SessionID", "Firmware"}
          /\ UpgradeResultFields["Result"] = "result"
          /\ UpgradeResultFields["SessionID"] = "text"
      BY DEF UpgradeResultFields, ResultField, Of, ++
    <3> QED BY <3>1, <3>2
  <2>2. Simple(UpgradeResultFields, UpgradeResultWrite, UpgradeResultRead, {})
    BY <2>1, WholeSimple, ReadNeeds, WriteNeeds DEF UpgradeResultWrite, UpgradeResultRead
  <2>3. UpgradeResultWrite.always \cap BaseNames = {} /\ UpgradeResultRead.derefs = {}
    BY <2>1, WritesTable, ReadsTable, NeedsWrite, NeedsRead
          DEF UpgradeResultWrite, UpgradeResultRead, BaseNames
  <2> QED BY <2>1, <2>2, <2>3, MessageSound DEF BaseNames
<1> QED
  BY <1>1, <1>2, <1>3, <1>4, <1>5, <1>6, <1>7, <1>8, <1>9, LostInRequests,
     NotificationFormats, NotificationDomain
     DEF NotificationKinds

(* The members the two sides of an answer disagree about.                  *)
LEMMA LostInAnswers ==
    /\ Except(LostInAnswer, "RecordInfo") = {"ExtraInfo"}
    /\ Except(LostInAnswer, "CruiseTrackQuery") = {"Name"}
    /\ \A c : c \notin {"RecordInfo", "CruiseTrackQuery"} => Except(LostInAnswer, c) = {}
BY DEF Except, LostInAnswer

(* Every answer.                                                           *)
LEMMA ResponsesSound ==
    \A c \in DOMAIN Responses :
        SoundMessage(Responses[c], Except(LostInAnswer, c), IF c = "DeviceStatus"
              THEN {"Reason"} ELSE {})
<1>1. SoundMessage(Message(DeviceStatusFields, DeviceStatusWrite, DeviceStatusRead), {},
      {"Reason"})
  <2>1. /\ Usual(DeviceStatusFields)
        /\ DOMAIN DeviceStatusFields = {"Result", "Online", "Status", "Encode", "Record",
              "DeviceTime", "Alarmstatus", "Info"}
        /\ DeviceStatusFields["Result"] = "result"
        /\ DeviceStatusFields["Online"] = "enum"
        /\ DeviceStatusFields["Status"] = "enum"
    <3>1. Usual(DeviceStatusFields)
      BY DEF Usual, Classes, DeviceStatusFields, ResultField, Of, ++
    <3>2. /\ DOMAIN DeviceStatusFields = {"Result", "Online", "Status", "Encode", "Record",
                "DeviceTime", "Alarmstatus", "Info"}
          /\ DeviceStatusFields["Result"] = "result"
          /\ DeviceStatusFields["Online"] = "enum"
          /\ DeviceStatusFields["Status"] = "enum"
      BY DEF DeviceStatusFields, ResultField, Of, ++
    <3> QED BY <3>1, <3>2
  <2>2. Simple(DeviceStatusFields, DeviceStatusWrite, DeviceStatusRead, {})
    BY <2>1, WholeSimple, ReadNeeds, WriteNeeds DEF DeviceStatusWrite, DeviceStatusRead
  <2>3. DeviceStatusWrite.always \cap BaseNames \subseteq {"Reason"}
        /\ DeviceStatusRead.derefs = {}
    BY <2>1, WritesTable, ReadsTable, NeedsWrite, NeedsRead
          DEF DeviceStatusWrite, DeviceStatusRead, BaseNames
  <2>4. DOMAIN DeviceStatusFields \cap BaseNames = {}
    BY <2>1 DEF BaseNames
  <2> QED BY <2>2, <2>3, <2>4, MessageSound
<1>2. SoundMessage(Message(DeviceInfoFields, DeviceInfoWrite, DeviceInfoRead), {}, {})
  <2>1. /\ Usual(DeviceInfoFields)
        /\ DOMAIN DeviceInfoFields = {"Result", "DeviceName", "Manufacturer", "Model",
              "Firmware", "Channel", "Info"}
        /\ DeviceInfoFields["Result"] = "result"
    <3>1. Usual(DeviceInfoFields)
      BY DEF Usual, Classes, DeviceInfoFields, ResultField, Of, ++
    <3>2. /\ DOMAIN DeviceInfoFields = {"Result", "DeviceName", "Manufacturer", "Model",
                "Firmware", "Channel", "Info"}
          /\ DeviceInfoFields["Result"] = "result"
      BY DEF DeviceInfoFields, ResultField, Of, ++
    <3> QED BY <3>1, <3>2
  <2>2. Simple(DeviceInfoFields, DeviceInfoWrite, DeviceInfoRead, {})
    BY <2>1, WholeSimple, ReadNeeds, WriteNeeds DEF DeviceInfoWrite, DeviceInfoRead
  <2>3. DeviceInfoWrite.always \cap BaseNames = {} /\ DeviceInfoRead.derefs = {}
    BY <2>1, WritesTable, ReadsTable, NeedsWrite, NeedsRead
          DEF DeviceInfoWrite, DeviceInfoRead, BaseNames
  <2> QED BY <2>1, <2>2, <2>3, MessageSound DEF BaseNames
<1>3. SoundMessage(Message(CatalogFields, CatalogWrite, CatalogRead), {}, {})
  <2>1. /\ Usual(CatalogFields)
        /\ DOMAIN CatalogFields = {"SumNum", "DeviceList", "ExtraInfo"}
    <3>1. Usual(CatalogFields)
      BY DEF Usual, Classes, CatalogFields, Of, ++
    <3>2. /\ DOMAIN CatalogFields = {"SumNum", "DeviceList", "ExtraInfo"}
      BY DEF CatalogFields, Of, ++
    <3> QED BY <3>1, <3>2
  <2>2. Simple(CatalogFields, CatalogWrite, CatalogRead, {})
    BY <2>1, WholeSimple, ReadNeeds, WriteNeeds DEF CatalogWrite, CatalogRead
  <2>3. CatalogWrite.always \cap BaseNames = {} /\ CatalogRead.derefs = {}
    BY <2>1, WritesTable, ReadsTable, NeedsWrite, NeedsRead
          DEF CatalogWrite, CatalogRead, BaseNames
  <2> QED BY <2>1, <2>2, <2>3, MessageSound DEF BaseNames
<1>4. SoundMessage(Message(RecordInfoFields, RecordInfoWrite, RecordInfoRead), {"ExtraInfo"}, {})
  <2> DEFINE m == Message(RecordInfoFields, RecordInfoWrite, RecordInfoRead)
  <2>1. /\ DOMAIN RecordInfoFields = {"Name", "SumNum", "RecordList", "ExtraInfo"}
        /\ \A f \in DOMAIN RecordInfoFields :
              RecordInfoFields[f] \in {"text", "number", "items", "list"}
    BY DEF RecordInfoFields, Of, ++
  <2>2. IsWriter(RecordInfoWrite)
    BY WritesTable, TagWrite DEF RecordInfoWrite
  <2>3. /\ IsWriter(RecordInfoWrite) /\ RecordInfoWrite.under = <<>>
        /\ RecordInfoWrite.always = {"Name", "SumNum", "RecordList"}
        /\ RecordInfoWrite.ifset = {"ExtraInfo"}
        /\ RecordInfoWrite.tag = [ExtraInfo |-> "RecordList/ExtraInfo"]
    BY <2>2, TaggedWriter DEF RecordInfoWrite
  <2>4. /\ IsReader(RecordInfoRead) /\ RecordInfoRead.tag = <<>> /\ RecordInfoRead.needs = {}
        /\ RecordInfoRead.fields = DOMAIN RecordInfoFields /\ RecordInfoRead.derefs = {}
        /\ RecordInfoRead.first = {}
    BY ReadsTable DEF RecordInfoRead
  <2>5. DOMAIN RecordInfoFields \cap BaseNames = {}
    BY <2>1 DEF BaseNames
  <2>6. /\ DOMAIN m.fields = DOMAIN RecordInfoFields \cup BaseNames
        /\ \A f \in DOMAIN RecordInfoFields :
              m.fields[f] \in {"text", "number", "items", "list"}
        /\ \A f \in BaseNames : m.fields[f] = "raw"
    BY <2>5, <2>1, <2>3, <2>4, MessageTables
  <2>7. /\ m.write.always = RecordInfoWrite.always
        /\ m.write.ifset = RecordInfoWrite.ifset \cup BaseNames /\ m.write.under = <<>>
        /\ m.write.tag = [ExtraInfo |-> "RecordList/ExtraInfo"]
        /\ m.read.fields = DOMAIN m.fields /\ m.read.needs = {} /\ m.read.derefs = {}
        /\ m.read.first = {} /\ \A f : TagOf(m.read, f) = f
    BY <2>3, <2>4, <2>6, MessageTables, NoTags
  <2> HIDE DEF m
  <2>8. /\ TagOf(m.write, "ExtraInfo") = "RecordList/ExtraInfo"
        /\ \A f : f # "ExtraInfo" => TagOf(m.write, f) = f
    BY <2>7 DEF TagOf
  <2>9. Straight(m)
    BY <2>1, <2>6, <2>7, <2>8 DEF Straight, Classes, BaseNames
  <2>10. ASSUME NEW f \in DOMAIN m.fields \ {"ExtraInfo"} PROVE Carries(m, f)
    BY <2>1, <2>3, <2>6, <2>7, <2>8 DEF Members, Carries, BaseNames
  <2>11. \A f \in DOMAIN m.fields \cap m.write.always : m.fields[f] # "raw"
    BY <2>1, <2>3, <2>6, <2>7 DEF BaseNames
  <2>12. m.fields["DeviceID"] = "raw"
    BY <2>6 DEF BaseNames
  <2>13. SoundMessage(m, {"ExtraInfo"}, {})
    BY <2>7, <2>9, <2>10, <2>11, <2>12 DEF Sound, SoundMessage
  <2> QED BY <2>13 DEF m
<1>5. SoundMessage(Message(ConfigDownloadFields, ConfigDownloadWrite, ConfigDownloadRead), {}, {})
  <2>1. /\ DOMAIN ConfigDownloadFields = {"Result"} \cup DeviceConfigTypes
        /\ ConfigDownloadFields["Result"] = "result"
        /\ \A f \in DOMAIN ConfigDownloadFields : ConfigDownloadFields[f] \in {"result", "config"}
        /\ DeviceConfigTypes \cap {"DeviceID", "Reason", "EventType"} = {}
    BY DEF DeviceConfigTypes, ConfigDownloadFields, ResultField, Of, ++
  <2>2. Simple(ConfigDownloadFields, Writes(DOMAIN ConfigDownloadFields, {}),
        Reads(DOMAIN ConfigDownloadFields), {})
    BY <2>1, PartSimple DEF Usual, Classes
  <2>3. Simple(ConfigDownloadFields, ConfigDownloadWrite, ConfigDownloadRead, {})
    BY <2>1, <2>2, ReadNeeds, WriteNeeds DEF ConfigDownloadWrite, ConfigDownloadRead
  <2>4. ConfigDownloadWrite.always \cap BaseNames = {} /\ ConfigDownloadRead.derefs = {}
    BY <2>1, WritesTable, ReadsTable, NeedsWrite, NeedsRead
          DEF ConfigDownloadWrite, ConfigDownloadRead, BaseNames
  <2> QED BY <2>1, <2>3, <2>4, MessageSound DEF BaseNames
<1>6. SoundMessage(Message(PresetFields, PresetWrite, PresetRead), {}, {})
  <2>1. /\ Usual(PresetFields)
        /\ DOMAIN PresetFields = {"SumNum", "PresetList"}
        /\ PresetFields["PresetList"] = "items"
    <3>1. Usual(PresetFields)
      BY DEF Usual, Classes, PresetFields, Of, ++
    <3>2. /\ DOMAIN PresetFields = {"SumNum", "PresetList"}
          /\ PresetFields["PresetList"] = "items"
      BY DEF PresetFields, Of, ++
    <3> QED BY <3>1, <3>2
  <2>2. Simple(PresetFields, PresetWrite, PresetRead, {})
    BY <2>1, WholeSimple, ReadNeeds, WriteNeeds DEF PresetWrite, PresetRead
  <2>3. PresetWrite.always \cap BaseNames = {} /\ PresetRead.derefs = {}
    BY <2>1, WritesTable, ReadsTable, NeedsWrite, NeedsRead DEF PresetWrite, PresetRead, BaseNames
  <2> QED BY <2>1, <2>2, <2>3, MessageSound DEF BaseNames
<1>7. SoundMessage(Message(HomePositionFields, HomePositionWrite, HomePositionRead), {}, {})
  <2>1. /\ Usual(HomePositionFields)
        /\ DOMAIN HomePositionFields = {"HomePosition"}
    <3>1. Usual(HomePositionFields)
      BY DEF Usual, Classes, HomePositionFields, Of, ++
    <3>2. /\ DOMAIN HomePositionFields = {"HomePosition"}
      BY DEF HomePositionFields, Of, ++
    <3> QED BY <3>1, <3>2
  <2>2. Simple(HomePositionFields, HomePositionWrite, HomePositionRead, {})
    BY <2>1, WholeSimple, ReadNeeds, WriteNeeds DEF HomePositionWrite, HomePositionRead
  <2>3. HomePositionWrite.always \cap BaseNames = {} /\ HomePositionRead.derefs = {}
    BY <2>1, WritesTable, ReadsTable, NeedsWrite, NeedsRead
          DEF HomePositionWrite, HomePositionRead, BaseNames
  <2> QED BY <2>1, <2>2, <2>3, MessageSound DEF BaseNames
<1>8. SoundMessage(Message(CruiseListFields, CruiseListWrite, CruiseListRead), {}, {})
  <2>1. /\ Usual(CruiseListFields)
        /\ DOMAIN CruiseListFields = {"Result", "SumNum", "CruiseTrackList"}
    <3>1. Usual(CruiseListFields)
      BY DEF Usual, Classes, CruiseListFields, ResultField, Of, ++
    <3>2. /\ DOMAIN CruiseListFields = {"Result", "SumNum", "CruiseTrackList"}
      BY DEF CruiseListFields, ResultField, Of, ++
    <3> QED BY <3>1, <3>2
  <2>2. Simple(CruiseListFields, CruiseListWrite, CruiseListRead, {})
    BY <2>1, WholeSimple, ReadNeeds, WriteNeeds DEF CruiseListWrite, CruiseListRead
  <2>3. CruiseListWrite.always \cap BaseNames = {} /\ CruiseListRead.derefs = {}
    BY <2>1, WritesTable, ReadsTable, NeedsWrite, NeedsRead
          DEF CruiseListWrite, CruiseListRead, BaseNames
  <2> QED BY <2>1, <2>2, <2>3, MessageSound DEF BaseNames
<1>9. SoundMessage(Message(CruiseFields, CruiseWrite, CruiseRead), {"Name"}, {})
  <2>1. /\ Usual(CruiseFields)
        /\ DOMAIN CruiseFields = {"Result", "SumNum", "Name", "CruisePointList"}
        /\ CruiseFields["Result"] = "result"
    <3>1. Usual(CruiseFields)
      BY DEF Usual, Classes, CruiseFields, ResultField, Of, ++
    <3>2. /\ DOMAIN CruiseFields = {"Result", "SumNum", "Name", "CruisePointList"}
          /\ CruiseFields["Result"] = "result"
      BY DEF CruiseFields, ResultField, Of, ++
    <3> QED BY <3>1, <3>2
  <2>2. Simple(CruiseFields, Writes({"Result", "SumNum"}, {"CruisePointList"}),
        Reads(DOMAIN CruiseFields), {"Name"})
    BY <2>1, PartSimple DEF Usual, Classes
  <2>3. Simple(CruiseFields, CruiseWrite, CruiseRead, {"Name"})
    BY <2>1, <2>2, ReadNeeds, WriteNeeds DEF CruiseWrite, CruiseRead
  <2>4. CruiseWrite.always \cap BaseNames = {} /\ CruiseRead.derefs = {}
    BY <2>1, WritesTable, ReadsTable, NeedsWrite, NeedsRead DEF CruiseWrite, CruiseRead, BaseNames
  <2> QED BY <2>1, <2>3, <2>4, MessageSound DEF BaseNames
<1>10. SoundMessage(Message(PTZPositionFields ++ ResultField, PTZPositionWrite,
      PTZPositionRead), {}, {})
  <2> DEFINE F == PTZPositionFields ++ ResultField
  <2>1. /\ Usual(F)
        /\ DOMAIN PTZPositionFields =
              {"Pan", "Tilt", "Zoom", "HorizontalFieldAngle", "VerticalFieldAngle",
               "MaxViewDistance"}
        /\ DOMAIN F = DOMAIN PTZPositionFields \cup {"Result"}
    <3>1. Usual(F)
      BY DEF Usual, Classes, PTZPositionFields, ResultField, Of, ++
    <3>2. /\ DOMAIN PTZPositionFields =
                {"Pan", "Tilt", "Zoom", "HorizontalFieldAngle", "VerticalFieldAngle",
                 "MaxViewDistance"}
          /\ DOMAIN F = DOMAIN PTZPositionFields \cup {"Result"}
      BY DEF PTZPositionFields, ResultField, Of, ++
    <3> QED BY <3>1, <3>2
  <2> HIDE DEF F
  <2>2. Simple(F, PTZPositionWrite, PTZPositionRead, {})
    BY <2>1, PartSimple DEF PTZPositionWrite, PTZPositionRead, Usual, Classes
  <2>3. PTZPositionWrite.always \cap BaseNames = {} /\ PTZPositionRead.derefs = {}
    BY WritesTable, ReadsTable DEF PTZPositionWrite, PTZPositionRead, BaseNames
  <2>4. DOMAIN F \cap BaseNames = {}
    BY <2>1 DEF BaseNames
  <2> QED BY <2>2, <2>3, <2>4, MessageSound DEF F
<1>11. SoundMessage(Message(SdCardFields, SdCardWrite, SdCardRead), {}, {})
  <2>1. /\ Usual(SdCardFields)
        /\ DOMAIN SdCardFields = {"Result", "SumNum", "SDCardStatusInfo"}
    <3>1. Usual(SdCardFields)
      BY DEF Usual, Classes, SdCardFields, ResultField, Of, ++
    <3>2. /\ DOMAIN SdCardFields = {"Result", "SumNum", "SDCardStatusInfo"}
      BY DEF SdCardFields, ResultField, Of, ++
    <3> QED BY <3>1, <3>2
  <2>2. Simple(SdCardFields, SdCardWrite, SdCardRead, {})
    BY <2>1, WholeSimple, ReadNeeds, WriteNeeds DEF SdCardWrite, SdCardRead
  <2>3. SdCardWrite.always \cap BaseNames = {} /\ SdCardRead.derefs = {}
    BY <2>1, WritesTable, ReadsTable, NeedsWrite, NeedsRead DEF SdCardWrite, SdCardRead, BaseNames
  <2> QED BY <2>1, <2>2, <2>3, MessageSound DEF BaseNames
<1>12. SoundMessage(Answer, {}, {})
  <2>1. /\ Usual(ResultField)
        /\ DOMAIN ResultField = {"Result"}
        /\ ResultField["Result"] = "result"
    <3>1. Usual(ResultField)
      BY DEF Usual, Classes, ResultField, Of, ++
    <3>2. /\ DOMAIN ResultField = {"Result"}
          /\ ResultField["Result"] = "result"
      BY DEF ResultField, Of, ++
    <3> QED BY <3>1, <3>2
  <2>2. Simple(ResultField, ResultWrite, ResultRead, {})
    BY <2>1, WholeSimple, ReadNeeds, WriteNeeds DEF ResultWrite, ResultRead
  <2>3. ResultWrite.always \cap BaseNames = {} /\ ResultRead.derefs = {}
    BY <2>1, WritesTable, ReadsTable, NeedsWrite, NeedsRead DEF ResultWrite, ResultRead, BaseNames
  <2> QED BY <2>1, <2>2, <2>3, MessageSound DEF BaseNames, Answer
<1>13. SoundMessage(Message(ResultField, BroadcastAnswerWrite, ResultRead), {}, {})
  <2>1. /\ Usual(ResultField)
        /\ DOMAIN ResultField = {"Result"}
        /\ ResultField["Result"] = "result"
    <3>1. Usual(ResultField)
      BY DEF Usual, Classes, ResultField, Of, ++
    <3>2. /\ DOMAIN ResultField = {"Result"}
          /\ ResultField["Result"] = "result"
      BY DEF ResultField, Of, ++
    <3> QED BY <3>1, <3>2
  <2>2. Simple(ResultField, BroadcastAnswerWrite, ResultRead, {})
    BY <2>1, WholeSimple, ReadNeeds, WriteNeeds DEF BroadcastAnswerWrite, ResultRead
  <2>3. BroadcastAnswerWrite.always \cap BaseNames = {} /\ ResultRead.derefs = {}
    BY <2>1, WritesTable, ReadsTable, NeedsWrite, NeedsRead
          DEF BroadcastAnswerWrite, ResultRead, BaseNames
  <2> QED BY <2>1, <2>2, <2>3, MessageSound DEF BaseNames
<1>14. \A c \in {"DeviceStatus", "DeviceInfo", "Catalog", "RecordInfo", "ConfigDownload",
                "PresetQuery", "HomePositionQuery"} :
          SoundMessage(Responses[c], Except(LostInAnswer, c),
                       IF c = "DeviceStatus" THEN {"Reason"} ELSE {})
  BY <1>1, <1>2, <1>3, <1>4, <1>5, <1>6, <1>7, LostInAnswers, ResponseFormats
<1>15. \A c \in {"CruiseTrackListQuery", "CruiseTrackQuery", "PTZPosition", "SDCardStatus",
                "DeviceControl", "DeviceConfig", "Alarm", "Broadcast"} :
          SoundMessage(Responses[c], Except(LostInAnswer, c), {})
  BY <1>8, <1>9, <1>10, <1>11, <1>12, <1>13, LostInAnswers, ResponseFormats
<1> QED BY <1>14, <1>15, ResponseDomain DEF Commands

----------------------------------------------------------------------------
\* Who waits and who answers

(* No struct has the name of a request.                                    *)
LEMMA StructsApart == DOMAIN Structs \cap DOMAIN Requests = {}
<1>1. DOMAIN Configs \cap (QueryKinds \cup ControlKinds \cup NotificationKinds) = {}
  BY DEF Configs, QueryKinds, ControlKinds, NotificationKinds
<1>2. DOMAIN Items \cap (QueryKinds \cup ControlKinds \cup NotificationKinds) = {}
  BY DEF Items, QueryKinds, ControlKinds, NotificationKinds
<1>3. DOMAIN Structs = DOMAIN Configs \cup DOMAIN Items
  BY DEF Structs, ++
<1> QED BY <1>1, <1>2, <1>3, RequestDomain

(* A handler that answers nothing has a sender that waits for nothing.     *)
LEMMA NobodyWaits ==
    ASSUME kind \in DOMAIN Requests, Handler \in {"none", "keepalive"}
    PROVE  Waits = "none"
BY RequestDomain, NotificationDomain
   DEF Handler, Waits, QueryKinds, ControlKinds, NotificationKinds

(* A handler that answers has a sender that waits for it, alarms and       *)
(* broadcasts apart.                                                       *)
LEMMA SomebodyWaits ==
    ASSUME kind \in DOMAIN Requests, WillAnswer, kind \notin {"Alarm", "Broadcast"}
    PROVE  Downward /\ Waits # "none"
BY RequestDomain, NotificationDomain, QueryDomain, ControlDomain
   DEF Handler, WillAnswer, Downward, Waits, QueryKinds, ControlKinds, NotificationKinds

(* Only a keepalive is handled by keepalive.                               *)
LEMMA OnlyKeepalive == Handler = "keepalive" => kind = "Keepalive"
BY DEF Handler

----------------------------------------------------------------------------
\* The course of a message

(* How far a message has come says what has been answered and what the     *)
(* sender knows.                                                           *)
FlowOK ==
    /\ kind \in DOMAIN Structs \cup DOMAIN Requests
    /\ stage \in {"made", "sent", "replied", "waiting", "answered", "silent", "over"}
    /\ answer = [value |-> answer.value, got |-> answer.got, load |-> answer.load,
                 sn |-> answer.sn, from |-> answer.from]
    /\ IsStruct => stage \in {"made", "sent", "over"} /\ answer = Nothing
    /\ stage \in {"made", "sent", "replied"} => outcome = "open" /\ answer = Nothing
    /\ stage \in {"made", "sent"} => load = "none" /\ code = 0
    /\ stage = "waiting" => answer = Nothing
    /\ stage \in {"waiting", "answered"} =>
          code = 200 /\ WillAnswer /\ (Waits # "none" => outcome = "open")
    /\ stage = "answered" => answer.load = "none"
    /\ stage \in {"answered", "silent"} => answer.from # "nobody"
    /\ code = 200 => ~IsStruct /\ Handler # "unknown"
    /\ answer.from # "nobody" => ~IsStruct /\ WillAnswer
    /\ outcome = "succeeded" /\ ~IsStruct =>
          code = 200 /\ (Waits = "none" \/ answer.load = "loaded")
    /\ answer.load = "lost" => ~answer.sn \/ kind \in {"Alarm", "Broadcast"}

(* What depends on the message and not on its course stays.                *)
LEMMA SameMessage ==
    ASSUME UNCHANGED <<kind, sent>>
    PROVE  /\ IsStruct' = IsStruct /\ Handler' = Handler /\ Waits' = Waits
           /\ WillAnswer' = WillAnswer
           /\ FormatOf' = FormatOf /\ AnswerFormat' = AnswerFormat /\ Command' = Command
BY DEF IsStruct, Handler, CommandElement, Waits, WillAnswer, FormatOf, AnswerFormat, Command

(* Every step keeps FlowOK.                                                *)
LEMMA InitFlow == Init => FlowOK
BY DEF Init, FlowOK, Nothing

LEMMA SendFlow == ASSUME FlowOK, Send PROVE FlowOK'
<1>1. UNCHANGED <<kind, sent>> /\ UNCHANGED <<got, load, code, answer>> /\ stage = "made"
  BY DEF Send
<1>2. \/ stage' = "sent" /\ outcome' = outcome
      \/ stage' = "over" /\ outcome' = "failed"
  BY DEF Send
<1> QED BY <1>1, <1>2, SameMessage DEF FlowOK, Nothing

LEMMA ReceiveFlow == ASSUME FlowOK, Receive PROVE FlowOK'
<1>1. UNCHANGED <<kind, sent>> /\ UNCHANGED <<answer, outcome>> /\ stage = "sent" /\ ~IsStruct
  BY DEF Receive
<1>2. stage' = "replied"
  BY DEF Receive, Unread, KeptAlive, Breaks, Handles, Replies
<1>3. code' = 200 => Handler # "unknown"
  BY DEF Receive, Unread, KeptAlive, Breaks, Handles, Replies
<1> QED BY <1>1, <1>2, <1>3, SameMessage DEF FlowOK, Nothing

LEMMA ReadStructFlow == ASSUME FlowOK, ReadStruct PROVE FlowOK'
<1>1. /\ UNCHANGED <<kind, sent>> /\ UNCHANGED <<code, answer>> /\ stage = "sent" /\ IsStruct
      /\ stage' = "over" /\ outcome' = "succeeded"
  BY DEF ReadStruct
<1> QED BY <1>1, SameMessage DEF FlowOK, Nothing

LEMMA ReplyFlow == ASSUME FlowOK, Reply PROVE FlowOK'
<1>1. UNCHANGED <<kind, sent>> /\ UNCHANGED <<got, load, code, answer>> /\ stage = "replied"
  BY DEF Reply
<1>2. ~IsStruct /\ answer = Nothing /\ (code = 200 => Handler # "unknown")
  BY <1>1 DEF FlowOK
<1>3. stage' = "waiting" => code = 200 /\ WillAnswer
  BY DEF Reply
<1>4. stage' \in {"waiting", "over"}
  <2>1. CASE code = 200 /\ ~WillAnswer
    <3>1. Handler \in {"none", "keepalive"}
      BY <1>2, <2>1 DEF WillAnswer, Handler
    <3>2. kind \in DOMAIN Requests
      BY <1>2 DEF FlowOK, IsStruct
    <3> QED BY <2>1, <3>1, <3>2, NobodyWaits DEF Reply
  <2> QED BY <2>1 DEF Reply
<1>5. outcome' = "succeeded" => code = 200 /\ Waits = "none"
  BY DEF Reply
<1>6. code = 200 /\ Waits # "none" => outcome' = "open"
  BY DEF Reply
<1> QED BY <1>1, <1>2, <1>3, <1>4, <1>5, <1>6, SameMessage DEF FlowOK, Nothing

LEMMA AnswersFlow ==
    ASSUME FlowOK, stage = "waiting", NEW value, NEW from \in {"application", "timer",
          "platform"},
           Answers(value, from)
    PROVE  FlowOK'
<1>1. /\ UNCHANGED <<kind, sent>> /\ UNCHANGED <<got, load, code, outcome>>
      /\ stage' \in {"answered", "silent"}
  BY DEF Answers
<1>2. PICK sn : answer' = [Nothing EXCEPT !.value = value, !.sn = sn, !.from = from]
  BY DEF Answers
<1>3. answer' = [value |-> value, got |-> <<>>, load |-> "none", sn |-> sn, from |-> from]
  BY <1>2 DEF Nothing
<1>4. /\ answer'.value = value /\ answer'.got = <<>> /\ answer'.load = "none"
      /\ answer'.sn = sn /\ answer'.from = from
  BY <1>3
<1>5. ~IsStruct
  BY DEF FlowOK
<1> QED BY <1>1, <1>3, <1>4, <1>5, SameMessage DEF FlowOK

LEMMA AnyAnswerFlow == ASSUME FlowOK, AppAnswers \/ TimerAnswers \/ AlarmAnswers PROVE FlowOK'
BY AnswersFlow DEF AppAnswers, TimerAnswers, AlarmAnswers

(* An answer that finds no request has a number of its own, or answers an  *)
(* alarm or a broadcast.                                                   *)
LEMMA TakenFacts ==
    /\ TakenAs = "loaded" => Load(AnswerFormat, AnswerDocument) = "loaded"
    /\ TakenAs = "lost" => ~Found
BY DEF TakenAs, Load

LEMMA LostFor ==
    ASSUME kind \in DOMAIN Requests, WillAnswer, TakenAs = "lost"
    PROVE  ~answer.sn \/ kind \in {"Alarm", "Broadcast"}
BY SomebodyWaits, TakenFacts DEF Found, Routed

LEMMA TakeAnswerFlow == ASSUME FlowOK, TakeAnswer PROVE FlowOK'
<1> DEFINE as == TakenAs
<1>1. /\ UNCHANGED <<kind, sent>> /\ UNCHANGED <<got, load, code>>
      /\ stage = "answered" /\ stage' \in {"over", "silent"}
  BY DEF TakeAnswer
<1>2. /\ code = 200 /\ WillAnswer /\ (Waits # "none" => outcome = "open") /\ ~IsStruct
      /\ answer.from # "nobody" /\ answer.load = "none" /\ kind \in DOMAIN Requests
  BY <1>1 DEF FlowOK, IsStruct
<1>3. PICK read : answer' = [answer EXCEPT !.load = as, !.got = read]
  BY DEF TakeAnswer
<1>4. answer' = [value |-> answer.value, got |-> read, load |-> as,
                 sn |-> answer.sn, from |-> answer.from]
  BY <1>3 DEF FlowOK
<1>5. outcome' = "succeeded" => Waits = "none" \/ as = "loaded"
  BY <1>2 DEF TakeAnswer
<1>6. as = "lost" => ~answer.sn \/ kind \in {"Alarm", "Broadcast"}
  BY <1>2, LostFor
<1> HIDE DEF as
<1>7. /\ answer'.value = answer.value /\ answer'.got = read /\ answer'.load = as
      /\ answer'.sn = answer.sn /\ answer'.from = answer.from
  BY <1>4
<1>8. answer' = [value |-> answer'.value, got |-> answer'.got, load |-> answer'.load,
                 sn |-> answer'.sn, from |-> answer'.from]
  BY <1>4, <1>7
<1>9. answer'.load = "lost" => ~answer'.sn \/ kind \in {"Alarm", "Broadcast"}
  BY <1>6, <1>7
<1>10. ~IsStruct' /\ WillAnswer' /\ Waits' = Waits /\ (code' = 200 => Handler' # "unknown")
  BY <1>1, <1>2, SameMessage DEF FlowOK
<1> QED BY <1>1, <1>2, <1>5, <1>7, <1>8, <1>9, <1>10 DEF FlowOK

LEMMA GiveUpFlow == ASSUME FlowOK, GiveUp PROVE FlowOK'
<1>1. /\ UNCHANGED <<kind, sent>> /\ UNCHANGED <<got, load, code, answer>>
      /\ stage \in {"waiting", "answered", "silent"} /\ stage' = "over" /\ outcome' = "timeout"
  BY DEF GiveUp
<1> QED BY <1>1, SameMessage DEF FlowOK

LEMMA NextFlow == FlowOK /\ [Next]_vars => FlowOK'
<1> SUFFICES ASSUME FlowOK, [Next]_vars PROVE FlowOK'
  OBVIOUS
<1>1. CASE UNCHANGED vars
  <2>1. UNCHANGED <<kind, sent>> /\ UNCHANGED <<load, stage, code, answer, outcome>>
    BY <1>1 DEF vars
  <2> QED BY <2>1, SameMessage DEF FlowOK
<1> QED
  BY <1>1, SendFlow, ReceiveFlow, ReadStructFlow, ReplyFlow, AnyAnswerFlow, TakeAnswerFlow,
     GiveUpFlow DEF Next

(* FlowOK is an invariant.                                                 *)
LEMMA FlowInvariance == Spec => []FlowOK
BY InitFlow, NextFlow, PTL DEF Spec

(* Both ends agree on who answers: nobody is waited for in vain, and an    *)
(* answer is dropped only because of its number, or because it answers an  *)
(* alarm or a broadcast.                                                   *)
THEOREM BothEndsAgree == Spec => []AnswersAgree
<1>1. FlowOK => AnswersAgree
  BY DEF FlowOK, AnswersAgree
<1> QED BY <1>1, FlowInvariance, PTL

----------------------------------------------------------------------------
\* All formats

(* Every format there is.                                                  *)
LEMMA StructsSound == \A k \in DOMAIN Structs : Sound(Structs[k], Except(Lost, k), {})
<1>1. DOMAIN Structs = DOMAIN Configs \cup DOMAIN Items
  BY DEF Structs, ++
<1>2. \A k \in DOMAIN Structs : Structs[k] = IF k \in DOMAIN Configs THEN Configs[k] ELSE Items[k]
  BY DEF Structs, ++
<1> QED BY <1>1, <1>2, ConfigsSound, ItemsSound

(* Where the format of a request comes from.                               *)
LEMMA RequestsOf ==
    /\ \A k \in QueryKinds : Requests[k] = Queries[k]
    /\ \A k \in ControlKinds : Requests[k] = Controls[k]
    /\ \A k \in NotificationKinds : Requests[k] = Notifications[k]
<1> DEFINE R == Queries ++ Controls
<1>1. DOMAIN R = QueryKinds \cup ControlKinds
  BY QueryDomain, ControlDomain DEF ++
<1>2. QueryKinds \cap ControlKinds = {} /\ NotificationKinds \cap (QueryKinds
      \cup ControlKinds) = {}
  BY DEF QueryKinds, ControlKinds, NotificationKinds
<1>3. \A k \in DOMAIN R : R[k] = IF k \in QueryKinds THEN Queries[k] ELSE Controls[k]
  BY <1>1, QueryDomain DEF ++
<1>4. Requests = R ++ Notifications
  BY DEF Requests
<1> HIDE DEF R
<1>5. \A k \in DOMAIN R \cup NotificationKinds :
         Requests[k] = IF k \in DOMAIN R THEN R[k] ELSE Notifications[k]
  BY <1>4, NotificationDomain DEF ++
<1> QED BY <1>1, <1>2, <1>3, <1>5

(* What a null pointer of a message can come from, besides a list.         *)
Risky(k) == IF k = "CatalogQuery" THEN {"DeviceID"} ELSE {}
RiskyAnswer(c) == IF c = "DeviceStatus" THEN {"Reason"} ELSE {}

(* The members of a keepalive are never read.                              *)
LEMMA RequestsSound ==
    \A k \in DOMAIN Requests \ {"Keepalive"} :
        SoundMessage(Requests[k].format, Except(Lost, k), Risky(k))
<1>1. \A k \in QueryKinds : SoundMessage(Requests[k].format, Except(Lost, k), Risky(k))
  BY QueriesSound, QueryDomain, RequestsOf DEF Risky
<1>2. "CatalogQuery" \notin ControlKinds \cup NotificationKinds
  BY DEF ControlKinds, NotificationKinds
<1>3. \A k \in ControlKinds : SoundMessage(Requests[k].format, Except(Lost, k), Risky(k))
  BY <1>2, ControlsSound, ControlDomain, RequestsOf DEF Risky
<1>4. \A k \in NotificationKinds \ {"Keepalive"} :
         SoundMessage(Requests[k].format, Except(Lost, k), Risky(k))
  BY <1>2, NotificationsSound, NotificationDomain, RequestsOf DEF Risky
<1> QED BY <1>1, <1>3, <1>4, RequestDomain

LEMMA AnswersSound ==
    \A c \in DOMAIN Responses :
        SoundMessage(Responses[c], Except(LostInAnswer, c), RiskyAnswer(c))
BY ResponsesSound DEF RiskyAnswer

LEMMA FormatSound ==
    ASSUME kind \in DOMAIN Structs \cup DOMAIN Requests, kind # "Keepalive"
    PROVE  Sound(FormatOf, Except(Lost, kind), Risky(kind))
<1>1. CASE IsStruct
  <2>1. kind # "CatalogQuery"
    <3>1. "CatalogQuery" \in DOMAIN Requests
      BY RequestDomain DEF QueryKinds
    <3> QED BY <1>1, <3>1, StructsApart DEF IsStruct
  <2> QED BY <1>1, <2>1, StructsSound DEF FormatOf, IsStruct, Risky
<1>2. CASE ~IsStruct
  BY <1>2, RequestsSound DEF FormatOf, IsStruct, SoundMessage
<1> QED BY <1>1, <1>2

(* What holds for one format holds for all members of its values.          *)
LEMMA SoundReadBack ==
    ASSUME NEW fmt, NEW v, NEW E, NEW H, Sound(fmt, E, H), Typed(fmt, v),
           Load(fmt, ToXml(fmt, v)) = "loaded"
    PROVE  SameMembers(fmt, v, FromXml(fmt, ToXml(fmt, v)), E)
<1> SUFFICES ASSUME NEW f \in DOMAIN v \ E, fmt.fields[f] # "optional"
             PROVE  FromXml(fmt, ToXml(fmt, v))[f] = Meant(fmt, v, f)
  BY DEF SameMembers
<1>1. f \in DOMAIN fmt.fields \ E
  BY DEF Typed
<1>2. Straight(fmt) /\ Carries(fmt, f)
  BY <1>1 DEF Sound
<1>3. f \in fmt.read.fields
  BY <1>2 DEF Carries
<1>4. FromXml(fmt, ToXml(fmt, v))[f] = ReadMember(fmt, ToXml(fmt, v), f)
  BY <1>1 DEF FromXml
<1> QED BY <1>2, <1>3, <1>4, RoundTrip

(* A reader breaks on a blank or on a risky member that is not set.        *)
LEMMA SoundBroken ==
    ASSUME NEW fmt, NEW v, NEW E, NEW H, Sound(fmt, E, H), Typed(fmt, v),
           Load(fmt, ToXml(fmt, v)) = "broken"
    PROVE  Blank(v) \/ \E f \in H \cap DOMAIN v : v[f] = "none"
<1>1. \A f \in fmt.read.derefs : /\ f \in fmt.read.fields /\ Carries(fmt, f)
                                /\ f # "EventType" /\ fmt.fields[f] # "filled"
  BY DEF Sound, Carries
<1>2. \/ Blank(v)
      \/ \E f \in fmt.read.derefs : v[f] = "none"
      \/ \E f \in fmt.write.always : /\ f \in DOMAIN fmt.fields /\ fmt.fields[f] = "raw"
                                    /\ v[f] = "none"
  BY <1>1, BrokenBy DEF Sound
<1> QED BY <1>2 DEF Sound, Typed

(* A reader refuses nothing whose members are all set.                     *)
LEMMA SoundRefused ==
    ASSUME NEW fmt, NEW v, NEW E, NEW H, Sound(fmt, E, H), Typed(fmt, v), Complete(v)
    PROVE  Loadable(fmt, ToXml(fmt, v))
<1> SUFFICES ASSUME NEW S \in fmt.read.needs
             PROVE  \E f \in S : Accepted(fmt, ToXml(fmt, v), f)
  BY DEF Loadable
<1>1. PICK f \in S : f \in DOMAIN fmt.fields \ (E \cup {"EventType"})
      /\ fmt.fields[f] # "optional"
  BY DEF Sound
<1>2. Straight(fmt) /\ Carries(fmt, f) /\ f \in fmt.read.fields /\ f # "EventType"
  BY <1>1 DEF Sound, Carries
<1>3. v[f] \notin {"none", "null", "blank", "cleared"}
  BY <1>1 DEF Complete, Typed
<1>4. Accepted(fmt, ToXml(fmt, v), f)
  BY <1>1, <1>2, <1>3, AcceptedWhenSet
<1> QED BY <1>4

(* A document is read, refused or breaks the reader.                       *)
LEMMA LoadCases ==
    ASSUME NEW fmt, NEW xml
    PROVE  /\ Load(fmt, xml) \in {"loaded", "refused", "broken"}
           /\ Load(fmt, xml) = "refused" => ~Loadable(fmt, xml)
           /\ Null(fmt, xml, "raw") => Load(fmt, xml) = "broken"
BY DEF Load

----------------------------------------------------------------------------
\* Answers of the platform itself can be sent and read

Needing(side, n) == [side EXCEPT !.needs = n]

(* A side that insists on members.                                         *)
LEMMA NeedingWriter ==
    ASSUME NEW W, IsWriter(W), NEW n
    PROVE  LET w == Needing(W, n) IN IsWriter(w) /\ w.needs = n /\ w.always = W.always
BY NeedsWrite DEF Needing

LEMMA NeedingReader ==
    ASSUME NEW R, IsReader(R), NEW n
    PROVE  IsReader(Needing(R, n)) /\ Needing(R, n).needs = n
BY NeedsRead DEF Needing

(* What the answer of a platform itself has to set.                        *)
WrittenFor(c) == {"Result"} \cup (CASE c = "DeviceStatus"   -> {"Online", "Status"}
                                   [] c = "ConfigDownload" -> {"error"}
                                   [] OTHER                -> {})
ReadFor(c) == {"Result"} \cup (CASE c = "DeviceStatus" -> {"Online", "Status"}
                                [] c = "PresetQuery"  -> {"PresetList"}
                                [] OTHER              -> {})
Fits(m, c) ==
    /\ "Result" \in DOMAIN m.fields => m.fields["Result"] = "result"
    /\ m.write.needs # {} => "Result" \in DOMAIN m.fields
    /\ \A S \in m.write.needs : \E f \in S : f \in WrittenFor(c) \cap (DOMAIN m.fields
          \cup {"error"})
    /\ \A S \in m.read.needs : S \subseteq ReadFor(c)

(* The members a platform sets by itself are those both sides need.        *)
LEMMA MessageFits ==
    ASSUME NEW F, NEW W, NEW R, NEW c, IsWriter(W), IsReader(R),
           "Result" \in DOMAIN F => F["Result"] = "result",
           W.needs # {} => "Result" \in DOMAIN F,
           \A S \in W.needs : \E f \in S : f \in WrittenFor(c) \cap (DOMAIN F \cup {"error"}),
           \A S \in R.needs : S \subseteq ReadFor(c)
    PROVE  Fits(Message(F, W, R), c)
<1> DEFINE m == Message(F, W, R)
<1>1. /\ DOMAIN m.fields = DOMAIN F \cup BaseNames
      /\ \A f \in DOMAIN F : m.fields[f] = F[f]
      /\ m.write.needs = W.needs /\ m.read.needs = R.needs
  BY MessageTables
<1> HIDE DEF m
<1>2. "Result" \notin BaseNames
  BY DEF BaseNames
<1>3. Fits(m, c)
  BY <1>1, <1>2 DEF Fits
<1> QED BY <1>3 DEF m

LEMMA AnswersFit == \A c \in DOMAIN Responses : Fits(Responses[c], c)
<1>1. Fits(Message(DeviceStatusFields, DeviceStatusWrite, DeviceStatusRead), "DeviceStatus")
  <2>1. "Result" \in DOMAIN DeviceStatusFields /\ DeviceStatusFields["Result"] = "result"
        /\ "Online" \in DOMAIN DeviceStatusFields /\ "Status" \in DOMAIN DeviceStatusFields
    BY DEF DeviceStatusFields, ResultField, Of, ++
  <2>2. IsWriter(DeviceStatusWrite) /\ DeviceStatusWrite.needs = {{"Result"}, {"Online"},
        {"Status"}}
    <3>1. DeviceStatusWrite = Needing(Writes({"Result", "Online", "Status", "Reason"},
          {"Encode", "Record", "DeviceTime", "Alarmstatus", "Info"}) , {{"Result"},
          {"Online"}, {"Status"}})
      BY DEF DeviceStatusWrite, Needing
    <3> QED BY <3>1, WritesTable, NeedingWriter
  <2>3. IsReader(DeviceStatusRead) /\ DeviceStatusRead.needs = {{"Result"}, {"Online"},
        {"Status"}}
    <3>1. DeviceStatusRead = Needing(Reads(DOMAIN DeviceStatusFields), {{"Result"},
          {"Online"}, {"Status"}})
      BY DEF DeviceStatusRead, Needing
    <3> QED BY <3>1, ReadsTable, NeedingReader
  <2>4. /\ \A S \in DeviceStatusWrite.needs :
              \E f \in S : f \in WrittenFor("DeviceStatus")
                    \cap (DOMAIN DeviceStatusFields \cup {"error"})
        /\ \A S \in DeviceStatusRead.needs : S \subseteq ReadFor("DeviceStatus")
    BY <2>1, <2>2, <2>3 DEF WrittenFor, ReadFor
  <2> QED BY <2>1, <2>2, <2>3, <2>4, MessageFits
<1>2. Fits(Message(DeviceInfoFields, DeviceInfoWrite, DeviceInfoRead), "DeviceInfo")
  <2>1. "Result" \in DOMAIN DeviceInfoFields /\ DeviceInfoFields["Result"] = "result"
    BY DEF DeviceInfoFields, ResultField, Of, ++
  <2>2. IsWriter(DeviceInfoWrite) /\ DeviceInfoWrite.needs = {{"Result"}}
    <3>1. DeviceInfoWrite = Needing(Writes(DOMAIN DeviceInfoFields \ {"Info"}, {"Info"}),
          {{"Result"}})
      BY DEF DeviceInfoWrite, Needing
    <3> QED BY <3>1, WritesTable, NeedingWriter
  <2>3. IsReader(DeviceInfoRead) /\ DeviceInfoRead.needs = {{"Result"}}
    <3>1. DeviceInfoRead = Needing(Reads(DOMAIN DeviceInfoFields), {{"Result"}})
      BY DEF DeviceInfoRead, Needing
    <3> QED BY <3>1, ReadsTable, NeedingReader
  <2>4. /\ \A S \in DeviceInfoWrite.needs :
              \E f \in S : f \in WrittenFor("DeviceInfo") \cap (DOMAIN DeviceInfoFields
                    \cup {"error"})
        /\ \A S \in DeviceInfoRead.needs : S \subseteq ReadFor("DeviceInfo")
    BY <2>1, <2>2, <2>3 DEF WrittenFor, ReadFor
  <2> QED BY <2>1, <2>2, <2>3, <2>4, MessageFits
<1>3. Fits(Message(CatalogFields, CatalogWrite, CatalogRead), "Catalog")
  <2>1. "Result" \notin DOMAIN CatalogFields
    BY DEF CatalogFields, Of, ++
  <2>2. IsWriter(CatalogWrite) /\ CatalogWrite.needs = {}
    BY WritesTable DEF CatalogWrite
  <2>3. IsReader(CatalogRead) /\ CatalogRead.needs = {}
    BY ReadsTable DEF CatalogRead
  <2>4. \A S \in CatalogRead.needs : S \subseteq ReadFor("Catalog")
    BY <2>3 DEF ReadFor
  <2> QED BY <2>1, <2>2, <2>3, <2>4, MessageFits
<1>4. Fits(Message(RecordInfoFields, RecordInfoWrite, RecordInfoRead), "RecordInfo")
  <2>1. "Result" \notin DOMAIN RecordInfoFields
    BY DEF RecordInfoFields, Of, ++
  <2>2. IsWriter(RecordInfoWrite) /\ RecordInfoWrite.needs = {}
    <3> DEFINE W == Writes({"Name", "SumNum", "RecordList"}, {"ExtraInfo"})
    <3>1. RecordInfoWrite = [W EXCEPT !.tag = [ExtraInfo |-> "RecordList/ExtraInfo"]]
      BY DEF RecordInfoWrite
    <3>2. IsWriter(W) /\ W.needs = {}
      BY WritesTable
    <3> HIDE DEF W
    <3> QED BY <3>1, <3>2, TagWrite
  <2>3. IsReader(RecordInfoRead) /\ RecordInfoRead.needs = {}
    BY ReadsTable DEF RecordInfoRead
  <2>4. \A S \in RecordInfoRead.needs : S \subseteq ReadFor("RecordInfo")
    BY <2>3 DEF ReadFor
  <2> QED BY <2>1, <2>2, <2>3, <2>4, MessageFits
<1>5. Fits(Message(ConfigDownloadFields, ConfigDownloadWrite, ConfigDownloadRead),
      "ConfigDownload")
  <2>1. "Result" \in DOMAIN ConfigDownloadFields /\ ConfigDownloadFields["Result"] = "result"
    BY DEF ConfigDownloadFields, ResultField, Of, ++
  <2>2. IsWriter(ConfigDownloadWrite) /\ ConfigDownloadWrite.needs = {{"Result"},
        DeviceConfigTypes \cup {"error"}}
    <3>1. ConfigDownloadWrite = Needing(Writes(DOMAIN ConfigDownloadFields, {}) ,
          {{"Result"}, DeviceConfigTypes \cup {"error"}})
      BY DEF ConfigDownloadWrite, Needing
    <3> QED BY <3>1, WritesTable, NeedingWriter
  <2>3. IsReader(ConfigDownloadRead) /\ ConfigDownloadRead.needs = {{"Result"}}
    <3>1. ConfigDownloadRead = Needing(Reads(DOMAIN ConfigDownloadFields), {{"Result"}})
      BY DEF ConfigDownloadRead, Needing
    <3> QED BY <3>1, ReadsTable, NeedingReader
  <2>4. /\ \A S \in ConfigDownloadWrite.needs :
              \E f \in S : f \in WrittenFor("ConfigDownload")
                    \cap (DOMAIN ConfigDownloadFields \cup {"error"})
        /\ \A S \in ConfigDownloadRead.needs : S \subseteq ReadFor("ConfigDownload")
    <3>1. \E f \in {"Result"} :
             f \in WrittenFor("ConfigDownload") \cap (DOMAIN ConfigDownloadFields \cup {"error"})
      BY <2>1 DEF WrittenFor
    <3>2. "error" \in WrittenFor("ConfigDownload")
      BY DEF WrittenFor
    <3>3. \E f \in DeviceConfigTypes \cup {"error"} :
             f \in WrittenFor("ConfigDownload") \cap (DOMAIN ConfigDownloadFields \cup {"error"})
      BY <3>2
    <3>4. \A S \in ConfigDownloadRead.needs : S \subseteq ReadFor("ConfigDownload")
      BY <2>3 DEF ReadFor
    <3> QED BY <2>2, <3>1, <3>3, <3>4
  <2> QED BY <2>1, <2>2, <2>3, <2>4, MessageFits
<1>6. Fits(Message(PresetFields, PresetWrite, PresetRead), "PresetQuery")
  <2>1. "Result" \notin DOMAIN PresetFields
    BY DEF PresetFields, Of, ++
  <2>2. IsWriter(PresetWrite) /\ PresetWrite.needs = {}
    BY WritesTable DEF PresetWrite
  <2>3. IsReader(PresetRead) /\ PresetRead.needs = {{"PresetList"}}
    <3>1. PresetRead = Needing(Reads(DOMAIN PresetFields), {{"PresetList"}})
      BY DEF PresetRead, Needing
    <3> QED BY <3>1, ReadsTable, NeedingReader
  <2>4. \A S \in PresetRead.needs : S \subseteq ReadFor("PresetQuery")
    BY <2>3 DEF ReadFor
  <2> QED BY <2>1, <2>2, <2>3, <2>4, MessageFits
<1>7. Fits(Message(HomePositionFields, HomePositionWrite, HomePositionRead), "HomePositionQuery")
  <2>1. "Result" \notin DOMAIN HomePositionFields
    BY DEF HomePositionFields, Of, ++
  <2>2. IsWriter(HomePositionWrite) /\ HomePositionWrite.needs = {}
    BY WritesTable DEF HomePositionWrite
  <2>3. IsReader(HomePositionRead) /\ HomePositionRead.needs = {}
    BY ReadsTable DEF HomePositionRead
  <2>4. \A S \in HomePositionRead.needs : S \subseteq ReadFor("HomePositionQuery")
    BY <2>3 DEF ReadFor
  <2> QED BY <2>1, <2>2, <2>3, <2>4, MessageFits
<1>8. Fits(Message(CruiseListFields, CruiseListWrite, CruiseListRead), "CruiseTrackListQuery")
  <2>1. "Result" \in DOMAIN CruiseListFields /\ CruiseListFields["Result"] = "result"
    BY DEF CruiseListFields, ResultField, Of, ++
  <2>2. IsWriter(CruiseListWrite) /\ CruiseListWrite.needs = {}
    BY WritesTable DEF CruiseListWrite
  <2>3. IsReader(CruiseListRead) /\ CruiseListRead.needs = {}
    BY ReadsTable DEF CruiseListRead
  <2>4. \A S \in CruiseListRead.needs : S \subseteq ReadFor("CruiseTrackListQuery")
    BY <2>3 DEF ReadFor
  <2> QED BY <2>1, <2>2, <2>3, <2>4, MessageFits
<1>9. Fits(Message(CruiseFields, CruiseWrite, CruiseRead), "CruiseTrackQuery")
  <2>1. "Result" \in DOMAIN CruiseFields /\ CruiseFields["Result"] = "result"
    BY DEF CruiseFields, ResultField, Of, ++
  <2>2. IsWriter(CruiseWrite) /\ CruiseWrite.needs = {}
    BY WritesTable DEF CruiseWrite
  <2>3. IsReader(CruiseRead) /\ CruiseRead.needs = {{"Result"}}
    <3>1. CruiseRead = Needing(Reads(DOMAIN CruiseFields), {{"Result"}})
      BY DEF CruiseRead, Needing
    <3> QED BY <3>1, ReadsTable, NeedingReader
  <2>4. \A S \in CruiseRead.needs : S \subseteq ReadFor("CruiseTrackQuery")
    BY <2>3 DEF ReadFor
  <2> QED BY <2>1, <2>2, <2>3, <2>4, MessageFits
<1>10. Fits(Message(PTZPositionFields ++ ResultField, PTZPositionWrite, PTZPositionRead),
      "PTZPosition")
  <2> DEFINE F == PTZPositionFields ++ ResultField
  <2>1. "Result" \in DOMAIN F /\ F["Result"] = "result"
    BY DEF PTZPositionFields, ResultField, Of, ++
  <2> HIDE DEF F
  <2>2. IsWriter(PTZPositionWrite) /\ PTZPositionWrite.needs = {}
    BY WritesTable DEF PTZPositionWrite
  <2>3. IsReader(PTZPositionRead) /\ PTZPositionRead.needs = {}
    BY ReadsTable DEF PTZPositionRead
  <2>4. \A S \in PTZPositionRead.needs : S \subseteq ReadFor("PTZPosition")
    BY <2>3 DEF ReadFor
  <2> QED BY <2>1, <2>2, <2>3, <2>4, MessageFits DEF F
<1>11. Fits(Message(SdCardFields, SdCardWrite, SdCardRead), "SDCardStatus")
  <2>1. "Result" \in DOMAIN SdCardFields /\ SdCardFields["Result"] = "result"
    BY DEF SdCardFields, ResultField, Of, ++
  <2>2. IsWriter(SdCardWrite) /\ SdCardWrite.needs = {}
    BY WritesTable DEF SdCardWrite
  <2>3. IsReader(SdCardRead) /\ SdCardRead.needs = {}
    BY ReadsTable DEF SdCardRead
  <2>4. \A S \in SdCardRead.needs : S \subseteq ReadFor("SDCardStatus")
    BY <2>3 DEF ReadFor
  <2> QED BY <2>1, <2>2, <2>3, <2>4, MessageFits
<1>12. ASSUME NEW c PROVE Fits(Answer, c)
  <2>1. "Result" \in DOMAIN ResultField /\ ResultField["Result"] = "result"
    BY DEF ResultField, Of
  <2>2. IsWriter(ResultWrite) /\ ResultWrite.needs = {{"Result"}}
    <3>1. ResultWrite = Needing(Writes({"Result"}, {}), {{"Result"}})
      BY DEF ResultWrite, Needing
    <3> QED BY <3>1, WritesTable, NeedingWriter
  <2>3. IsReader(ResultRead) /\ ResultRead.needs = {{"Result"}}
    <3>1. ResultRead = Needing(Reads({"Result"}), {{"Result"}})
      BY DEF ResultRead, Needing
    <3> QED BY <3>1, ReadsTable, NeedingReader
  <2>4. /\ \A S \in ResultWrite.needs :
              \E f \in S : f \in WrittenFor(c) \cap (DOMAIN ResultField \cup {"error"})
        /\ \A S \in ResultRead.needs : S \subseteq ReadFor(c)
    BY <2>1, <2>2, <2>3 DEF WrittenFor, ReadFor
  <2> QED BY <2>1, <2>2, <2>3, <2>4, MessageFits DEF Answer
<1>13. Fits(Message(ResultField, BroadcastAnswerWrite, ResultRead), "Broadcast")
  <2>1. "Result" \in DOMAIN ResultField /\ ResultField["Result"] = "result"
    BY DEF ResultField, Of
  <2>2. IsWriter(BroadcastAnswerWrite) /\ BroadcastAnswerWrite.needs = {}
    BY WritesTable DEF BroadcastAnswerWrite
  <2>3. IsReader(ResultRead) /\ ResultRead.needs = {{"Result"}}
    <3>1. ResultRead = Needing(Reads({"Result"}), {{"Result"}})
      BY DEF ResultRead, Needing
    <3> QED BY <3>1, ReadsTable, NeedingReader
  <2>4. \A S \in ResultRead.needs : S \subseteq ReadFor("Broadcast")
    BY <2>3 DEF ReadFor
  <2> QED BY <2>1, <2>2, <2>3, <2>4, MessageFits
<1> QED
  BY <1>1, <1>2, <1>3, <1>4, <1>5, <1>6, <1>7, <1>8, <1>9, <1>10, <1>11, <1>12, <1>13,
     ResponseFormats, ResponseDomain DEF Commands

(* The commands of the messages.                                           *)
LEMMA QueryCommands ==
    \A k \in QueryKinds \ {"AlarmQuery", "MobilePositionQuery"} :
        Queries[k].cmd \in Commands \ {"Alarm"}
BY DEF Queries, Request, QueryKinds, Commands

LEMMA ControlCommands ==
    \A k \in ControlKinds : Controls[k].cmd \in {"DeviceControl", "DeviceConfig"}
BY DEF Controls, Request, ControlKinds

LEMMA NotificationCommands ==
    Notifications["Alarm"].cmd = "Alarm" /\ Notifications["Broadcast"].cmd = "Broadcast"
BY DEF Notifications, Request

(* Whoever answers has a format for it; only alarms are answered as such.  *)
LEMMA AnswerCommand ==
    ASSUME kind \in DOMAIN Requests, WillAnswer
    PROVE  Command \in DOMAIN Responses /\ (Command = "Alarm" => kind = "Alarm")
<1>1. kind \in (QueryKinds \ {"AlarmQuery", "MobilePositionQuery"}) \cup ControlKinds
                 \cup {"Alarm", "Broadcast"}
  BY RequestDomain
     DEF WillAnswer, Handler, QueryKinds, ControlKinds, NotificationKinds
<1>2. {"Alarm", "Broadcast"} \subseteq NotificationKinds
  BY DEF NotificationKinds
<1>3. {"DeviceControl", "DeviceConfig", "Alarm", "Broadcast"} \subseteq Commands
  BY DEF Commands
<1> QED
  BY <1>1, <1>2, <1>3, QueryCommands, ControlCommands, NotificationCommands, RequestsOf,
     ResponseDomain DEF Command

----------------------------------------------------------------------------
\* Notifications that were sent can be read

(* What the reader of a notification insists on its writer has written.    *)
Heard(m) ==
    \A S \in m.read.needs : \A f \in S :
        \/ {f} \in m.write.needs /\ f # "error" /\ m.fields[f] \in {"text", "result"}
        \/ m.fields[f] = "stamp"
        \/ m.fields[f] = "list" /\ f \in m.write.always

(* A notification whose writer demands what its reader needs.              *)
LEMMA MessageHeard ==
    ASSUME NEW F, NEW W, NEW R, IsWriter(W), IsReader(R),
           \A S \in R.needs : \A f \in S :
              /\ f \in DOMAIN F
              /\ \/ {f} \in W.needs /\ f # "error" /\ F[f] \in {"text", "result"}
                 \/ F[f] = "stamp"
                 \/ F[f] = "list" /\ f \in W.always
    PROVE  Heard(Message(F, W, R))
<1> DEFINE m == Message(F, W, R)
<1>1. /\ \A f \in DOMAIN F : m.fields[f] = F[f]
      /\ m.write.needs = W.needs /\ m.read.needs = R.needs /\ m.write.always = W.always
  BY MessageTables
<1> HIDE DEF m
<1>2. Heard(m)
  BY <1>1 DEF Heard
<1> QED BY <1>2 DEF m

LEMMA NotificationsHeard ==
    \A k \in NotificationKinds \ {"Broadcast", "Keepalive"} : Heard(Notifications[k].format)
<1>1. Heard(Message(AlarmFields, AlarmWrite, AlarmRead))
  <2>1. IsWriter(AlarmWrite)
    BY WritesTable, UnderWrite DEF AlarmWrite
  <2>2. IsReader(AlarmRead) /\ AlarmRead.needs = {}
    BY ReadsTable DEF AlarmRead
  <2> QED BY <2>1, <2>2, MessageHeard
<1>2. Heard(Message(CatalogFields, CatalogWrite, CatalogRead))
  <2>1. IsWriter(CatalogWrite)
    BY WritesTable DEF CatalogWrite
  <2>2. IsReader(CatalogRead) /\ CatalogRead.needs = {}
    BY ReadsTable DEF CatalogRead
  <2> QED BY <2>1, <2>2, MessageHeard
<1>3. Heard(Message(MediaStatusFields, MediaStatusWrite, MediaStatusRead))
  <2>1. /\ "NotifyType" \in DOMAIN MediaStatusFields
        /\ MediaStatusFields["NotifyType"] = "text"
    BY DEF MediaStatusFields, Of
  <2>2. IsWriter(MediaStatusWrite) /\ MediaStatusWrite.needs = {{"NotifyType"}}
    <3>1. MediaStatusWrite = Needing(Writes({"NotifyType"}, {}), {{"NotifyType"}})
      BY DEF MediaStatusWrite, Needing
    <3> QED BY <3>1, WritesTable, NeedingWriter
  <2>3. IsReader(MediaStatusRead) /\ MediaStatusRead.needs = {{"NotifyType"}}
    <3>1. MediaStatusRead = Needing(Reads({"NotifyType"}), {{"NotifyType"}})
      BY DEF MediaStatusRead, Needing
    <3> QED BY <3>1, ReadsTable, NeedingReader
  <2> QED BY <2>1, <2>2, <2>3, MessageHeard
<1>4. Heard(Message(MobilePositionFields, MobilePositionWrite, MobilePositionRead))
  <2>1. IsWriter(MobilePositionWrite)
    BY WritesTable DEF MobilePositionWrite
  <2>2. IsReader(MobilePositionRead) /\ MobilePositionRead.needs = {}
    BY ReadsTable DEF MobilePositionRead
  <2> QED BY <2>1, <2>2, MessageHeard
<1>5. Heard(Message(PTZPositionFields, PTZNotifyWrite, PTZNotifyRead))
  <2>1. IsWriter(PTZNotifyWrite)
    BY WritesTable DEF PTZNotifyWrite
  <2>2. IsReader(PTZNotifyRead) /\ PTZNotifyRead.needs = {}
    BY ReadsTable DEF PTZNotifyRead
  <2> QED BY <2>1, <2>2, MessageHeard
<1>6. Heard(Message(SnapShotFinishedFields, SnapShotFinishedWrite, SnapShotFinishedRead))
  <2>1. /\ "SessionID" \in DOMAIN SnapShotFinishedFields
        /\ SnapShotFinishedFields["SessionID"] = "text"
        /\ "SnapShotList" \in DOMAIN SnapShotFinishedFields
        /\ SnapShotFinishedFields["SnapShotList"] = "list"
    BY DEF SnapShotFinishedFields, Of, ++
  <2>2. IsWriter(SnapShotFinishedWrite) /\ SnapShotFinishedWrite.needs = {{"SessionID"}}
        /\ SnapShotFinishedWrite.always = DOMAIN SnapShotFinishedFields
    <3>1. SnapShotFinishedWrite = Needing(Writes(DOMAIN SnapShotFinishedFields, {}),
          {{"SessionID"}})
      BY DEF SnapShotFinishedWrite, Needing
    <3> QED BY <3>1, WritesTable, NeedingWriter
  <2>3. IsReader(SnapShotFinishedRead) /\ SnapShotFinishedRead.needs = {{"SessionID"},
        {"SnapShotList"}}
    <3>1. SnapShotFinishedRead = Needing(Reads(DOMAIN SnapShotFinishedFields),
          {{"SessionID"}, {"SnapShotList"}})
      BY DEF SnapShotFinishedRead, Needing
    <3> QED BY <3>1, ReadsTable, NeedingReader
  <2> QED BY <2>1, <2>2, <2>3, MessageHeard
<1>7. Heard(Message(VideoUploadFields, VideoUploadWrite, VideoUploadRead))
  <2>1. /\ "Time" \in DOMAIN VideoUploadFields
        /\ VideoUploadFields["Time"] = "stamp"
    BY DEF VideoUploadFields, Of, ++
  <2>2. IsWriter(VideoUploadWrite)
    BY WritesTable DEF VideoUploadWrite
  <2>3. IsReader(VideoUploadRead) /\ VideoUploadRead.needs = {{"Time"}}
    <3>1. VideoUploadRead = Needing(Reads(DOMAIN VideoUploadFields), {{"Time"}})
      BY DEF VideoUploadRead, Needing
    <3> QED BY <3>1, ReadsTable, NeedingReader
  <2> QED BY <2>1, <2>2, <2>3, MessageHeard
<1>8. Heard(Message(UpgradeResultFields, UpgradeResultWrite, UpgradeResultRead))
  <2>1. /\ "SessionID" \in DOMAIN UpgradeResultFields
        /\ UpgradeResultFields["SessionID"] = "text"
        /\ "Result" \in DOMAIN UpgradeResultFields
        /\ UpgradeResultFields["Result"] = "result"
    BY DEF UpgradeResultFields, ResultField, Of, ++
  <2>2. IsWriter(UpgradeResultWrite) /\ UpgradeResultWrite.needs = {{"SessionID"}, {"Result"}}
    <3>1. UpgradeResultWrite = Needing(Writes(DOMAIN UpgradeResultFields, {}),
          {{"SessionID"}, {"Result"}})
      BY DEF UpgradeResultWrite, Needing
    <3> QED BY <3>1, WritesTable, NeedingWriter
  <2>3. IsReader(UpgradeResultRead) /\ UpgradeResultRead.needs = {{"SessionID"}, {"Result"}}
    <3>1. UpgradeResultRead = Needing(Reads(DOMAIN UpgradeResultFields), {{"SessionID"},
          {"Result"}})
      BY DEF UpgradeResultRead, Needing
    <3> QED BY <3>1, ReadsTable, NeedingReader
  <2> QED BY <2>1, <2>2, <2>3, MessageHeard
<1> QED
  BY <1>1, <1>2, <1>3, <1>4, <1>5, <1>6, <1>7, <1>8,
     NotificationFormats DEF NotificationKinds

(* Its reader does not refuse it.                                          *)
LEMMA HeardLoadable ==
    ASSUME NEW fmt, NEW v, NEW E, NEW H, Sound(fmt, E, H), Heard(fmt), Typed(fmt, v),
           Sendable(fmt, v)
    PROVE  Loadable(fmt, ToXml(fmt, v))
<1> SUFFICES ASSUME NEW S \in fmt.read.needs
             PROVE  \E f \in S : Accepted(fmt, ToXml(fmt, v), f)
  BY DEF Loadable
<1>1. PICK f \in S : f \in DOMAIN fmt.fields \ (E \cup {"EventType"})
      /\ fmt.fields[f] # "optional"
  BY DEF Sound
<1>2. Straight(fmt) /\ Carries(fmt, f) /\ f \in fmt.read.fields /\ f # "EventType"
  BY <1>1 DEF Sound, Carries
<1>3. v[f] \in ValuesOf(fmt.fields[f]) /\ fmt.fields[f] \in Classes
  BY <1>1, <1>2 DEF Typed, Straight
<1>4. \/ v[f] \notin {"none", "null", "blank", "cleared"}
      \/ fmt.fields[f] = "stamp"
      \/ fmt.fields[f] \in {"number", "list", "items"} /\ f \in fmt.write.always
  <2>1. CASE {f} \in fmt.write.needs /\ f # "error" /\ fmt.fields[f] \in {"text", "result"}
    <3>1. v[f] # "none"
      BY <2>1 DEF Sendable, Given
    <3> QED BY <1>3, <2>1, <3>1, ValueFacts
  <2> QED BY <2>1 DEF Heard
<1>5. Accepted(fmt, ToXml(fmt, v), f)
  BY <1>1, <1>2, <1>4, AcceptedWhenSet
<1> QED BY <1>5

(* The member that tells which control it is.                              *)
LEMMA ControlMember ==
    ASSUME NEW F, NEW W, NEW R, NEW f \in DOMAIN F
    PROVE  f \in DOMAIN Control(F, W, R).fields
BY FormatTable DEF Control, Message, ++

LEMMA ControlMembers ==
    /\ "RecordCmd" \in DOMAIN Controls["RecordCmd"].format.fields
    /\ "GuardCmd" \in DOMAIN Controls["GuardCmd"].format.fields
    /\ "TargetTrack" \in DOMAIN Controls["TargetTrack"].format.fields
<1>1. "RecordCmd" \in DOMAIN Control(RecordCmdFields, RecordCmdWrite, RecordCmdRead).fields
  <2>1. "RecordCmd" \in DOMAIN RecordCmdFields
    BY DEF RecordCmdFields, Of, ++
  <2> QED BY <2>1, ControlMember
<1>2. "GuardCmd" \in DOMAIN Control(GuardCmdFields, GuardCmdWrite, GuardCmdRead).fields
  <2>1. "GuardCmd" \in DOMAIN GuardCmdFields
    BY DEF GuardCmdFields, Of, ++
  <2> QED BY <2>1, ControlMember
<1>3. "TargetTrack" \in DOMAIN Control(TargetTrackFields, TargetTrackWrite,
      TargetTrackRead).fields
  <2>1. "TargetTrack" \in DOMAIN TargetTrackFields
    BY DEF TargetTrackFields, Of, ++
  <2> QED BY <2>1, ControlMember
<1> QED BY <1>1, <1>2, <1>3, ControlFormats

(* The list of presets is written also when it is empty.                   *)
LEMMA PresetListWritten ==
    LET m == Responses["PresetQuery"] IN
    m.fields["PresetList"] = "items" /\ "PresetList" \in m.write.always
<1>1. "PresetList" \in DOMAIN PresetFields /\ PresetFields["PresetList"] = "items"
  BY DEF PresetFields, Of, ++
<1>2. IsWriter(PresetWrite) /\ PresetWrite.always = {"SumNum", "PresetList"}
  BY WritesTable DEF PresetWrite
<1>3. IsReader(PresetRead)
  <2>1. PresetRead = Needing(Reads(DOMAIN PresetFields), {{"PresetList"}})
    BY DEF PresetRead, Needing
  <2> QED BY <2>1, ReadsTable, NeedingReader
<1> QED BY <1>1, <1>2, <1>3, MessageTables, ResponseFormats

----------------------------------------------------------------------------
\* What is in the messages

(* The message is what the application filled in, and what its reader made *)
(* of it.                                                                  *)
MessageOK ==
    /\ Typed(FormatOf, sent)
    /\ load \in {"none", "loaded", "refused", "broken"}
    /\ load # "none" =>
          /\ load = Load(FormatOf, Document)
          /\ ~IsStruct => Sendable(FormatOf, sent) /\ Handler \notin {"unknown", "keepalive"}
    /\ load = "loaded" => got = FromXml(FormatOf, Document)

(* What the reply says about it.                                           *)
ReplyOK ==
    /\ stage = "sent" /\ ~IsStruct => Sendable(FormatOf, sent)
    /\ code = 200 => \/ load = "loaded"
                     \/ kind = "Keepalive"
                     \/ load = "refused" /\ ~Downward

(* The same for the answer.                                                *)
AnswerOK ==
    /\ answer.from \in {"nobody", "application", "timer", "platform"}
    /\ answer.from # "nobody" => Typed(AnswerFormat, answer.value)
    /\ answer.from = "timer" => answer.value = Own("set")
    /\ answer.from = "platform" => answer.value = Own("none") /\ kind = "Alarm"
    /\ answer.load \in {"none", "lost", "loaded", "refused", "broken"}
    /\ answer.load # "none" => answer.from # "nobody"
    /\ answer.load \notin {"none", "lost"} => answer.load = Load(AnswerFormat, AnswerDocument)
    /\ answer.load = "loaded" => answer.got = FromXml(AnswerFormat, AnswerDocument)

(* Every step keeps MessageOK, ReplyOK and AnswerOK.                       *)
LEMMA MessageStays ==
    ASSUME MessageOK, UNCHANGED <<kind, sent, got, load>> PROVE MessageOK'
BY DEF MessageOK, FormatOf, Document, IsStruct, Handler, CommandElement

LEMMA AnswerStays ==
    ASSUME AnswerOK, UNCHANGED <<kind, sent, answer>> PROVE AnswerOK'
BY DEF AnswerOK, AnswerFormat, AnswerDocument, Command, Own, Defaults

LEMMA InitContents == Init => MessageOK /\ ReplyOK /\ AnswerOK
<1> SUFFICES ASSUME Init PROVE MessageOK /\ ReplyOK /\ AnswerOK
  OBVIOUS
<1>1. Typed(FormatOf, sent)
  BY FilledAssumption DEF Init, FormatOf, IsStruct
<1> QED BY <1>1 DEF Init, MessageOK, ReplyOK, AnswerOK, Nothing

LEMMA SendContents ==
    ASSUME FlowOK, MessageOK, ReplyOK, AnswerOK, Send PROVE MessageOK' /\ ReplyOK' /\ AnswerOK'
<1>1. UNCHANGED <<kind, sent>> /\ UNCHANGED <<got, load, code, answer>> /\ stage = "made"
  BY DEF Send
<1>2. stage' = "sent" => IsStruct \/ Sendable(FormatOf, sent)
  BY DEF Send
<1>3. code = 0
  BY <1>1 DEF FlowOK
<1>4. ReplyOK'
  BY <1>1, <1>2, <1>3 DEF ReplyOK, FormatOf, IsStruct
<1> QED BY <1>1, <1>4, MessageStays, AnswerStays

LEMMA ReceiveContents ==
    ASSUME FlowOK, MessageOK, ReplyOK, AnswerOK, Receive PROVE MessageOK' /\ ReplyOK' /\ AnswerOK'
<1> DEFINE result == Load(FormatOf, Document)
<1>1. UNCHANGED <<kind, sent>> /\ UNCHANGED <<answer, outcome>> /\ stage = "sent" /\ ~IsStruct
  BY DEF Receive
<1>2. load = "none" /\ Sendable(FormatOf, sent)
  BY <1>1 DEF FlowOK, ReplyOK
<1>3. stage' = "replied"
  BY DEF Receive, Unread, KeptAlive, Breaks, Handles, Replies
<1>4. AnswerOK'
  BY <1>1, AnswerStays
<1>5. CASE UNCHANGED <<got, load>> /\ (code' = 200 => kind = "Keepalive")
  <2>1. MessageOK'
    BY <1>1, <1>5, MessageStays
  <2>2. ReplyOK'
    BY <1>1, <1>3, <1>5 DEF ReplyOK
  <2> QED BY <1>4, <2>1, <2>2
<1>6. CASE /\ Handler \notin {"unknown", "keepalive"}
           /\ load' = result
           /\ result = "loaded" => got' = FromXml(FormatOf, Document)
           /\ code' = 200 => result # "broken" /\ (result = "refused" => ~Downward)
  <2>1. result \in {"loaded", "refused", "broken"}
    BY LoadCases
  <2>2. FormatOf' = FormatOf /\ Document' = Document /\ IsStruct' = IsStruct
        /\ Handler' = Handler /\ Downward' = Downward
    BY <1>1 DEF FormatOf, Document, IsStruct, Handler, CommandElement, Downward
  <2>3. load' # "none" => load' = Load(FormatOf, Document)
    BY <1>6
  <2>4. load' = "loaded" => got' = FromXml(FormatOf, Document)
    BY <1>6
  <2>5. Typed(FormatOf, sent)
    BY DEF MessageOK
  <2>6. load' \in {"loaded", "refused", "broken"}
    BY <1>6, <2>1
  <2>7. MessageOK'
    BY <1>1, <1>2, <1>6, <2>3, <2>4, <2>5, <2>6
       DEF MessageOK, FormatOf, Document, IsStruct, Handler, CommandElement
  <2>8. ReplyOK'
    BY <1>1, <1>3, <1>6, <2>1, <2>2 DEF ReplyOK
  <2> QED BY <1>4, <2>7, <2>8
<1>7. Handler \notin {"unknown", "keepalive"} /\ (Breaks \/ Handles) =>
         /\ load' = result
         /\ result = "loaded" => got' = FromXml(FormatOf, Document)
         /\ code' = 200 => result # "broken" /\ (result = "refused" => ~Downward)
  BY DEF Breaks, Handles, ReadAs, Replies
<1>8. \/ Handler \notin {"unknown", "keepalive"} /\ (Breaks \/ Handles)
      \/ UNCHANGED <<got, load>> /\ (code' = 200 => kind = "Keepalive")
  BY OnlyKeepalive DEF Receive, Unread, KeptAlive, Replies
<1> QED BY <1>5, <1>6, <1>7, <1>8

LEMMA ReadStructContents ==
    ASSUME FlowOK, MessageOK, ReplyOK, AnswerOK, ReadStruct
    PROVE  MessageOK' /\ ReplyOK' /\ AnswerOK'
<1> DEFINE result == Load(FormatOf, Document)
<1>1. /\ UNCHANGED <<kind, sent>> /\ UNCHANGED <<code, answer>> /\ stage = "sent" /\ IsStruct
      /\ stage' = "over"
  BY DEF ReadStruct
<1>2. code = 0
  BY <1>1 DEF FlowOK
<1>3. load' = result /\ (result = "loaded" => got' = FromXml(FormatOf, Document))
  BY DEF ReadStruct, ReadAs
<1>4. load' \in {"loaded", "refused", "broken"}
  BY <1>3, LoadCases
<1>5. MessageOK'
  BY <1>1, <1>3, <1>4 DEF MessageOK, FormatOf, Document, IsStruct
<1>6. ReplyOK'
  BY <1>1, <1>2 DEF ReplyOK
<1> QED BY <1>1, <1>5, <1>6, AnswerStays

LEMMA ReplyContents ==
    ASSUME FlowOK, MessageOK, ReplyOK, AnswerOK, Reply \/ GiveUp
    PROVE  MessageOK' /\ ReplyOK' /\ AnswerOK'
<1>1. /\ UNCHANGED <<kind, sent>> /\ UNCHANGED <<got, load, code, answer>>
      /\ stage' # "sent"
  BY DEF Reply, GiveUp
<1>2. ReplyOK'
  BY <1>1 DEF ReplyOK, Downward
<1> QED BY <1>1, <1>2, MessageStays, AnswerStays

LEMMA AnswersContents ==
    ASSUME FlowOK, MessageOK, ReplyOK, AnswerOK, NEW value,
           NEW from \in {"application", "timer", "platform"}, Answers(value, from),
           Typed(AnswerFormat, value), from = "timer" => value = Own("set"),
           from = "platform" => value = Own("none") /\ kind = "Alarm"
    PROVE  MessageOK' /\ ReplyOK' /\ AnswerOK'
<1>1. /\ UNCHANGED <<kind, sent>> /\ UNCHANGED <<got, load, code, outcome>>
      /\ stage' # "sent"
  BY DEF Answers
<1>2. PICK sn : answer' = [Nothing EXCEPT !.value = value, !.sn = sn, !.from = from]
  BY DEF Answers
<1>3. answer'.value = value /\ answer'.load = "none" /\ answer'.from = from
  BY <1>2 DEF Nothing
<1>4. AnswerFormat' = AnswerFormat /\ Own("set")' = Own("set") /\ Own("none")' = Own("none")
  BY <1>1 DEF AnswerFormat, Command, Own, Defaults
<1>5. AnswerOK'
  BY <1>1, <1>3, <1>4 DEF AnswerOK
<1>6. ReplyOK'
  BY <1>1 DEF ReplyOK, Downward
<1> QED BY <1>1, <1>5, <1>6, MessageStays

----------------------------------------------------------------------------
\* The answer a platform gives by itself

(* The members a platform sets by itself.                                  *)
LEMMA DefaultsFacts ==
    /\ "Result" \in DOMAIN Defaults /\ Defaults["Result"] \in {"set", "error"}
    /\ \A f \in DOMAIN Defaults \ {"Result"} : Defaults[f] = "set"
    /\ Command = "DeviceStatus" => {"Online", "Status"} \subseteq DOMAIN Defaults
    /\ Command = "ConfigDownload" => Defaults["Result"] = "error"
    /\ {"DeviceID", "Reason"} \cap DOMAIN Defaults = {}
BY DEF Defaults, Error, Success, ++

LEMMA NoneOrSet == \A c : {"none", "set"} \subseteq ValuesOf(c)
BY DEF ValuesOf

LEMMA OwnFacts ==
    ASSUME MessageOK, kind \in DOMAIN Requests, WillAnswer, NEW reason \in {"none", "set"}
    PROVE  /\ DOMAIN Own(reason) = DOMAIN AnswerFormat.fields
           /\ \A f \in DOMAIN Own(reason) : Own(reason)[f] \in {"none", "set", "error"}
           /\ \A f \in DOMAIN Own(reason) : Own(reason)[f] = "error" => f = "Result"
           /\ \A f \in DOMAIN Own(reason) \cap DOMAIN Defaults : Own(reason)[f] = Defaults[f]
           /\ "Reason" \in DOMAIN Own(reason) => Own(reason)["Reason"] = reason
<1>1. "DeviceID" \in DOMAIN sent => sent["DeviceID"] \in {"none", "set"}
  <2>1. kind # "Keepalive" /\ ~IsStruct
    BY StructsApart DEF WillAnswer, Handler, IsStruct
  <2>2. SoundMessage(FormatOf, Except(Lost, kind), Risky(kind))
    BY <2>1, RequestsSound DEF FormatOf
  <2>3. ValuesOf("raw") = {"none", "set"}
    BY DEF ValuesOf
  <2> QED BY <2>2, <2>3 DEF SoundMessage, MessageOK, Typed
<1>2. DOMAIN Own(reason) = DOMAIN AnswerFormat.fields
  BY DEF Own
<1>3. ASSUME NEW f \in DOMAIN Own(reason)
      PROVE  Own(reason)[f] = CASE f = "DeviceID" -> IF f \in DOMAIN sent THEN sent[f] ELSE "none"
                                [] f = "Reason"             -> reason
                                [] f \in DOMAIN Defaults    -> Defaults[f]
                                [] OTHER                    -> "none"
  BY <1>2 DEF Own
<1> HIDE DEF Own
<1>4. ASSUME NEW f \in DOMAIN Own(reason)
      PROVE  /\ Own(reason)[f] \in {"none", "set", "error"}
             /\ Own(reason)[f] = "error" => f = "Result"
             /\ f \in DOMAIN Defaults => Own(reason)[f] = Defaults[f]
             /\ f = "Reason" => Own(reason)[f] = reason
  <2>1. CASE f = "DeviceID"
    BY <1>1, <1>3, <2>1, DefaultsFacts
  <2>2. CASE f = "Reason"
    BY <1>3, <2>2, DefaultsFacts
  <2>3. CASE f \notin {"DeviceID", "Reason"} /\ f \in DOMAIN Defaults
    BY <1>3, <2>3, DefaultsFacts
  <2>4. CASE f \notin {"DeviceID", "Reason"} /\ f \notin DOMAIN Defaults
    BY <1>3, <2>4
  <2> QED BY <2>1, <2>2, <2>3, <2>4
<1> QED BY <1>2, <1>4

(* They are values of the answer.                                          *)
LEMMA OwnTyped ==
    ASSUME MessageOK, kind \in DOMAIN Requests, WillAnswer, NEW reason \in {"none", "set"}
    PROVE  Typed(AnswerFormat, Own(reason))
<1>1. Fits(AnswerFormat, Command)
  BY AnswerCommand, AnswersFit DEF AnswerFormat
<1>2. "Result" \in DOMAIN AnswerFormat.fields => "error" \in ValuesOf(AnswerFormat.fields["Result"])
  BY <1>1 DEF Fits, ValuesOf
<1>3. \A f \in DOMAIN AnswerFormat.fields : Own(reason)[f] \in ValuesOf(AnswerFormat.fields[f])
  BY <1>2, OwnFacts, NoneOrSet
<1> QED BY <1>3, OwnFacts DEF Typed

(* Their writer lets them pass.                                            *)
LEMMA OwnSendable ==
    ASSUME MessageOK, kind \in DOMAIN Requests, WillAnswer, NEW reason \in {"none", "set"}
    PROVE  Sendable(AnswerFormat, Own(reason))
<1> DEFINE own == Own(reason)
<1>1. Fits(AnswerFormat, Command)
  BY AnswerCommand, AnswersFit DEF AnswerFormat
<1>2. /\ DOMAIN own = DOMAIN AnswerFormat.fields
      /\ \A f \in DOMAIN own \cap DOMAIN Defaults : own[f] = Defaults[f]
  BY OwnFacts
<1> HIDE DEF own
<1>3. ASSUME NEW S \in AnswerFormat.write.needs PROVE \E f \in S : Given(own, f)
  <2>1. PICK f \in S : f \in WrittenFor(Command) \cap (DOMAIN AnswerFormat.fields \cup {"error"})
    BY <1>1 DEF Fits
  <2>2. "Result" \in DOMAIN own
    BY <1>1, <1>2 DEF Fits
  <2>3. CASE f = "error"
    <3>1. Command = "ConfigDownload"
      BY <2>1, <2>3 DEF WrittenFor
    <3> QED BY <1>2, <2>2, <2>3, <3>1, DefaultsFacts DEF Given
  <2>4. CASE f # "error"
    <3>1. f \in DOMAIN own \cap DOMAIN Defaults
      BY <1>2, <2>1, <2>4, DefaultsFacts DEF WrittenFor
    <3>2. own[f] # "none"
      BY <1>2, <3>1, DefaultsFacts
    <3> QED BY <2>4, <3>2 DEF Given
  <2> QED BY <2>3, <2>4
<1> QED BY <1>3 DEF Sendable, own

(* So does their reader.                                                   *)
LEMMA OwnLoadable ==
    ASSUME MessageOK, kind \in DOMAIN Requests, WillAnswer, NEW reason \in {"none", "set"}
    PROVE  Loadable(AnswerFormat, ToXml(AnswerFormat, Own(reason)))
<1> DEFINE own == Own(reason)
           E == Except(LostInAnswer, Command)
<1>1. Fits(AnswerFormat, Command) /\ Sound(AnswerFormat, E, RiskyAnswer(Command))
  BY AnswerCommand, AnswersFit, AnswersSound DEF AnswerFormat, SoundMessage
<1>2. /\ DOMAIN own = DOMAIN AnswerFormat.fields
      /\ \A f \in DOMAIN own \cap DOMAIN Defaults : own[f] = Defaults[f]
      /\ Typed(AnswerFormat, own)
  BY OwnFacts, OwnTyped
<1> HIDE DEF own, E
<1>3. ASSUME NEW S \in AnswerFormat.read.needs
      PROVE  \E f \in S : Accepted(AnswerFormat, ToXml(AnswerFormat, own), f)
  <2>1. PICK f \in S : /\ f \in DOMAIN AnswerFormat.fields \ (E \cup {"EventType"})
                       /\ AnswerFormat.fields[f] # "optional"
    BY <1>1 DEF Sound
  <2>2. Straight(AnswerFormat) /\ Carries(AnswerFormat, f) /\ f \in AnswerFormat.read.fields
        /\ f # "EventType"
    BY <1>1, <2>1 DEF Sound, Carries
  <2>3. f \in ReadFor(Command)
    BY <1>1 DEF Fits
  <2>4. \/ own[f] \notin {"none", "null", "blank", "cleared"}
        \/ AnswerFormat.fields[f] \in {"number", "list", "items"}
              /\ f \in AnswerFormat.write.always
    <3>1. CASE f \in DOMAIN Defaults
      BY <1>2, <2>1, <3>1, DefaultsFacts
    <3>2. CASE f \notin DOMAIN Defaults
      <4>1. Command = "PresetQuery" /\ f = "PresetList"
        BY <2>3, <3>2, DefaultsFacts DEF ReadFor
      <4> QED BY <4>1, PresetListWritten DEF AnswerFormat
    <3> QED BY <3>1, <3>2
  <2>5. Accepted(AnswerFormat, ToXml(AnswerFormat, own), f)
    BY <1>2, <2>1, <2>2, <2>4, AcceptedWhenSet
  <2> QED BY <2>5
<1> QED BY <1>3 DEF Loadable, own

(* Which does not break on them.                                           *)
LEMMA OwnUnbroken ==
    ASSUME MessageOK, kind \in DOMAIN Requests, WillAnswer, NEW reason \in {"none", "set"},
           reason = "set" \/ Command # "DeviceStatus"
    PROVE  Load(AnswerFormat, ToXml(AnswerFormat, Own(reason))) # "broken"
<1> SUFFICES ASSUME Load(AnswerFormat, ToXml(AnswerFormat, Own(reason))) = "broken"
             PROVE  FALSE
  OBVIOUS
<1>1. Sound(AnswerFormat, Except(LostInAnswer, Command), RiskyAnswer(Command))
  BY AnswerCommand, AnswersSound DEF AnswerFormat, SoundMessage
<1>2. \/ Blank(Own(reason))
      \/ \E f \in RiskyAnswer(Command) \cap DOMAIN Own(reason) : Own(reason)[f] = "none"
  BY <1>1, OwnTyped, SoundBroken
<1>3. ~Blank(Own(reason))
  BY OwnFacts DEF Blank
<1> QED BY <1>2, <1>3, OwnFacts DEF RiskyAnswer

----------------------------------------------------------------------------
\* The theorems

(* The answer of a platform and of an application are taken alike.         *)
LEMMA TakeAnswerContents ==
    ASSUME FlowOK, MessageOK, ReplyOK, AnswerOK, TakeAnswer
    PROVE  MessageOK' /\ ReplyOK' /\ AnswerOK'
<1> DEFINE as == TakenAs
           read == IF as = "loaded" THEN FromXml(AnswerFormat, AnswerDocument) ELSE <<>>
<1>1. /\ UNCHANGED <<kind, sent>> /\ UNCHANGED <<got, load, code>>
      /\ stage = "answered" /\ stage' # "sent"
  BY DEF TakeAnswer
<1>2. WillAnswer /\ ~IsStruct /\ answer.from # "nobody" /\ kind \in DOMAIN Requests
  BY <1>1 DEF FlowOK, IsStruct
<1>3. answer' = [answer EXCEPT !.load = as, !.got = read]
  BY DEF TakeAnswer
<1>4. /\ as \in {"lost", "loaded", "refused", "broken"}
      /\ as # "lost" => as = Load(AnswerFormat, AnswerDocument)
  <2>1. ~Found \/ Known
    <3>1. ASSUME Found, Command = "Alarm" PROVE FALSE
      <4>1. kind = "Alarm"
        BY <1>2, <3>1, AnswerCommand
      <4>2. "Alarm" \notin QueryKinds \cup ControlKinds
        BY DEF QueryKinds, ControlKinds
      <4> QED
        BY <3>1, <4>1, <4>2, QueryDomain, ControlDomain DEF Found, Routed, Downward
    <3> QED BY <3>1 DEF Known
  <2> QED BY <2>1, LoadCases DEF TakenAs
<1> HIDE DEF as
<1>5. answer' = [value |-> answer.value, got |-> read, load |-> as,
                 sn |-> answer.sn, from |-> answer.from]
  BY <1>3 DEF FlowOK
<1>6. /\ answer'.value = answer.value /\ answer'.got = read /\ answer'.load = as
      /\ answer'.from = answer.from
  BY <1>5
<1>7. /\ AnswerFormat' = AnswerFormat /\ Own("set")' = Own("set") /\ Own("none")' = Own("none")
  BY <1>1 DEF AnswerFormat, Command, Own, Defaults
<1>8. AnswerDocument' = AnswerDocument
  BY <1>1, <1>6 DEF AnswerDocument, AnswerFormat, Command
<1>9. AnswerOK'
  BY <1>1, <1>2, <1>4, <1>6, <1>7, <1>8 DEF AnswerOK
<1>10. ReplyOK'
  BY <1>1 DEF ReplyOK, Downward
<1> QED BY <1>1, <1>9, <1>10, MessageStays

LEMMA AnyAnswerContents ==
    ASSUME FlowOK, MessageOK, ReplyOK, AnswerOK, AppAnswers \/ TimerAnswers \/ AlarmAnswers
    PROVE  MessageOK' /\ ReplyOK' /\ AnswerOK'
<1>1. stage = "waiting"
  BY DEF AppAnswers, TimerAnswers, AlarmAnswers
<1>2. WillAnswer /\ ~IsStruct /\ kind \in DOMAIN Requests
  BY <1>1 DEF FlowOK, IsStruct
<1>3. CASE AppAnswers
  <2>1. PICK value \in Filled(AnswerFormat) : Answers(value, "application")
    BY <1>3 DEF AppAnswers
  <2>2. Typed(AnswerFormat, value)
    BY <1>2, AnswerCommand, FilledAssumption DEF AnswerFormat
  <2> QED BY <2>1, <2>2, AnswersContents
<1>4. CASE TimerAnswers
  BY <1>2, <1>4, OwnTyped, AnswersContents DEF TimerAnswers
<1>5. CASE AlarmAnswers
  BY <1>2, <1>5, OwnTyped, AnswersContents DEF AlarmAnswers
<1> QED BY <1>3, <1>4, <1>5

LEMMA NextContents ==
    FlowOK /\ MessageOK /\ ReplyOK /\ AnswerOK /\ [Next]_vars => MessageOK' /\ ReplyOK'
          /\ AnswerOK'
<1> SUFFICES ASSUME FlowOK, MessageOK, ReplyOK, AnswerOK, [Next]_vars
             PROVE  MessageOK' /\ ReplyOK' /\ AnswerOK'
  OBVIOUS
<1>1. CASE UNCHANGED vars
  <2>1. UNCHANGED <<kind, sent, got, load>> /\ UNCHANGED <<kind, sent, answer>>
        /\ UNCHANGED <<kind, sent, load, stage, code>>
    BY <1>1 DEF vars
  <2>2. ReplyOK'
    BY <2>1 DEF ReplyOK, FormatOf, IsStruct, Downward
  <2> QED BY <2>1, <2>2, MessageStays, AnswerStays
<1> QED
  BY <1>1, SendContents, ReceiveContents, ReadStructContents, ReplyContents, AnyAnswerContents,
     TakeAnswerContents DEF Next

(* What is in the messages is an invariant.                                *)
LEMMA Contents == Spec => [](FlowOK /\ MessageOK /\ ReplyOK /\ AnswerOK)
<1>1. Init => FlowOK /\ MessageOK /\ ReplyOK /\ AnswerOK
  BY InitFlow, InitContents
<1>2. FlowOK /\ MessageOK /\ ReplyOK /\ AnswerOK /\ [Next]_vars =>
         (FlowOK /\ MessageOK /\ ReplyOK /\ AnswerOK)'
  BY NextFlow, NextContents
<1> QED BY <1>1, <1>2, PTL DEF Spec

----------------------------------------------------------------------------
\* The theorems about the contents

(* A message that was read has a handler, and what its reader made of it   *)
(* follows from its tables.                                                *)
LEMMA MessageRead ==
    ASSUME FlowOK, MessageOK, load # "none"
    PROVE  /\ Sound(FormatOf, Except(Lost, kind), Risky(kind)) /\ Typed(FormatOf, sent)
           /\ load = Load(FormatOf, ToXml(FormatOf, sent))
           /\ load = "loaded" => got = FromXml(FormatOf, ToXml(FormatOf, sent))
<1>1. kind \in DOMAIN Structs \cup DOMAIN Requests
  BY DEF FlowOK
<1>2. kind # "Keepalive"
  <2>1. CASE IsStruct
    <3>1. "Keepalive" \in DOMAIN Requests
      BY RequestDomain DEF NotificationKinds
    <3> QED BY <2>1, <3>1, StructsApart DEF IsStruct
  <2>2. CASE ~IsStruct
    BY <2>2 DEF MessageOK, Handler
  <2> QED BY <2>1, <2>2
<1> QED BY <1>1, <1>2, FormatSound DEF MessageOK, Document

(* The same for an answer that was looked up.                              *)
LEMMA AnswerRead ==
    ASSUME FlowOK, AnswerOK, answer.load \notin {"none", "lost"}
    PROVE  /\ Sound(AnswerFormat, Except(LostInAnswer, Command), RiskyAnswer(Command))
           /\ Typed(AnswerFormat, answer.value)
           /\ answer.load = Load(AnswerFormat, ToXml(AnswerFormat, answer.value))
           /\ answer.load = "loaded" =>
                 answer.got = FromXml(AnswerFormat, ToXml(AnswerFormat, answer.value))
<1>1. answer.from # "nobody"
  BY DEF AnswerOK
<1>2. kind \in DOMAIN Requests /\ WillAnswer
  BY <1>1 DEF FlowOK, IsStruct
<1> QED BY <1>1, <1>2, AnswerCommand, AnswersSound
        DEF AnswerOK, AnswerDocument, AnswerFormat, SoundMessage

(* Whatever an application sets, the peer's application gets: every member *)
(* of every message, answer and struct arrives as writer and reader of     *)
(* type_define_ext.cpp mean it, those apart that the two disagree about.   *)
THEOREM ReadsWhatWasWritten == Spec => []ReadBack
<1>1. FlowOK /\ MessageOK /\ AnswerOK => ReadBack
  <2> SUFFICES ASSUME FlowOK, MessageOK, AnswerOK PROVE ReadBack
    OBVIOUS
  <2>1. ASSUME load = "loaded" PROVE SameMembers(FormatOf, sent, got, Except(Lost, kind))
    BY <2>1, MessageRead, SoundReadBack
  <2>2. ASSUME answer.load = "loaded"
        PROVE  SameMembers(AnswerFormat, answer.value, answer.got, Except(LostInAnswer, Command))
    BY <2>2, AnswerRead, SoundReadBack
  <2> QED BY <2>1, <2>2 DEF ReadBack
<1> QED BY <1>1, Contents, PTL

(* What one platform can send makes the reader of the other dereference a  *)
(* null pointer in three cases only.                                       *)
THEOREM BreaksOnlyOnBlanks == Spec => []Unharmed
<1>1. FlowOK /\ MessageOK /\ AnswerOK => Unharmed
  <2> SUFFICES ASSUME FlowOK, MessageOK, AnswerOK PROVE Unharmed
    OBVIOUS
  <2>1. ASSUME load = "broken"
        PROVE  Blank(sent) \/ (kind = "CatalogQuery" /\ sent["DeviceID"] = "none")
    <3>1. \/ Blank(sent)
          \/ \E f \in Risky(kind) \cap DOMAIN sent : sent[f] = "none"
      BY <2>1, MessageRead, SoundBroken
    <3> QED BY <3>1 DEF Risky
  <2>2. ASSUME answer.load = "broken"
        PROVE  Blank(answer.value) \/ (Command = "DeviceStatus" /\ answer.value["Reason"] =
              "none")
    <3>1. \/ Blank(answer.value)
          \/ \E f \in RiskyAnswer(Command) \cap DOMAIN answer.value : answer.value[f] = "none"
      BY <2>2, AnswerRead, SoundBroken
    <3> QED BY <3>1 DEF RiskyAnswer
  <2> QED BY <2>1, <2>2 DEF Unharmed
<1> QED BY <1>1, Contents, PTL

(* A format whose members are all set is neither refused nor does it break *)
(* its reader.                                                             *)
LEMMA CompleteIsRead ==
    ASSUME NEW fmt, NEW v, NEW E, NEW H, Sound(fmt, E, H), Typed(fmt, v), Complete(v)
    PROVE  Load(fmt, ToXml(fmt, v)) \notin {"refused", "broken"}
<1>1. ~Blank(v) /\ ~\E f \in H \cap DOMAIN v : v[f] = "none"
  BY DEF Complete, Blank
<1>2. Load(fmt, ToXml(fmt, v)) # "broken"
  BY <1>1, SoundBroken
<1>3. Load(fmt, ToXml(fmt, v)) # "refused"
  BY SoundRefused, LoadCases
<1> QED BY <1>2, <1>3

(* on_query(), on_control() and on_notify() know every message whose       *)
(* members are set, three apart.                                           *)
LEMMA CompleteIsHandled ==
    ASSUME kind \in DOMAIN Requests, Complete(sent), Typed(Requests[kind].format, sent)
    PROVE  Handler # "unknown" \/ kind \in {"AlarmQuery", "MobilePositionQuery",
                                            "PTZPositionNotify"}
<1>1. kind \in {"RecordCmd", "GuardCmd", "TargetTrack"} => kind \in DOMAIN sent
  <2>1. {"RecordCmd", "GuardCmd", "TargetTrack"} \subseteq ControlKinds
    BY DEF ControlKinds
  <2>2. \A k \in {"RecordCmd", "GuardCmd", "TargetTrack"} :
           k \in DOMAIN Requests[k].format.fields
    BY <2>1, ControlMembers, RequestsOf
  <2> QED BY <2>2 DEF Typed
<1>2. CommandElement
  BY <1>1 DEF CommandElement, Complete
<1>3. CASE kind \in QueryKinds
  BY <1>3 DEF QueryKinds, Handler
<1>4. CASE kind \in ControlKinds
  BY <1>2, <1>4 DEF ControlKinds, Handler
<1>5. CASE kind \in NotificationKinds
  BY <1>5 DEF NotificationKinds, Handler
<1> QED BY <1>3, <1>4, <1>5, RequestDomain

(* A message whose members are all set is handled and read by the peer, and*)
(* so is such an answer.                                                   *)
THEOREM CompleteIsUnderstood == Spec => []Understood
<1>1. FlowOK /\ MessageOK /\ AnswerOK => Understood
  <2> SUFFICES ASSUME FlowOK, MessageOK, AnswerOK PROVE Understood
    OBVIOUS
  <2>1. ASSUME ~IsStruct, Complete(sent)
        PROVE  /\ load \notin {"refused", "broken"}
               /\ \/ Handler # "unknown"
                  \/ kind \in {"AlarmQuery", "MobilePositionQuery", "PTZPositionNotify"}
    <3>1. load \notin {"refused", "broken"}
      BY <2>1, MessageRead, CompleteIsRead
    <3>2. kind \in DOMAIN Requests /\ Typed(Requests[kind].format, sent)
      BY <2>1 DEF FlowOK, MessageOK, IsStruct, FormatOf
    <3> QED BY <2>1, <3>1, <3>2, CompleteIsHandled
  <2>2. ASSUME answer.from # "nobody", Complete(answer.value)
        PROVE  answer.load \notin {"refused", "broken"}
    BY <2>2, AnswerRead, CompleteIsRead
  <2> QED BY <2>1, <2>2 DEF Understood
<1> QED BY <1>1, Contents, PTL

(* A request that succeeded has been read by the peer, and its answer, if  *)
(* it waits for one, by the sender: a notification is answered 200 whatever*)
(* its reader returned, but every one its writer lets pass is read.        *)
THEOREM SucceededWasRead == Spec => []SuccessWasRead
<1>1. FlowOK /\ MessageOK /\ ReplyOK => SuccessWasRead
  <2> SUFFICES ASSUME FlowOK, MessageOK, ReplyOK, outcome = "succeeded", ~IsStruct
               PROVE  /\ load = "loaded" \/ kind = "Keepalive"
                      /\ Waits # "none" => answer.load = "loaded"
    BY DEF SuccessWasRead
  <2>1. code = 200 /\ (Waits # "none" => answer.load = "loaded") /\ kind \in DOMAIN Requests
    BY DEF FlowOK, IsStruct
  <2>2. ASSUME load = "refused", ~Downward PROVE FALSE
    <3>1. kind \in NotificationKinds \ {"Broadcast", "Keepalive"}
      <4>1. Handler # "keepalive"
        BY <2>2 DEF MessageOK
      <4> QED BY <2>1, <2>2, <4>1, RequestDomain, QueryDomain, ControlDomain
              DEF Downward, Handler
    <3>2. Heard(FormatOf)
      BY <3>1, NotificationsHeard, RequestsOf DEF FormatOf
    <3>3. Sendable(FormatOf, sent)
      BY <2>2 DEF MessageOK
    <3>4. Loadable(FormatOf, ToXml(FormatOf, sent))
      BY <2>2, <3>2, <3>3, MessageRead, HeardLoadable
    <3> QED BY <2>2, <3>4, MessageRead, LoadCases
  <2> QED BY <2>1, <2>2 DEF ReplyOK
<1> QED BY <1>1, Contents, PTL

(* The answer a platform gives when its application is silent, and the one *)
(* to an alarm, pass their own writer and the reader of the peer.          *)
THEOREM SilenceGetsAnAnswer == Spec => []SilenceIsAnswered
<1>1. FlowOK /\ MessageOK /\ AnswerOK => SilenceIsAnswered
  <2> SUFFICES ASSUME FlowOK, MessageOK, AnswerOK,
                      answer.from # "nobody", answer.from # "application"
               PROVE  /\ Sendable(AnswerFormat, answer.value)
                      /\ answer.load \notin {"refused", "broken"}
    BY DEF SilenceIsAnswered
  <2>1. kind \in DOMAIN Requests /\ WillAnswer
    BY DEF FlowOK, IsStruct
  <2>2. PICK reason \in {"none", "set"} :
           answer.value = Own(reason) /\ (reason = "none" => kind = "Alarm")
    BY DEF AnswerOK
  <2>3. kind = "Alarm" => Command # "DeviceStatus"
    <3>1. "Alarm" \in NotificationKinds
      BY DEF NotificationKinds
    <3> QED BY <3>1, NotificationCommands, RequestsOf DEF Command
  <2>4. Sendable(AnswerFormat, answer.value)
    BY <2>1, <2>2, OwnSendable
  <2>5. Loadable(AnswerFormat, ToXml(AnswerFormat, answer.value))
    BY <2>1, <2>2, OwnLoadable
  <2>6. reason = "set" \/ Command # "DeviceStatus"
    BY <2>2, <2>3
  <2>7. Load(AnswerFormat, ToXml(AnswerFormat, answer.value)) # "broken"
    BY <2>1, <2>2, <2>6, OwnUnbroken
  <2>8. Load(AnswerFormat, ToXml(AnswerFormat, answer.value)) # "refused"
    BY <2>5, LoadCases
  <2>9. ASSUME answer.load \in {"refused", "broken"} PROVE FALSE
    BY <2>7, <2>8, <2>9, AnswerRead
  <2> QED BY <2>4, <2>9
<1> QED BY <1>1, Contents, PTL
=============================================================================
