----------------------------- MODULE FormFields -----------------------------
(***************************************************************************)
(* How the classes of web/assets/js/model move a settings object between   *)
(* its JSON and the fields of a dialog.  A class has a constructor with    *)
(* positional parameters, fromJson, which passes it the values of JSON     *)
(* keys in that order, and toJson.  A value is one of a few that the code  *)
(* tells apart; what the strings and numbers are does not matter here.     *)
(***************************************************************************)
EXTENDS Naturals, Sequences, FiniteSets

\* "absent": undefined, or no such key; "empty": '', 0, false, null, no element;
\* "default": a constructor's default that is not empty; "other": entered in the
\* dialog; "given": set by the code, such as a key pair from the server or what a
\* link carried; "drawn": a key of a pair that was drawn when the object was read;
\* "cleared": the null of an emptied number, where the code tells it from 0.
\* Of lists of headers, "hosted" has a Host and the others have none; a name is
\* repeated in "twice"; all headers of "blank" and some of "partly" lack their name or
\* their value.  "special" is a text with a character, such as >, that a URL escapes
\* and for which genSSLink's Base64 has a -; "encoded" is that text as a URL spells it.
Value == {"absent", "empty", "default", "other", "given", "drawn", "cleared",
          "hosted", "twice", "blank", "partly", "special", "encoded"}

\* A class: the fields in the order of the constructor's parameters, the keys in
\* the order fromJson passes them, the key toJson writes each field to, and the
\* fields whose default is not empty.  The other components are the exceptions,
\* which a class states with [Class(...) EXCEPT ...]:
\*   orElse   fields that get their default when the value read is empty
\*   ifSet    fields that are written only when not empty
\*   ifNew    fields that are written only when not the default
\*   gated    fields that are written only when another one has a certain value
\*   ifNull   numbers that get their default when null was written
\*   pair     keys drawn anew together when the one in lead is read empty
\*   headers  lists of headers, written without those that lack a name or a value
\*   maps     headers written with one value for each name
\*   texts    what a link has in front of its address
\*   needs    fields without which fromJson gives a new object
\*   unread, unwritten   fields fromJson does not read, toJson does not write
Class(fields, rename, full) ==
    LET Key(f) == IF f \in DOMAIN rename THEN rename[f] ELSE f
    IN  [fields |-> fields,
         reads  |-> [i \in DOMAIN fields |-> Key(fields[i])],
         key    |-> [f \in {fields[i] : i \in DOMAIN fields} |-> Key(f)],
         full   |-> full,
         orElse |-> {}, ifSet |-> {}, ifNew |-> {}, gated |-> {}, ifNull |-> {},
         pair |-> {}, lead |-> {}, headers |-> {}, maps |-> {}, texts |-> {},
         needs |-> {}, unread |-> {}, unwritten |-> {}]

Same == [f \in {} |-> f]      \* no field is renamed

Plain(fields, full) == Class(fields, Same, full)

FieldsOf(c) == DOMAIN c.key
KeysOf(c) == {c.key[f] : f \in FieldsOf(c)}
DefaultOf(c, f) == IF f \in c.full THEN "default" ELSE "empty"
NewForm(c) == [f \in FieldsOf(c) |-> DefaultOf(c, f)]

\* The constructor: its arguments by position, its defaults for what is undefined.
Construct(c, args) ==
    LET Arg(f)  == LET i == CHOOSE n \in DOMAIN c.fields : c.fields[n] = f
                   IN  IF i \in DOMAIN args THEN args[i] ELSE "absent"
        Redraws == \E g \in c.lead : Arg(g) \in {"absent", "empty"}
    IN  [f \in FieldsOf(c) |->
            IF Redraws /\ f \in c.pair THEN "drawn"
            ELSE IF \/ Arg(f) = "absent"
                    \/ Arg(f) = "empty" /\ f \in c.orElse
                    \/ Arg(f) = "cleared" /\ f \in c.ifNull
              THEN DefaultOf(c, f)
            ELSE Arg(f)]

\* fromJson, which names no key of the fields it does not read.
FromJson(c, json) ==
    LET Read(i) == IF c.fields[i] \in c.unread \/ c.reads[i] \notin DOMAIN json
                     THEN "absent" ELSE json[c.reads[i]]
    IN  IF \E i \in DOMAIN c.fields : c.fields[i] \in c.needs /\ Read(i) \in {"absent", "empty"}
          THEN NewForm(c)
          ELSE Construct(c, [i \in DOMAIN c.fields |-> Read(i)])

\* toV2Headers.
Listed(c, f, v) ==
    CASE f \in c.headers /\ v = "blank"  -> "empty"
      [] f \in c.headers /\ v = "partly" -> "other"
      [] f \in c.maps /\ v = "twice"     -> "other"
      [] OTHER -> v

\* toJson; gate says whether the condition of the gated fields holds.
Dropped(c, f, v, gate) ==
    \/ f \in c.unwritten
    \/ f \in c.ifSet /\ v = "empty"
    \/ f \in c.ifNew /\ v = "default"
    \/ f \in c.gated /\ ~gate

ToJson(c, form, gate) ==
    [k \in KeysOf(c) |->
        LET f == CHOOSE g \in FieldsOf(c) : c.key[g] = k
        IN  IF Dropped(c, f, form[f], gate) THEN "absent" ELSE Listed(c, f, form[f])]

(***************************************************************************)
(* A dialog holds an object of many classes; entered has, for the pairs of *)
(* a class and a field that differ from a new object, what they are now.   *)
(***************************************************************************)
Nothing == [p \in {} |-> "empty"]

At(table, entered, c, f) ==
    IF <<c, f>> \in DOMAIN entered THEN entered[<<c, f>>] ELSE DefaultOf(table[c], f)

FormOf(table, entered, c) == [f \in FieldsOf(table[c]) |-> At(table, entered, c, f)]

\* The same with one field, or all those in more, set anew.
Setting(table, entered, more) ==
    LET Now(p) == IF p \in DOMAIN more THEN more[p] ELSE entered[p]
    IN  [p \in {q \in DOMAIN more \cup DOMAIN entered : Now(q) # DefaultOf(table[q[1]], q[2])}
            |-> Now(p)]

Only(c, f, v) == [p \in {<<c, f>>} |-> v]

Without(entered, classes) == [p \in {q \in DOMAIN entered : q[1] \notin classes} |-> entered[p]]

\* What a dialog that has these forms holds.
Held(forms, table) ==
    LET Differs(c) == {f \in DOMAIN forms[c] : forms[c][f] # DefaultOf(table[c], f)}
    IN  [p \in UNION {{<<c, f>> : f \in Differs(c)} : c \in DOMAIN forms} |-> forms[p[1]][p[2]]]

\* The values the fields of a dialog can be given.
Enterable(c, f) ==
    {"empty", "other"}
        \cup (IF f \in c.headers THEN {"hosted", "twice", "blank", "partly"} ELSE {})
        \cup (IF f \in c.ifNull THEN {"cleared"} ELSE {})
        \cup (IF f \in c.texts THEN {"special"} ELSE {})
===========================================================================
