-------------------------------- MODULE Amf0 --------------------------------
(***************************************************************************)
(* AMF0 as libamf/amf0.go writes and reads it.  A value is a number, a      *)
(* string, a boolean, nil, a list, or a map from strings to values.  A body *)
(* is a sequence of tokens: a marker with the fixed part of its value, or   *)
(* the name before a value in an object.  The empty name ends an object;    *)
(* the end marker that follows it is a token of its own.                    *)
(***************************************************************************)
EXTENDS Integers, Sequences, SequencesExt

Num(n) == [kind |-> "number", v |-> n]
Str(s) == [kind |-> "string", v |-> s]
Nil == [kind |-> "nil"]
Object(f) == [kind |-> "object", f |-> f]
\* An object with one field.
Single(name, v) == Object([x \in {name} |-> v])
IsString(v) == v.kind = "string"

Name(s) == [m |-> "name", s |-> s]
NoName == [m |-> "noName"]
End == [m |-> "end"]

-----------------------------------------------------------------------------

\* encodeamf0: a list or a struct writes nothing, not even a marker.  Objects
\* are written flat: no map that is encoded has another in it.
EncodeScalar(v) ==
    CASE v.kind = "nil" -> <<[m |-> "null"]>>
      [] v.kind \in {"number", "string", "boolean"} -> <<[m |-> v.kind, v |-> v.v]>>
      [] OTHER -> <<>>
EncodeObject(f) ==
    LET names == SetToSeq(DOMAIN f) IN
    <<[m |-> "object"]>>
    \o FlattenSeq([i \in 1 .. Len(names) |-> <<Name(names[i])>> \o EncodeScalar(f[names[i]])])
    \o <<NoName, End>>
Encode(v) == IF v.kind = "object" THEN EncodeObject(v.f) ELSE EncodeScalar(v)
EncodeAll(values) == FlattenSeq([i \in 1 .. Len(values) |-> Encode(values[i])])

-----------------------------------------------------------------------------
(* Decode, a token at a time.  `open` is the stack of decodeamf0's calls that
   are reading an object or a list, the innermost last; `read` counts tokens;
   `complex` has the places of the values that a reference may name. *)

Start == [read |-> 0, open |-> <<>>, values |-> <<>>, complex |-> <<>>, bad |-> FALSE]

\* decodeObjectamf0, which has no limit (-1), and decodeEcmaArrayamf0, which reads
\* `most` pairs at most.
Pairs(most) == [kind |-> "object", f |-> <<>>, left |-> most, named |-> FALSE, name |-> ""]
\* decodeStrictArrayamf0.
Items(length) == [kind |-> "list", items |-> <<>>, left |-> length, named |-> TRUE]
Calling(s, frame) == [s EXCEPT !.open = Append(@, frame)]

Put(f, name, value) == [x \in DOMAIN f \cup {name} |-> IF x = name THEN value ELSE f[x]]
Taken(frame, value) ==
    IF frame.kind = "list" THEN [frame EXCEPT !.items = Append(@, value), !.left = @ - 1]
    ELSE [frame EXCEPT !.f = Put(@, frame.name, value), !.left = @ - 1, !.named = FALSE]

\* decodeamf0 returns a value to the call that reads it, or to Decode.  There a
\* reference is replaced by the complex value it counts to.
Returning(s, marker, value) ==
    IF s.open # <<>> THEN [s EXCEPT !.open = Append(Front(@), Taken(Last(@), value))]
    ELSE [s EXCEPT !.values = Append(@, IF marker = "reference" /\ value.index < Len(s.complex)
                                        THEN @[s.complex[value.index + 1]] ELSE value),
                   !.complex = IF marker = "object" THEN Append(@, Len(s.values) + 1) ELSE @]

\* The innermost call has all it wants, or comes to the empty name that ends an
\* object; what follows it is left unread.
Closing(s) ==
    LET frame == Last(s.open)
        value == IF frame.kind = "list" THEN [kind |-> "list", items |-> frame.items]
                 ELSE Object(frame.f)
    IN  Returning([s EXCEPT !.open = Front(@)],
                  IF frame.kind = "list" THEN "strictArray" ELSE "object", value)

\* readPairamf0's name.
ReadName(s, t) ==
    CASE t.m = "noName" -> Closing(s)
      [] t.m = "name" ->
           [s EXCEPT !.open = Append(Front(@), [Last(@) EXCEPT !.named = TRUE, !.name = t.s])]
      [] OTHER -> [s EXCEPT !.bad = TRUE]

\* decodeamf0.  An end marker where a value is expected is a value, nil.
ReadValue(s, t) ==
    CASE t.m \in {"number", "string", "boolean"} -> Returning(s, t.m, [kind |-> t.m, v |-> t.v])
      [] t.m \in {"null", "undefined", "end"} -> Returning(s, t.m, Nil)
      [] t.m = "reference" -> Returning(s, t.m, [kind |-> t.m, index |-> t.index])
      [] t.m = "object" -> Calling(s, Pairs(-1))
      [] t.m = "ecmaArray" -> Calling(s, Pairs(t.length + 1))
      [] t.m = "strictArray" -> Calling(s, Items(t.length))
      [] OTHER -> [s EXCEPT !.bad = TRUE]

\* A call returns, or reads the next token; an invalid marker, or a length taken
\* from the wrong bytes, ends it all.
Step(body, s) ==
    IF s.bad THEN s
    ELSE IF s.open # <<>> /\ Last(s.open).left = 0 THEN Closing(s)
    ELSE IF s.read = Len(body) THEN s
    ELSE LET t == body[s.read + 1]
             after == [s EXCEPT !.read = @ + 1]
         IN  IF s.open = <<>> \/ Last(s.open).named THEN ReadValue(after, t) ELSE ReadName(after, t)

\* Decode: every value of the body, to its end; a body that ends inside a value
\* loses that value without an error.  No token opens more than one call, so twice
\* as many steps as tokens are enough.
Decode(body) ==
    LET run[k \in 0 .. 2 * Len(body)] == IF k = 0 THEN Start ELSE Step(body, run[k - 1])
        end == run[2 * Len(body)]
    IN  [err |-> end.bad, values |-> end.values]

=============================================================================
