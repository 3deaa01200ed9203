----------------------------- MODULE StrictJSON -----------------------------
(***************************************************************************)
(* jsonsafe.DecodeStrict: RejectDuplicateKeys goes over a document with a  *)
(* recursive descent, and encoding/json then decodes it into a struct.     *)
(* A document is a sequence of the tokens that json.Decoder.Token returns, *)
(* read one at a time: "scalar" is any scalar value, "bad" what is no      *)
(* JSON, "end" the end of the input; commas and colons are checked by      *)
(* Token.  The recursion is a stack, with what `seen' holds of each object.*)
(***************************************************************************)
EXTENDS Integers, Sequences

CONSTANTS
    Key,       \* the keys of objects that occur
    FieldOf,   \* Key -> fields of the struct, None for a key that has none
    MaxDepth,  \* the nesting that is still accepted
    MaxTokens, \* bound of the length of a document
    None

ASSUME StrictJSONAssumption ==
    /\ MaxDepth \in Nat /\ MaxTokens \in Nat
    /\ DOMAIN FieldOf = Key
    /\ Key \cap {"{", "}", "[", "]", "scalar", "bad", "end"} = {}

Field == {FieldOf[k] : k \in Key} \ {None}
Token == Key \cup {"{", "}", "[", "]", "scalar", "bad", "end"}

VARIABLES
    read,   \* the tokens read of this document
    stack,  \* objects and arrays that are open, the innermost last
    dst,    \* for each field, the place of the key it was set by, or 0
    pc      \* where the decoder is

jsonVars == <<read, stack, dst, pc>>

Unset == [f \in Field |-> 0]

NewDocument ==
    /\ read = << >> /\ stack = << >>
    /\ dst = Unset
    /\ pc = "value"

\* More documents than the bound allows end early.
Offered == IF Len(read) < MaxTokens THEN Token ELSE {"end"}

Top == stack[Len(stack)]
Pop == SubSeq(stack, 1, Len(stack) - 1)
Frame(closer) == [closer |-> closer, seen |-> {}]

\* Where parseValue returns to.
After(s) == IF s = << >> THEN "eof" ELSE "more"

\* In an array parseValue is called for whatever More does not take for an end.
CallsParseValue(t) ==
    \/ pc = "value"
    \/ pc = "more" /\ Top.closer = "]" /\ t \notin {"]", "}", "end"}

TooDeep == Len(stack) > MaxDepth

Malformed == pc' = "malformed" /\ UNCHANGED stack

ParseValue(t) ==
    /\ CallsParseValue(t)
    /\ IF TooDeep THEN Malformed
       ELSE \/ t = "scalar" /\ pc' = After(stack) /\ UNCHANGED stack
            \/ t = "{" /\ pc' = "more" /\ stack' = Append(stack, Frame("}"))
            \/ t = "[" /\ pc' = "more" /\ stack' = Append(stack, Frame("]"))
            \/ t \notin {"scalar", "{", "["} /\ Malformed

\* Faulty variant: only the last key is remembered.
RememberLast(k) == {k}

Remember(k) == Top.seen \cup {k}

\* Also what is no key where a key must be.
ObjectKey(t) ==
    /\ pc = "more" /\ Top.closer = "}" /\ t \notin {"]", "}", "end"}
    /\ IF t \in Key \ Top.seen
       THEN /\ stack' = Append(Pop, [Top EXCEPT !.seen = Remember(t)])
            /\ pc' = "value"
       ELSE Malformed

Close(t) ==
    /\ pc = "more" /\ t \in {"]", "}", "end"}
    /\ IF t = Top.closer THEN stack' = Pop /\ pc' = After(Pop) ELSE Malformed

RequireEOF(t) ==
    /\ pc = "eof"
    /\ pc' = IF t = "end" THEN "decode" ELSE "malformed"
    /\ UNCHANGED stack

Read(t) == read' = Append(read, t) /\ UNCHANGED dst

RejectDuplicateKeys ==
    \E t \in Offered :
        Read(t) /\ (ParseValue(t) \/ ObjectKey(t) \/ Close(t) \/ RequireEOF(t))

-----------------------------------------------------------------------------
(* The second pass.  How deep a token lies is counted from the openings and *)
(* closings before it.                                                      *)

IsOpener(t) == t \in {"{", "["}
IsCloser(t) == t \in {"}", "]"}

Deeper(t) == IF IsOpener(t) THEN 1 ELSE IF IsCloser(t) THEN -1 ELSE 0

Level(doc, n) ==
    LET count[k \in 0..n] == IF k = 0 THEN 0 ELSE count[k - 1] + Deeper(doc[k])
    IN  count[n]

KeysOfRoot == {p \in DOMAIN read : read[p] \in Key /\ Level(read, p) = 1}

\* encoding/json matches a key to a field without regard to case, one key after
\* the other; what does not fit the type of its field may be refused.
Decode ==
    /\ pc = "decode"
    /\ \/ /\ \/ \E p \in KeysOfRoot : FieldOf[read[p]] = None
             \/ read[1] = "["
             \/ read[1] = "scalar"  \* other than null, which sets nothing
             \/ KeysOfRoot # {}
          /\ pc' = "refused" /\ UNCHANGED dst
       \/ /\ read[1] # "["
          /\ \A p \in KeysOfRoot : FieldOf[read[p]] # None
          /\ dst' = [f \in Field |->
                        LET setBy == {p \in KeysOfRoot : FieldOf[read[p]] = f}
                        IN  IF setBy = {} THEN 0
                            ELSE CHOOSE p \in setBy : \A q \in setBy : q <= p]
          /\ pc' = "decoded"
    /\ UNCHANGED <<read, stack>>

DecodeStrict == RejectDuplicateKeys \/ Decode

-----------------------------------------------------------------------------
(* What a document is, told from the sequence of its tokens alone.          *)

\* The opening that the token at p lies in, 0 if it lies in none.
Around(doc, p) ==
    LET outer == {q \in 1..p - 1 :
                     /\ IsOpener(doc[q]) /\ Level(doc, q) = Level(doc, p - 1)
                     /\ \A r \in q..p - 1 : Level(doc, r) >= Level(doc, q)}
    IN  IF outer = {} THEN 0 ELSE CHOOSE q \in outer : \A r \in outer : r <= q

\* What the grammar of JSON, the limit and the uniqueness of keys allow at p.
LawfulAt(doc, p) ==
    LET t == doc[p]
        a == Around(doc, p)
        value == (t = "scalar" \/ IsOpener(t)) /\ Level(doc, p - 1) <= MaxDepth
    IN
    IF a = 0 THEN IF p = 1 THEN value ELSE t = "end"
    ELSE IF doc[a] = "[" THEN value \/ t = "]"
    ELSE IF doc[p - 1] \in Key THEN value
    ELSE \/ t = "}"
         \/ t \in Key /\ \A q \in a + 1..p - 1 : Around(doc, q) = a => doc[q] # t

Lawful(doc) == \A p \in DOMAIN doc : LawfulAt(doc, p)

\* Exactly the documents without a duplicate key at any depth and within the
\* limit pass: none is let through, and none turned away because an equal key
\* stands in another object (jsonsafe.go:48-110).
PassesExactly ==
    /\ pc = "malformed" => ~Lawful(read)
    /\ pc \in {"eof", "decode", "decoded", "refused"} =>
          Lawful(read) /\ Level(read, Len(read)) = 0
=============================================================================
