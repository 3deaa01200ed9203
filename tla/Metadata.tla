------------------------------ MODULE Metadata ------------------------------
(***************************************************************************)
(* dra.DecodeMetadataStream and Validate: a driver's metadata file holds   *)
(* an object for each version of the format, and the first that this       *)
(* program supports is taken.  Each is read by the decoder of StrictJSON;  *)
(* what its fields hold is chosen when they are first looked at.           *)
(***************************************************************************)
EXTENDS StrictJSON, FiniteSets

CONSTANTS
    Version,            \* values of apiVersion that occur, "" for none
    APIVersion,         \* the one that is supported
    Body,               \* values of the field requests
    MaxUnknownVersions, \* unknown objects that are skipped
    MaxRequests, MaxDevices, MaxAttributes,
    MaxExactInteger

Lists == {"ints", "bools", "strings", "versions"}

\* An attribute has a value for each member of the union that is present, for a
\* list the set of its values.  Integers are integers.
AttributeOK(a) ==
    /\ DOMAIN a \subseteq {"int", "bool", "string", "version"} \cup Lists
    /\ "int" \in DOMAIN a => a["int"] \in Int
    /\ "ints" \in DOMAIN a => a["ints"] \subseteq Int

ASSUME MetadataAssumption ==
    /\ APIVersion \in Version \ {""}
    /\ {"apiVersion", "kind", "requests"} \subseteq Field
    /\ << >> \in Body /\ None \notin Body
    /\ MaxUnknownVersions \in Nat
    /\ MaxExactInteger \in Nat /\ MaxExactInteger % 2 = 1 \* 2^53 - 1
    /\ \A body \in Body : \A i \in DOMAIN body : \A d \in DOMAIN body[i].devices :
          LET attributes == body[i].devices[d].attributes
          IN  \A name \in DOMAIN attributes : AttributeOK(attributes[name])

VARIABLES
    step,    \* "object", "decode", "failed" or "done"; "strict" if DecodeStrict
             \* was called for a single document
    objects, \* what was found of each object so far; the code keeps the
             \* versions of the unknown ones
    result   \* the requests of the object that was returned, or None

vars == <<read, stack, dst, pc, step, objects, result>>

-----------------------------------------------------------------------------
(* Attributes. *)

AttributeValid(a) ==
    /\ Cardinality(DOMAIN a) = 1
    /\ \A m \in DOMAIN a \cap Lists : a[m] # {}

IsExact(n) == n \in -MaxExactInteger..MaxExactInteger

\* The float nearest to n; just beyond the exact integers, only the even ones
\* are floats, and a tie goes to the multiple of four.
Float(n) == IF IsExact(n) \/ n % 2 = 0 THEN n
            ELSE IF (n + 1) % 4 = 0 THEN n + 1 ELSE n - 1

Number(v) == <<"number", v>>

\* Faulty variant: any integer is taken for a number.
ScalarInexact(a) ==
    IF "int" \in DOMAIN a THEN {Number(Float(a["int"]))}
    ELSE IF "bool" \in DOMAIN a THEN {<<"bool", a["bool"]>>}
    ELSE {<<"string", a[m]>> : m \in DOMAIN a \cap {"string", "version"}}

\* The value, as a set of at most one; the first member that is present counts.
Scalar(a) ==
    IF "int" \in DOMAIN a THEN {Number(n) : n \in {a["int"]} \cap -MaxExactInteger..MaxExactInteger}
    ELSE IF "bool" \in DOMAIN a THEN {<<"bool", a["bool"]>>}
    ELSE {<<"string", a[m]>> : m \in DOMAIN a \cap {"string", "version"}}

Contains(a, v) ==
    IF Scalar(a) # {} THEN v \in Scalar(a)
    ELSE \/ "ints" \in DOMAIN a /\ v \in {Number(Float(n)) : n \in a["ints"]}
         \/ "bools" \in DOMAIN a /\ v \in {<<"bool", b>> : b \in a["bools"]}
         \/ \E m \in DOMAIN a \cap {"strings", "versions"} :
               v \in {<<"string", s>> : s \in a[m]}

-----------------------------------------------------------------------------
(* Validate.  A name is the sequence of its parts between slashes, so that  *)
(* to join names with slashes is to join the sequences; << >> is empty.     *)

Identity(d) == d.driver \o d.pool \o d.name

DeviceValid(d) ==
    /\ << >> \notin {d.driver, d.pool, d.name}
    /\ Cardinality(DOMAIN d.attributes) <= MaxAttributes
    /\ \A name \in DOMAIN d.attributes :
          name # "" /\ AttributeValid(d.attributes[name])

\* A request may not be named twice, nor a device within it.
Validate(requests) ==
    /\ Len(requests) \in 1..MaxRequests
    /\ \A i, j \in DOMAIN requests : requests[i].name = requests[j].name => i = j
    /\ \A i \in DOMAIN requests :
          LET devices == requests[i].devices IN
          /\ requests[i].name # ""
          /\ Len(devices) \in 1..MaxDevices
          /\ \A d, e \in DOMAIN devices :
                Identity(devices[d]) = Identity(devices[e]) => d = e
          /\ \A d \in DOMAIN devices : DeviceValid(devices[d])

\* The first request of that name.
DevicesForRequest(requests, name) ==
    LET named == {i \in DOMAIN requests : requests[i].name = name}
    IN  IF named = {} THEN None
        ELSE requests[CHOOSE i \in named : \A j \in named : i <= j].devices

-----------------------------------------------------------------------------
(* The loop over the stream. *)

Init ==
    /\ NewDocument
    /\ step \in {"strict", "object"}
    /\ objects = << >>
    /\ result = None

Strict == step = "strict" /\ DecodeStrict /\ UNCHANGED <<step, objects, result>>

Fail == step' = "failed" /\ UNCHANGED result

\* The next object of the stream, its tokens checked for duplicate keys; it need
\* not be the last.
ReadObject ==
    /\ step = "object"
    /\ \E t \in Offered :
          /\ ~(read = << >> /\ t = "end")
          /\ Read(t) /\ (ParseValue(t) \/ ObjectKey(t) \/ Close(t))
    /\ UNCHANGED <<step, objects, result>>

\* No tokens any more, or none that make an object.
EndOfStream ==
    /\ step = "object" /\ (read = << >> \/ pc = "malformed")
    /\ Fail
    /\ UNCHANGED <<jsonVars, objects>>

Claim(version, kind, sound) ==
    objects' = Append(objects, [version |-> version, kind |-> kind, sound |-> sound])

\* What may be found in field f: nothing without a key for it.
In(values, f) ==
    IF \E p \in KeysOfRoot : FieldOf[read[p]] = f THEN values ELSE {""}

\* An object of another version is forgotten but for its version.
Skip ==
    /\ read' = << >> /\ stack' = << >> /\ dst' = Unset /\ pc' = "value"
    /\ step' = "object" /\ UNCHANGED result

\* Faulty variant: one object more than the limit is skipped.
TooManyUnknownLate == Len(objects) > MaxUnknownVersions

TooManyUnknown == Len(objects) >= MaxUnknownVersions

\* The version and the kind, from the one decoder that knows no other fields.
TypeMeta ==
    /\ step = "object" /\ pc = "eof"
    /\ \E version \in In(Version, "apiVersion"),
          kind \in In({"DeviceMetadata", "other", ""}, "kind") :
          /\ Claim(version, kind, TRUE)
          /\ IF version = "" \/ kind = "" THEN Fail /\ UNCHANGED jsonVars
             ELSE IF version # APIVersion THEN
                IF TooManyUnknown THEN Fail /\ UNCHANGED jsonVars ELSE Skip
             ELSE IF kind # "DeviceMetadata" THEN Fail /\ UNCHANGED jsonVars
             ELSE /\ step' = "decode" /\ pc' = "decode"
                  /\ UNCHANGED <<read, stack, dst, result>>

Found(sound) == objects' = [objects EXCEPT ![Len(objects)].sound = sound]

DecodeObject ==
    /\ step = "decode" /\ Decode
    /\ IF pc' = "refused" THEN Fail /\ Found(FALSE)
       ELSE UNCHANGED <<step, objects, result>>

\* Faulty variant: an object that is not valid is passed over like an unknown one.
PassOver == Skip

Invalid == Fail /\ UNCHANGED jsonVars

Return ==
    /\ step = "decode" /\ pc = "decoded"
    /\ \E requests \in IF dst["requests"] # 0 THEN Body ELSE {<< >>} :
          IF Validate(requests)
          THEN /\ result' = requests /\ step' = "done"
               /\ UNCHANGED <<jsonVars, objects>>
          ELSE Invalid /\ Found(FALSE)

Next == Strict \/ ReadObject \/ EndOfStream \/ TypeMeta \/ DecodeObject \/ Return

Spec == Init /\ [][Next]_vars

-----------------------------------------------------------------------------
\* Type correctness.
TypeOK ==
    /\ read \in Seq(Token)
    /\ \A n \in DOMAIN stack : stack[n].seen \subseteq Key
    /\ DOMAIN dst = Field
    /\ pc \in {"value", "more", "eof", "malformed", "decode", "decoded", "refused"}
    /\ step \in {"strict", "object", "decode", "failed", "done"}
    /\ Len(objects) <= MaxUnknownVersions + 1
    /\ result \in Body \cup {None}

Unknown(o) == o.version \notin {"", APIVersion} /\ o.kind # ""

\* The result is the first object that claims the supported version, exactly if
\* it is a valid one and the objects before it are no more than may be skipped: a
\* broken object is never passed over for a later one, and a stream that can be
\* used is (metadata.go:180-237, "malformed object claiming a supported version is
\* fatal").
FirstSupported ==
    LET n == Len(objects)
        usable == /\ n # 0 /\ n - 1 <= MaxUnknownVersions
                  /\ \A k \in 1..n - 1 : Unknown(objects[k])
                  /\ objects[n].version = APIVersion
                  /\ objects[n].kind = "DeviceMetadata" /\ objects[n].sound
    IN  /\ step = "done" => usable
        /\ step = "failed" => ~usable \/ pc = "malformed"

\* The values an attribute holds, whichever member holds them.
Held(a, kind) ==
    UNION {IF m \in Lists THEN a[m] ELSE {a[m]} : m \in DOMAIN a \cap
              (IF kind = "number" THEN {"int", "ints"}
               ELSE IF kind = "bool" THEN {"bool", "bools"}
               ELSE {"string", "version", "strings", "versions"})}

\* The numbers of a policy, also beyond the exact integers: value.go:84 refuses
\* those only if they are written without a point and an exponent.
PolicyNumber == {Float(n) : n \in -2 * MaxExactInteger..2 * MaxExactInteger}

\* The numbers that only a list of integers can match, by what a member rounds to.
RoundedMember(a, f) ==
    /\ ~IsExact(f) /\ "ints" \in DOMAIN a
    /\ \E n \in a["ints"] : f = Float(n)

\* No member of an accepted attribute is shadowed by another, and where integers
\* are rounded they are so only beyond the exact ones: a scalar is equal to its own
\* value and to nothing if that is not exact, an exact number is in a list only if
\* the list holds it, and any other number is in a list of integers if some member
\* rounds to it, which need not be the number (value.go:13-16, 84,
\* metadata.go:105-156).
AttributeMeansItsValue ==
    step = "done" =>
        \A i \in DOMAIN result : \A d \in DOMAIN result[i].devices :
            \A name \in DOMAIN result[i].devices[d].attributes :
                LET a == result[i].devices[d].attributes[name] IN
                /\ \A m \in DOMAIN a : m \notin Lists => Scalar(a) \subseteq
                      {Number(n) : n \in Held(a, "number")}
                      \cup {<<"bool", b>> : b \in Held(a, "bool")}
                      \cup {<<"string", s>> : s \in Held(a, "string")}
                /\ \A f \in PolicyNumber :
                      Contains(a, Number(f)) <=>
                          \/ IsExact(f) /\ f \in Held(a, "number")
                          \/ RoundedMember(a, f)
                /\ \A s \in Held(a, "string") : Contains(a, <<"string", s>>)
                /\ \A b \in Held(a, "bool") : Contains(a, <<"bool", b>>)
=============================================================================
