-------------------------- MODULE PublishAdmission --------------------------
(***************************************************************************)
(* Admission of a key package, from the tool kp_publish (methods.rs) to    *)
(* the quota check (adapter.rs): the injected caller and publication event *)
(* must be there, the package must parse, field by field, and signer,      *)
(* caller and credential identity must be the same.  What is admitted goes *)
(* on to KeyPackages.                                                      *)
(*                                                                         *)
(* The inputs are encodings of described packages: valid ones, ones with a *)
(* wrong field or a malformed dictionary, and truncated or extended ones.  *)
(* The description is what the outcome is checked against.                 *)
(***************************************************************************)
EXTENDS MlsParse, SequencesExt

CONSTANTS
    Inputs,   \* requests: caller, event, kp_ref, text, and the package
    Missing   \* no caller or no event was injected

VARIABLES
    input,           \* the request being served
    bytes,           \* the decoded kp_64
    stage,           \* enter, parse, bind, or the reply: admitted, rejected
    field,           \* parse: fields read
    i,               \* Cursor.i
    identity,        \* credential_identity, once read
    is_last_resort   \* the marker was found

vars == <<input, bytes, stage, field, i, identity, is_last_resort>>

(***************************************************************************)
(* The encoder of ts-mls (external), with a prefix size to choose.         *)
(***************************************************************************)
U16(n) == <<n \div 256, n % 256>>

Var(size, data) ==
    LET n == Len(data)
        high == n \div 65536
        low == n % 65536
    IN  (CASE size = 1 -> <<n>>
           [] size = 2 -> <<64 + n \div 256, n % 256>>
           [] size = 4 -> <<128 + high \div 256, high % 256, low \div 256, low % 256>>
           [] size = 8 -> <<192, 0, 0, 0, high \div 256, high % 256, low \div 256, low % 256>>)
          \o data

EncodeComponent(size, c) == U16(c.id) \o Var(size, c.data)

EncodeComponents(size, components) ==
    FlattenSeq([k \in DOMAIN components |-> EncodeComponent(size, components[k])])

(* Junk goes after the components, inside or after the dictionary. *)
Dictionary(size, e) ==
    LET junk(where) == IF e.junk = where THEN <<0>> ELSE <<>>
    IN  Var(size, EncodeComponents(size, e.components) \o junk("inside")) \o junk("after")

EncodeExtension(size, e) == U16(e.type) \o Var(size, Dictionary(size, e))

EncodeExtensions(p) ==
    FlattenSeq([k \in DOMAIN p.extensions |-> EncodeExtension(p.size, p.extensions[k])])

Lifetime == [k \in 1 .. 16 |-> 0]

(* The fields, one for one as the Layout names them. *)
Fields(p) ==
    LET key == Var(1, <<7>>)
        none == Var(1, <<>>)
    IN  << <<0, p.version>>, <<0, 1>>, key, key, key, <<0, p.cred_type>>,
           Var(p.size, p.identity), none, none, none, none, none, <<p.source>>,
           Lifetime, none, key, Var(p.size, EncodeExtensions(p)),
           Var(p.size, [k \in 1 .. p.signature |-> 7]) >>

Encode(p) == FlattenSeq(Fields(p))

(* p.cut bytes are missing at the end, or p.tail follows. *)
Sent(p) ==
    LET whole == Encode(p) IN SubSeq(whole, 1, Len(whole) - p.cut) \o p.tail

(* A length that a prefix of this size can hold. *)
Fits(size, n) == n < (CASE size = 1 -> 64 [] size = 2 -> 16384 [] OTHER -> 2 ^ 30)

Ids == 0 .. 65535

Components == [id : Ids, data : Seq(0 .. 255)]

Extension == [type : Ids, components : Seq(Components), junk : {"none", "inside", "after"}]

(* What can be encoded: bytes, and lengths that fit their prefixes; cut    *)
(* short or extended, but not both.                                        *)
Describes(p) ==
    /\ {p.version, p.cred_type, p.source} \subseteq 0 .. 255
    /\ p.identity \in Seq(0 .. 255)
    /\ p.extensions \in Seq(Extension)
    /\ p.size \in {1, 2, 4, 8} /\ p.signature \in Nat
    /\ p.cut \in 0 .. Len(Encode(p)) /\ p.tail \in Seq(0 .. 255)
    /\ p.cut = 0 \/ p.tail = <<>>
    /\ Fits(p.size, Len(p.identity))
    /\ Fits(p.size, Len(EncodeExtensions(p)))
    /\ Fits(p.size, p.signature)
    /\ \A k \in DOMAIN p.extensions :
         LET e == p.extensions[k] IN
         /\ Fits(p.size, Len(Dictionary(p.size, e)))
         /\ Fits(p.size, Len(EncodeComponents(p.size, e.components)) + 1)
         /\ \A c \in DOMAIN e.components : Fits(p.size, Len(e.components[c].data))

ASSUME InputsAssumption == \A r \in Inputs : Describes(r.package)

-----------------------------------------------------------------------------
Init ==
    /\ input \in Inputs
    /\ bytes = Sent(input.package)
    /\ stage = "enter"
    /\ field = 0
    /\ i = 0
    /\ identity = <<>>
    /\ is_last_resort = FALSE

(* client_pubkey and publication_event of methods.rs, then the adapter's   *)
(* checks of the two texts and the base64 decoder (external).              *)
Enter ==
    /\ stage = "enter"
    /\ stage' = IF \/ Missing \in {input.caller, input.event}
                   \/ input.kp_ref = ""
                   \/ input.text # "base64"
                THEN "rejected" ELSE "parse"
    /\ UNCHANGED <<input, bytes, field, i, identity, is_last_resort>>

(* One field of parse_key_package. *)
ParseField ==
    LET kind == Layout[field + 1]
        read == ReadField(kind, bytes, i)
    IN
    /\ stage = "parse"
    /\ field < Len(Layout)
    /\ read.ok /\ Acceptable(kind, read.value.data)
    /\ field' = field + 1
    /\ i' = read.value.next
    /\ identity' = IF kind = "identity" THEN read.value.data ELSE identity
    /\ is_last_resort' = IF kind = "extensions"
                         THEN DetectLastResort(read.value.data).value
                         ELSE is_last_resort
    /\ UNCHANGED <<input, bytes, stage>>

ParseFails ==
    LET kind == Layout[field + 1]
        read == ReadField(kind, bytes, i)
    IN
    /\ stage = "parse"
    /\ field < Len(Layout)
    /\ IF read.ok THEN ~ Acceptable(kind, read.value.data) ELSE TRUE
    /\ stage' = "rejected"
    /\ UNCHANGED <<input, bytes, field, i, identity, is_last_resort>>

ParseEndsAnyhow ==
    /\ stage = "parse"
    /\ field = Len(Layout)
    /\ stage' = "bind"
    /\ UNCHANGED <<input, bytes, field, i, identity, is_last_resort>>

(* Nothing may follow the last field. *)
ParseEnds ==
    /\ stage = "parse"
    /\ field = Len(Layout)
    /\ stage' = IF i = Len(bytes) THEN "bind" ELSE "rejected"
    /\ UNCHANGED <<input, bytes, field, i, identity, is_last_resort>>

BindSigner ==
    /\ stage = "bind"
    /\ stage' = IF input.event # input.caller THEN "rejected" ELSE "admitted"
    /\ UNCHANGED <<input, bytes, field, i, identity, is_last_resort>>

(* SignerMismatch, IdentityMismatch. *)
Bind ==
    /\ stage = "bind"
    /\ stage' = IF input.event # input.caller \/ identity # input.event
                THEN "rejected" ELSE "admitted"
    /\ UNCHANGED <<input, bytes, field, i, identity, is_last_resort>>

Next == Enter \/ ParseField \/ ParseFails \/ ParseEnds \/ Bind

Spec == Init /\ [][Next]_vars

-----------------------------------------------------------------------------
TypeOK ==
    /\ bytes \in Seq(0 .. 255)
    /\ stage \in {"enter", "parse", "bind", "admitted", "rejected"}
    /\ field \in 0 .. Len(Layout)
    /\ i \in 0 .. Len(bytes)
    /\ IsUtf8(identity)
    /\ is_last_resort \in BOOLEAN

(* What the description says of one extension. *)
Says(e) ==
    LET marked == \E k \in DOMAIN e.components :
                      e.components[k].id = 4 /\ e.components[k].data = <<>>
    IN  IF e.type # 6 THEN "nothing"
        ELSE IF e.junk = "after" THEN "malformed"
        ELSE IF marked THEN "marked"
        ELSE IF e.junk = "inside" THEN "malformed" ELSE "nothing"

(* The first extension that says something decides. *)
Decisive(p) ==
    LET k == SelectInSeq(p.extensions, LAMBDA e : Says(e) # "nothing")
    IN  IF k = 0 THEN "nothing" ELSE Says(p.extensions[k])

WellFormed(p) ==
    /\ p.version = 1 /\ p.cred_type = 1 /\ p.source = 1
    /\ IsUtf8(p.identity)
    /\ p.size # 8
    /\ p.cut = 0 /\ p.tail = <<>>
    /\ Decisive(p) # "malformed"

(* The parser gets through exactly the packages that are well-formed: no   *)
(* truncated or extended one, whatever lengths the truncation leaves, and  *)
(* every well-formed one, whatever sizes its length prefixes have, unless  *)
(* the request is refused for what is around the package.                  *)
ParsesExactly ==
    /\ stage = "bind" => WellFormed(input.package)
    /\ stage = "rejected" =>
         \/ ~ WellFormed(input.package)
         \/ input.event # input.caller
         \/ input.package.identity # input.caller
         \/ Missing \in {input.caller, input.event}
         \/ input.kp_ref = "" \/ input.text # "base64"

(* A package is taken for a last-resort one exactly if the first           *)
(* dictionary that says something carries the empty marker component.      *)
LastResortExact ==
    stage \in {"bind", "admitted"} =>
        is_last_resort = (Decisive(input.package) = "marked")

(* Nobody publishes for another: what is admitted names as its identity    *)
(* the caller, who also signed the event.                                  *)
OwnIdentityOnly ==
    stage = "admitted" =>
        /\ input.package.identity = input.caller
        /\ input.event = input.caller
=============================================================================
