------------------------------ MODULE MlsParse ------------------------------
(***************************************************************************)
(* The reader of MLS key packages (cordn-core/src/mls_parse.rs): variable- *)
(* length fields, the layout of a key package, and the search for the      *)
(* last-resort marker.  Offsets count from 0, as in the code; a read       *)
(* returns the bytes it covers and the offset after them, or Err.          *)
(***************************************************************************)
EXTENDS Integers, Sequences, SequencesExt

Ok(v) == [ok |-> TRUE, value |-> v]
Err == [ok |-> FALSE]
Read(data, next) == Ok([data |-> data, next |-> next])

(* Cursor::u8, u16 and skip: n bytes, or the end of the package. *)
ReadFixed(buf, at, n) ==
    IF at + n > Len(buf) THEN Err ELSE Read(SubSeq(buf, at + 1, at + n), at + n)

(* A length of 1, 2 or 4 bytes, as the top two bits of the first one say   *)
(* (8 is refused), in its remaining bits, most significant byte first.     *)
ReadVarBytes(buf, at) ==
    IF at >= Len(buf) \/ buf[at + 1] \div 64 = 3 THEN Err
    ELSE LET size == 2 ^ (buf[at + 1] \div 64)
             length[k \in 0 .. size - 1] ==
               IF k = 0 THEN buf[at + 1] % 64 ELSE length[k - 1] * 256 + buf[at + 1 + k]
         IN  IF at + size > Len(buf) THEN Err
             ELSE ReadFixed(buf, at + size, length[size - 1])

(* A list of entries, each a u16 and a variable-length field: those that   *)
(* can be read, and whether they are all there is.                         *)
Entries(buf) ==
    LET from[i \in 0 .. Len(buf)] ==
          LET data == ReadVarBytes(buf, i + 2)
          IN  IF i = Len(buf) THEN [list |-> <<>>, whole |-> TRUE]
              ELSE IF i + 2 > Len(buf) THEN [list |-> <<>>, whole |-> FALSE]
              ELSE IF ~ data.ok THEN [list |-> <<>>, whole |-> FALSE]
              ELSE LET rest == from[data.value.next]
                   IN  [rest EXCEPT !.list =
                          <<[id |-> buf[i + 1] * 256 + buf[i + 2],
                             data |-> data.value.data]>> \o @]
    IN  from[0]

APP_DATA_DICTIONARY_EXTENSION_TYPE == 6
LAST_RESORT_KEY_PACKAGE_COMPONENT_ID == 4

IsMarkerOfAnySize(component) == component.id = LAST_RESORT_KEY_PACKAGE_COMPONENT_ID

IsMarker(component) ==
    component.id = LAST_RESORT_KEY_PACKAGE_COMPONENT_ID /\ component.data = <<>>

(* is_last_resort_extension: the dictionary must fill the extension; what  *)
(* follows the marker is not looked at.                                    *)
IsLastResortExtension(ext) ==
    LET dictionary == ReadVarBytes(ext, 0)
        components == Entries(dictionary.value.data)
    IN  IF ~ dictionary.ok THEN Err
        ELSE IF dictionary.value.next # Len(ext) THEN Err
        ELSE IF \E k \in DOMAIN components.list : IsMarker(components.list[k]) THEN Ok(TRUE)
        ELSE IF components.whole THEN Ok(FALSE) ELSE Err

(* detect_last_resort: other extensions are not decoded; the first one     *)
(* that is marked or malformed decides.                                    *)
DetectLastResort(extensions) ==
    LET entries == Entries(extensions)
        verdicts == [k \in DOMAIN entries.list |->
                       IF entries.list[k].id = APP_DATA_DICTIONARY_EXTENSION_TYPE
                       THEN IsLastResortExtension(entries.list[k].data) ELSE Ok(FALSE)]
        first == SelectInSeq(verdicts, LAMBDA v : v # Ok(FALSE))
    IN  IF first # 0 THEN verdicts[first]
        ELSE IF entries.whole THEN Ok(FALSE) ELSE Err

(* The fields of a key package in their order; "opaque" ones are skipped:  *)
(* keys, the five capability lists, leaf-node extensions and signatures.   *)
Layout ==
    <<"version", "cipher_suite", "opaque", "opaque", "opaque", "cred_type", "identity",
      "opaque", "opaque", "opaque", "opaque", "opaque", "source", "lifetime",
      "opaque", "opaque", "extensions", "opaque">>

ReadField(kind, buf, at) ==
    CASE kind \in {"version", "cipher_suite", "cred_type"} -> ReadFixed(buf, at, 2)
      [] kind = "source" -> ReadFixed(buf, at, 1)
      [] kind = "lifetime" -> ReadFixed(buf, at, 16)
      [] OTHER -> ReadVarBytes(buf, at)

(* UTF-8 (external): the number of bytes of a character by its first one,  *)
(* 0 for a byte that is never first; what the others must be; and a text,  *)
(* every byte of which belongs to a character.                             *)
CharacterSize(byte) ==
    CASE byte \in 0 .. 127 -> 1
      [] byte \in 194 .. 223 -> 2
      [] byte \in 224 .. 239 -> 3
      [] byte \in 240 .. 244 -> 4
      [] OTHER -> 0

IsCharacter(data, k) ==
    LET end == k + CharacterSize(data[k]) - 1 IN
    /\ end \in k .. Len(data)
    /\ \A j \in k + 1 .. end : data[j] \in 128 .. 191
    /\ data[k] = 224 => data[k + 1] >= 160
    /\ data[k] = 237 => data[k + 1] < 160
    /\ data[k] = 240 => data[k + 1] >= 144
    /\ data[k] = 244 => data[k + 1] < 144

(* str::from_utf8. *)
IsUtf8(data) ==
    \A k \in DOMAIN data :
        \E j \in 1 .. k : IsCharacter(data, j) /\ k < j + CharacterSize(data[j])

AcceptableAnyIdentity(kind, data) ==
    CASE kind \in {"version", "cred_type"} -> data = <<0, 1>>
      [] kind = "source" -> data = <<1>>
      [] kind = "extensions" -> DetectLastResort(data).ok
      [] OTHER -> TRUE

(* What parse_key_package requires of a field it has read. *)
Acceptable(kind, data) ==
    CASE kind \in {"version", "cred_type"} -> data = <<0, 1>>
      [] kind = "identity" -> IsUtf8(data)
      [] kind = "source" -> data = <<1>>
      [] kind = "extensions" -> DetectLastResort(data).ok
      [] OTHER -> TRUE
=============================================================================
