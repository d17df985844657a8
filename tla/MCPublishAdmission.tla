------------------------- MODULE MCPublishAdmission -------------------------
(***************************************************************************)
(* Instance of PublishAdmission for TLC.                                   *)
(***************************************************************************)
EXTENDS PublishAdmission

(* Two pubkeys, as the bytes of their texts, and a text with characters of *)
(* two to four bytes.                                                      *)
alice == <<97>>
bob == <<98>>
others == <<195, 169, 98, 226, 130, 172, 240, 159, 152, 128>>

NoPubkey == <<>>

Component(id, data) == [id |-> id, data |-> data]

Dictionaries ==
    {<<>>, <<Component(4, <<>>)>>, <<Component(4, <<0>>)>>, <<Component(5, <<>>)>>,
     <<Component(5, <<4>>), Component(4, <<>>)>>, <<Component(1028, <<>>)>>}

Extensions ==
    [type : {6, 10}, components : Dictionaries, junk : {"none", "inside", "after"}]

Marker == [type |-> 6, components |-> <<Component(4, <<>>)>>, junk |-> "none"]
Other == [type |-> 62190, components |-> <<Component(5, <<4>>)>>, junk |-> "after"]

Package(size, extensions) ==
    [version |-> 1, cred_type |-> 1, source |-> 1, identity |-> alice, size |-> size,
     extensions |-> extensions, signature |-> 1, cut |-> 0, tail |-> <<>>]

Request(p) ==
    [caller |-> alice, event |-> alice, kp_ref |-> "ref", text |-> "base64", package |-> p]

(* All lists of up to two extensions. *)
ExtensionLists == {<<>>} \cup {<<e>> : e \in Extensions} \cup (Extensions \X Extensions)

(* Short and long ones; a length of 300 needs both bytes of its prefix. *)
Samples ==
    {Package(size, es) : size \in {1, 2, 4}, es \in {<<>>, <<Marker>>, <<Other, Marker>>}}
      \cup {[Package(size, <<Marker>>) EXCEPT !.signature = 300] : size \in {2, 4}}

(* One field wrong, a length of eight bytes, and every truncation. *)
Damaged ==
    UNION {{[p EXCEPT !.version = 2], [p EXCEPT !.cred_type = 2], [p EXCEPT !.source = 3],
            [p EXCEPT !.identity = <<255>>], [p EXCEPT !.identity = <<97, 195>>],
            [p EXCEPT !.identity = <<224, 159, 191>>], [p EXCEPT !.size = 8],
            [p EXCEPT !.tail = <<0>>], [p EXCEPT !.tail = <<1, 7>>]}
           \cup {[p EXCEPT !.cut = n] : n \in 1 .. Len(Encode(p))} : p \in Samples}

(* Who asks, who signed, whose package it is. *)
Strangers ==
    {[Request([Package(1, <<Marker>>) EXCEPT !.identity = who])
        EXCEPT !.caller = caller, !.event = event] :
       who \in {alice, bob, others, <<>>}, caller \in {alice, bob, NoPubkey},
       event \in {alice, bob, NoPubkey}}

BadTexts ==
    {[Request(Package(1, <<>>)) EXCEPT !.kp_ref = ""],
     [Request(Package(1, <<>>)) EXCEPT !.text = "empty"],
     [Request(Package(1, <<>>)) EXCEPT !.text = "garbage"]}

Requests ==
    {Request(Package(size, es)) : size \in {1, 2, 4}, es \in ExtensionLists}
      \cup {Request(p) : p \in Samples \cup Damaged} \cup Strangers \cup BadTexts
=============================================================================
