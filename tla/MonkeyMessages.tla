--------------------------- MODULE MonkeyMessages ---------------------------
(***************************************************************************)
(* A message of the Monkey protocol from one peer to another: built from   *)
(* JSON or by code, encoded field by field, framed behind the header of 12 *)
(* bytes, unframed, decoded item by item, and shown as JSON.               *)
(*                                                                         *)
(* A message type is the sequence of the kinds of its fields, by number.   *)
(* The peers may have different versions of it.  A value is Default, the   *)
(* one its kind has by itself; "set"; of a number "odd", which its wire    *)
(* format cannot hold; of a number of 64 bits, which is a string, "blank", *)
(* another numeral of zero; of an enum "foreign", which the code does not  *)
(* name, or "unrecognized", its -1.  In JSON a field may be Absent.        *)
(***************************************************************************)
EXTENDS Integers, Sequences

CONSTANTS
    Exchanges,   \* [form, view, given]: the versions of writer and reader, and the object
    ReqIds,      \* the request ids to start with
    Default, Absent

MaxReqId == 16777215

(* createBase..., and the fields encode and decode know. *)
MsgUp == << "string", "string", "enum", "string", "string", "int32", "int32", "int64",
            "string", "int32", "string", "string", "string" >>
MsgUpAck == << "string", "uint64", "bool", "string" >>
MsgNotify == << "string", "uint64" >>
AuthReq == << "string", "string", "string" >>
AuthAck == << "bool", "string" >>
ReadReceipt == << "string", "uint64" >>
ExceptionAck == << "int32", "string", "string" >>

Kind == {"string", "bool", "int32", "int64", "uint64", "enum"}
Long == {"int64", "uint64"}

Held(kind) ==
    {Default, "set"} \cup (IF kind \in Long \cup {"int32"} THEN {"odd"} ELSE {})
                     \cup (IF kind \in Long THEN {"blank"} ELSE {})
                     \cup (IF kind = "enum" THEN {"foreign", "unrecognized"} ELSE {})

(* The low bits of a tag: a length-delimited or a varint field. *)
WireType(kind) == IF kind = "string" THEN 2 ELSE 0

ASSUME DefaultIsApart ==
    Default # Absent /\ {Default, Absent} \cap {"set", "odd", "blank", "foreign", "unrecognized", "torn"} = {}

(* A new version adds fields, or gives a field another wire type. *)
ASSUME ExchangesFit ==
    \A e \in Exchanges :
        /\ e.form \in Seq(Kind) /\ e.view \in Seq(Kind)
        /\ \A n \in DOMAIN e.form \cap DOMAIN e.view :
              WireType(e.form[n]) = WireType(e.view[n]) => e.form[n] = e.view[n]
        /\ DOMAIN e.given = DOMAIN e.form
        /\ \A n \in DOMAIN e.form : e.given[n] \in Held(e.form[n]) \cup {Absent}

ASSUME ReqIdsAreIntegers == ReqIds \subseteq Int

VARIABLES
    exchange, reqId,
    pc,
    message,     \* the writer's object
    next,        \* the number of the field to write next
    wire,        \* the payload: the items written, as [number, type, value]
    length,      \* the header's length
    received,    \* the payload of the frame received
    pos,         \* the item to read next
    result,      \* the reader's object
    shown        \* the reader's JSON

vars == <<exchange, reqId, pc, message, next, wire, length, received, pos, result, shown>>

form == exchange.form
view == exchange.view
given == exchange.given

Init ==
    /\ exchange \in Exchanges
    /\ reqId \in ReqIds
    /\ pc = "build"
    /\ message = <<>>
    /\ next = 1 /\ wire = <<>>
    /\ length = 0 /\ received = <<>> /\ pos = 1
    /\ result = <<>> /\ shown = <<>>

----------------------------------------------------------------------------
(* JSON *)

(* msgUp_MsgTypeFromJSON and msgUp_MsgTypeToJSON have a default case. *)
Recognized(kind, v) == IF kind = "enum" /\ v = "foreign" THEN "unrecognized" ELSE v

(* isSet guards every field; the mutant forgets it. *)
Unset(kind, v) == Recognized(kind, v)
FromJSON(kind, v) == IF v = Absent THEN Default ELSE Recognized(kind, v)

(* toJSON leaves defaults out. *)
ToJSON(kind, v) == IF v = Default THEN Absent ELSE Recognized(kind, v)

(* The object is made by fromJSON, or by code with the same values. *)
Build ==
    /\ pc = "build"
    /\ \/ message' = [n \in DOMAIN form |-> FromJSON(form[n], given[n])]
       \/ message' = [n \in DOMAIN form |-> IF given[n] = Absent THEN Default ELSE given[n]]
    /\ pc' = "write"
    /\ UNCHANGED <<exchange, reqId, next, wire, length, received, pos, result, shown>>

----------------------------------------------------------------------------
(* The writer *)

Item(n) == [number |-> n, type |-> WireType(form[n]),
            value |-> IF message[n] = "blank" THEN Default ELSE message[n]]

(* One field: a default is left out, an odd number throws. *)
WriteField ==
    /\ pc = "write"
    /\ next <= Len(form)
    /\ IF message[next] = "odd"
       THEN pc' = "threw" /\ UNCHANGED <<next, wire>>
       ELSE /\ wire' = IF message[next] = Default THEN wire ELSE Append(wire, Item(next))
            /\ next' = next + 1
            /\ UNCHANGED pc
    /\ UNCHANGED <<exchange, reqId, message, length, received, pos, result, shown>>

(* Bytes are counted by halves of an item, so that a torn one is shorter.    *)
Size(payload) ==
    IF payload # <<>> /\ payload[Len(payload)].value = "torn" THEN 2 * Len(payload) - 1 ELSE 2 * Len(payload)

(* frameWSMessage: the header, which has 24 bits for the request id. *)
Frame ==
    /\ pc = "write"
    /\ next > Len(form)
    /\ IF reqId < 0 \/ reqId > MaxReqId
       THEN pc' = "threw" /\ UNCHANGED length
       ELSE pc' = "sent" /\ length' = Size(wire)
    /\ UNCHANGED <<exchange, reqId, message, next, wire, received, pos, result, shown>>

----------------------------------------------------------------------------
(* The reader *)

(* What may arrive for the payload: all of it, or its beginning, perhaps     *)
(* torn within an item, or all of it with an item of another message behind. *)
Beginning(k) == SubSeq(wire, 1, k)
Torn(item) == [item EXCEPT !.value = "torn"]
Arriving ==
    {Beginning(k) : k \in 0..Len(wire)}
    \cup {Append(Beginning(k - 1), Torn(wire[k])) : k \in 1..Len(wire)}
    \cup {Append(wire, [number |-> n, type |-> WireType(form[n]), value |-> "set"]) : n \in DOMAIN form}

(* unframeWSMessage compares the length; the mutant does not. *)
AnyLength(payload) == TRUE
WholeFrame(payload) == Size(payload) = length

(* It throws of any other length, and of any buffer that is too short for a  *)
(* header or does not begin with the magic number.                           *)
Unframe ==
    /\ pc = "sent"
    /\ received' \in Arriving
    /\ \/ pc' = "threw" /\ UNCHANGED result
       \/ WholeFrame(received') /\ pc' = "read" /\ result' = [n \in DOMAIN view |-> Default]
    /\ UNCHANGED <<exchange, reqId, message, next, wire, length, pos, shown>>

(* The tag is the one of a known field. *)
Known(item) == item.number \in DOMAIN view /\ item.type = WireType(view[item.number])

(* An item whose tag is not known is skipped; no torn one gets here. *)
ReadItem ==
    /\ pc = "read"
    /\ pos <= Len(received)
    /\ pos' = pos + 1
    /\ result' = IF Known(received[pos])
                 THEN [result EXCEPT ![received[pos].number] = received[pos].value]
                 ELSE result
    /\ UNCHANGED <<exchange, reqId, pc, message, next, wire, length, received, shown>>

Show ==
    /\ pc = "read"
    /\ pos > Len(received)
    /\ shown' = [n \in DOMAIN view |-> ToJSON(view[n], result[n])]
    /\ pc' = "done"
    /\ UNCHANGED <<exchange, reqId, message, next, wire, length, received, pos, result>>

Finished == pc \in {"done", "threw"} /\ UNCHANGED vars

Next == Build \/ WriteField \/ Frame \/ Unframe \/ ReadItem \/ Show \/ Finished

Spec == Init /\ [][Next]_vars

----------------------------------------------------------------------------
(* Properties *)

TypeOK ==
    /\ pc \in {"build", "write", "sent", "read", "done", "threw"}
    /\ pc # "build" =>
          DOMAIN message = DOMAIN form /\ \A n \in DOMAIN form : message[n] \in Held(form[n])
    /\ next \in 1..(Len(form) + 1)
    /\ wire \in Seq([number : 1..Len(form), type : {0, 2},
                     value : {Default, "set", "foreign", "unrecognized"}])
    /\ received \in Seq([number : 1..Len(form), type : {0, 2},
                         value : {Default, "set", "foreign", "unrecognized", "torn"}])
    /\ length \in Nat /\ pos \in 1..(Len(received) + 1)
    /\ pc \in {"read", "done"} => DOMAIN result = DOMAIN view
    /\ pc = "done" => DOMAIN shown = DOMAIN view

(* What the reader shows of a field that both versions have is what the      *)
(* writer was given, with zeros left out and foreign enums unrecognized; of  *)
(* any other field, nothing: a version more or less, on either side, and a   *)
(* torn or overlong frame never change what it says (encode, unframe,        *)
(* decode).                                                                  *)
ShownAsGiven ==
    pc = "done" =>
        \A n \in DOMAIN view :
            shown[n] = IF /\ n \in DOMAIN form
                          /\ form[n] = view[n]
                          /\ given[n] \notin {Absent, Default, "blank"}
                       THEN Recognized(form[n], given[n])
                       ELSE Absent
=============================================================================
