-------------------------- MODULE MCMonkeyMessages --------------------------
(* MonkeyMessages for every message type: between equal versions, one with   *)
(* its last field more on either side, and one that changed the wire type of *)
(* its first field.  Two fields of an object differ from the rest.           *)
EXTENDS MonkeyMessages

Types == {MsgUp, MsgUpAck, MsgNotify, AuthReq, AuthAck, ReadReceipt, ExceptionAck}

Older(type) == SubSeq(type, 1, Len(type) - 1)
Other(type) == [type EXCEPT ![1] = IF @ = "string" THEN "int32" ELSE "string"]

Versions ==
    {[form |-> t, view |-> t] : t \in Types}
    \cup {[form |-> t, view |-> Older(t)] : t \in Types}
    \cup {[form |-> Older(t), view |-> t] : t \in Types}
    \cup {[form |-> t, view |-> Other(t)] : t \in Types}

Values(kind) == Held(kind) \cup {Absent}

Given(f) ==
    UNION {{[n \in DOMAIN f |->
                IF n = i THEN v ELSE IF n = j THEN w ELSE IF rest \in Values(f[n]) THEN rest ELSE "set"] :
              v \in Values(f[i]), w \in Values(f[j]), rest \in {Absent, "set"}} :
            i \in DOMAIN f, j \in DOMAIN f}

MCExchanges ==
    UNION {{[form |-> v.form, view |-> v.view, given |-> g] : g \in Given(v.form)} : v \in Versions}
=============================================================================
