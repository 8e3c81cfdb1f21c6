----------------------------- MODULE MCAccounts -----------------------------
(* Accounts with two registrations and three logins, for one name or for     *)
(* two: one rule of each kind, each broken by one of the names or passwords. *)
EXTENDS Accounts, TLC

CONSTANTS r1, r2, l1, l2, l3, ada, bob, p1, p2, phone, desk

MCRules == <<DefaultSettings[1], DefaultSettings[3], DefaultSettings[5]>>
MCBreaks == ada :> {} @@ bob :> {MCRules[1], MCRules[2]} @@ p1 :> {} @@ p2 :> {MCRules[3]}

Ask(name, password, device) == [name |-> name, password |-> password, device |-> device]

(* A registration sent again, two for one name, two for two names; logins    *)
(* of one account, twice from one device.                                    *)
MCWishes ==
    {r1 :> Ask(ada, p1, phone) @@ r2 :> second @@ l1 :> Ask(ada, p1, phone)
        @@ l2 :> Ask(ada, p1, phone) @@ l3 :> third :
        second \in {Ask(ada, p1, phone), Ask(ada, p2, phone), Ask(bob, p2, phone)},
        third \in {Ask(ada, p1, desk), Ask(bob, p2, phone)}}

MCFaultSets == {{}, {"null"}, {"redis", "db"}, {"rpc", "full"}}
NoFaults == {{}}
=============================================================================
