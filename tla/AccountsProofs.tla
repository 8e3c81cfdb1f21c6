--------------------------- MODULE AccountsProofs ---------------------------
(***************************************************************************)
(* Proofs about Accounts, for any registrations, logins, names, passwords, *)
(* devices, rules and faults, and any number of changes of the rules.      *)
(*                                                                         *)
(* Four invariants, each resting on the ones before it:                    *)
(*   Typed       what TypeOK says, of lists and functions as a whole, too; *)
(*   Registered  whose account is whose: it is there exactly for the calls *)
(*               that were answered ok, or with an error;                  *)
(*   AllJudging  a rule that was on throughout has been read as on by the  *)
(*               time the password is hashed, so the wish has passed it;   *)
(*   Listed      the list of an account's devices is what the handled      *)
(*               logins make of it.  One that logs in has an account.      *)
(***************************************************************************)
EXTENDS Accounts, FiniteSetTheorems, SequenceTheorems, TLAPS

DeviceEntry == [device : Device, time : Nat]
Account == [id : Register, name : Name, password : Password, last : Nat, devices : Seq(DeviceEntry)]

(* TypeOK in three parts, with what it leaves out: that pc, read and the     *)
(* lists of devices are functions and sequences, and that only a login that  *)
(* has its time has an event.                                                *)
CallsFit ==
    /\ faults \subseteq FaultKinds /\ wish \in Wishes
    /\ policy \in [Rule -> BOOLEAN] /\ changes \in 0..MaxChanges
    /\ pc \in [Register \cup Login -> {"idle", "read", "hash", "publish"} \cup Answered]
    /\ \A c \in Register : pc[c] # "publish"
    /\ \A l \in Login : pc[l] \notin {"read", "hash"}
    /\ unread \in [Register -> SUBSET Rule] /\ lax \in [Register -> SUBSET Rule]
    /\ DOMAIN read = Register
    /\ \A c \in Register : pc[c] = "idle" => read[c] = <<>>
    /\ \A c \in Register : pc[c] = "read" => read[c] \in [Rule \ unread[c] -> {"on", "off", "null"}]

AccountFits(a) ==
    /\ a \in Account
    /\ a.last \in 0..clock
    /\ \A i \in DOMAIN a.devices : a.devices[i].device \in Device /\ a.devices[i].time \in 1..clock

LoginsFit ==
    /\ clock \in Nat /\ when \in [Login -> 0..clock]
    /\ events \subseteq Login /\ recorded \subseteq Login
    /\ \A l \in events \cup recorded : pc[l] = "ok"
    /\ \A l \in Login : pc[l] = "ok" => when[l] \in 1..clock

Typed == CallsFit /\ (\A a \in accounts : AccountFits(a)) /\ LoginsFit

LEMMA TypedIsTypeOK == Typed => TypeOK
<1> SUFFICES ASSUME Typed PROVE TypeOK
    OBVIOUS
<1>1. \A a \in accounts : a.id \in Register /\ a.name \in Name /\ a.password \in Password
    BY DEF Typed, AccountFits, Account
<1> QED BY <1>1 DEF Typed, CallsFit, AccountFits, LoginsFit, TypeOK

LEMMA FitsLater ==
    ASSUME NEW a, AccountFits(a), clock \in Nat, clock' \in {clock, clock + 1} PROVE AccountFits(a)'
<1>1. \A n : (n \in 0..clock => n \in 0..clock') /\ (n \in 1..clock => n \in 1..clock')
    OBVIOUS
<1> QED BY <1>1 DEF AccountFits

LEMMA WishType == ASSUME CallsFit, NEW x \in Register \cup Login
                  PROVE  wish[x].name \in Name /\ wish[x].password \in Password /\ wish[x].device \in Device
BY WishesFit DEF CallsFit, Wish

LEMMA InitTyped == Init => Typed
BY FaultsAreKnown, BoundIsNumber, CallsAreApart
   DEF Init, Typed, CallsFit, AccountFits, LoginsFit, Answered

(* An update puts the entry of a login in the list, or on it. *)
LEMMA SetDeviceType ==
    ASSUME NEW list \in Seq(DeviceEntry), NEW l \in Login, Entry(l) \in DeviceEntry
    PROVE  /\ SetDevice(list, l) \in Seq(DeviceEntry)
           /\ Len(SetDevice(list, l)) =
                IF \E i \in DOMAIN list : list[i].device = wish[l].device THEN Len(list) ELSE Len(list) + 1
           /\ \A i \in DOMAIN SetDevice(list, l) :
                \/ SetDevice(list, l)[i] = Entry(l)
                \/ i \in DOMAIN list /\ SetDevice(list, l)[i] = list[i] /\ list[i].device # wish[l].device
           /\ \E i \in DOMAIN SetDevice(list, l) : SetDevice(list, l)[i] = Entry(l)
           /\ \A i \in DOMAIN list :
                \/ list[i].device = wish[l].device
                \/ i \in DOMAIN SetDevice(list, l) /\ SetDevice(list, l)[i] = list[i]
<1>1. CASE \E i \in DOMAIN list : list[i].device = wish[l].device
    <2> DEFINE new == [i \in 1..Len(list) |-> IF list[i].device = wish[l].device THEN Entry(l) ELSE list[i]]
    <2>1. SetDevice(list, l) = new
        BY <1>1 DEF SetDevice
    <2>2. \A i \in 1..Len(list) : list[i] \in DeviceEntry
        OBVIOUS
    <2>3. new \in Seq(DeviceEntry) /\ Len(new) = Len(list) /\ DOMAIN new = DOMAIN list
        BY <2>2
    <2> QED BY <1>1, <2>1, <2>3
<1>2. CASE ~ \E i \in DOMAIN list : list[i].device = wish[l].device
    <2>1. SetDevice(list, l) = Append(list, Entry(l))
        BY <1>2 DEF SetDevice
    <2> QED BY <1>2, <2>1
<1> QED BY <1>1, <1>2

(* The accounts after the update. *)
Updated(a, l) ==
    IF a.name = wish[l].name THEN [a EXCEPT !.last = when[l], !.devices = SetDevice(@, l)] ELSE a

LEMMA EntryType ==
    ASSUME Typed, NEW l \in events \cup recorded
    PROVE  Entry(l) \in DeviceEntry /\ Entry(l).device = wish[l].device /\ Entry(l).time \in 1..clock
<1>1. l \in Login /\ when[l] \in 1..clock /\ clock \in Nat
    BY DEF Typed, LoginsFit
<1> QED BY <1>1, WishType DEF Typed, Entry, DeviceEntry

LEMMA UpdatedIs ==
    ASSUME Typed, NEW l \in events, NEW a \in accounts
    PROVE  /\ Updated(a, l).id = a.id /\ Updated(a, l).name = a.name
           /\ Updated(a, l).password = a.password
           /\ Updated(a, l).last \in {a.last, when[l]}
           /\ Updated(a, l).devices = IF a.name = wish[l].name THEN SetDevice(a.devices, l) ELSE a.devices
           /\ AccountFits(Updated(a, l))
<1>1. l \in Login /\ when[l] \in 1..clock /\ clock \in Nat
    BY DEF Typed, LoginsFit
<1>2. a \in Account /\ a.devices \in Seq(DeviceEntry) /\ AccountFits(a)
    BY DEF Typed, AccountFits, Account
<1>3. /\ Entry(l) \in DeviceEntry /\ Entry(l).device = wish[l].device /\ Entry(l).time \in 1..clock
      /\ wish[l].device \in Device
    BY <1>1, EntryType, WishType DEF Typed
<1>4. /\ SetDevice(a.devices, l) \in Seq(DeviceEntry)
      /\ \A i \in DOMAIN SetDevice(a.devices, l) :
            \/ SetDevice(a.devices, l)[i] = Entry(l)
            \/ i \in DOMAIN a.devices /\ SetDevice(a.devices, l)[i] = a.devices[i]
    BY <1>1, <1>2, <1>3, SetDeviceType
<1>5. \A i \in DOMAIN SetDevice(a.devices, l) :
         SetDevice(a.devices, l)[i].device \in Device /\ SetDevice(a.devices, l)[i].time \in 1..clock
    BY <1>2, <1>3, <1>4 DEF AccountFits
<1>6. when[l] \in 0..clock /\ when[l] \in Nat
    BY <1>1
<1>7. CASE a.name = wish[l].name
    <2>1. Updated(a, l) = [a EXCEPT !.last = when[l], !.devices = SetDevice(a.devices, l)]
        BY <1>7 DEF Updated
    <2>2. /\ Updated(a, l) \in Account /\ Updated(a, l).last = when[l]
          /\ Updated(a, l).devices = SetDevice(a.devices, l)
          /\ Updated(a, l).id = a.id /\ Updated(a, l).name = a.name /\ Updated(a, l).password = a.password
        BY <1>2, <1>4, <1>6, <2>1 DEF Account
    <2> QED BY <1>5, <1>6, <1>7, <2>2 DEF AccountFits
<1>8. CASE a.name # wish[l].name
    BY <1>2, <1>8 DEF Updated
<1> QED BY <1>7, <1>8

LEMMA AddDeviceTyped == ASSUME Typed, NEW l \in Login, AddDevice(l) PROVE Typed'
<1>1. /\ l \in events /\ accounts' = {Updated(a, l) : a \in accounts}
      /\ events' \subseteq events /\ recorded' = recorded \cup {l}
      /\ UNCHANGED <<faults, wish, policy, changes, pc, unread, read, lax, clock, when>>
    BY DEF AddDevice, Updated, registerVars
<1>2. \A a \in accounts' : AccountFits(a)'
    BY <1>1, UpdatedIs DEF AccountFits
<1> QED BY <1>1, <1>2 DEF Typed, CallsFit, LoginsFit

(* A step that leaves the accounts and the logins alone. *)
LEMMA CallTyped ==
    ASSUME Typed, CallsFit', UNCHANGED <<accounts, loginVars>>, \A l \in Login : pc'[l] = "ok" <=> pc[l] = "ok"
    PROVE  Typed'
BY DEF Typed, AccountFits, LoginsFit, loginVars

LEMMA CreateTyped == ASSUME Typed, NEW c \in Register, Create(c) PROVE Typed'
<1>1. /\ pc[c] = "idle" /\ pc' = [pc EXCEPT ![c] = "read"]
      /\ unread' = [unread EXCEPT ![c] = Rule]
      /\ lax' = [lax EXCEPT ![c] = {r \in Rule : ~policy[r]}]
      /\ UNCHANGED <<faults, wish, policy, changes, read, accounts, loginVars>>
    BY DEF Create, Goto
<1>2. pc' \in [Register \cup Login -> {"idle", "read", "hash", "publish"} \cup Answered]
    BY <1>1 DEF Typed, CallsFit
<1>3. lax' \in [Register -> SUBSET Rule] /\ unread' \in [Register -> SUBSET Rule]
    BY <1>1 DEF Typed, CallsFit
<1>4. read'[c] \in [Rule \ unread'[c] -> {"on", "off", "null"}]
    <2>1. read'[c] = <<>> /\ Rule \ unread'[c] = {}
        BY <1>1 DEF Typed, CallsFit
    <2> QED BY <2>1
<1>5. \A b \in Register : pc'[b] = "read" => read'[b] \in [Rule \ unread'[b] -> {"on", "off", "null"}]
    BY <1>1, <1>4 DEF Typed, CallsFit
<1>7. /\ \A b \in Register : pc'[b] # "publish" /\ (pc'[b] = "idle" => read'[b] = <<>>)
      /\ \A l \in Login : pc'[l] \notin {"read", "hash"}
      /\ DOMAIN read' = Register
    BY <1>1, CallsAreApart DEF Typed, CallsFit
<1>8. /\ faults' \subseteq FaultKinds /\ wish' \in Wishes
      /\ policy' \in [Rule -> BOOLEAN] /\ changes' \in 0..MaxChanges
    BY <1>1 DEF Typed, CallsFit
<1>6. CallsFit'
    BY <1>2, <1>3, <1>5, <1>7, <1>8 DEF CallsFit
<1> QED BY <1>1, <1>6, CallTyped, CallsAreApart DEF Typed, CallsFit

LEMMA ReadSettingTyped == ASSUME Typed, NEW c \in Register, NEW r \in Rule, ReadSetting(c, r) PROVE Typed'
<1>1. /\ pc[c] = "read" /\ r \in unread[c]
      /\ UNCHANGED <<faults, wish, policy, changes, accounts, loginVars, lax>>
    BY DEF ReadSetting
<1>2. CASE pc' = pc /\ unread' = [unread EXCEPT ![c] = @ \ {r}]
    <2>1. PICK v \in {"on", "off", "null"} :
             read' = [read EXCEPT ![c] = [s \in DOMAIN @ \cup {r} |-> IF s = r THEN v ELSE @[s]]]
        <3>1. pc[c] # "error"
            BY <1>1
        <3>2. \E v \in {IF policy[r] THEN "on" ELSE "off"} \cup (IF "null" \in faults THEN {"null"} ELSE {}) :
                 read' = [read EXCEPT ![c] = [s \in DOMAIN @ \cup {r} |-> IF s = r THEN v ELSE @[s]]]
            BY <1>2, <3>1, CallsAreApart DEF ReadSetting, Goto, Typed, CallsFit
        <3> QED BY <3>2
    <2>4. /\ read[c] \in [Rule \ unread[c] -> {"on", "off", "null"}]
          /\ unread'[c] = unread[c] \ {r} /\ unread[c] \subseteq Rule
          /\ read'[c] = [s \in DOMAIN read[c] \cup {r} |-> IF s = r THEN v ELSE read[c][s]]
        BY <1>1, <1>2, <2>1 DEF Typed, CallsFit
    <2>5. DOMAIN read[c] = Rule \ unread[c] /\ (Rule \ unread[c]) \cup {r} = Rule \ unread'[c]
        BY <1>1, <2>4
    <2>2. read'[c] \in [Rule \ unread'[c] -> {"on", "off", "null"}]
        BY <2>4, <2>5
    <2>3. CallsFit'
        BY <1>1, <1>2, <2>1, <2>2 DEF Typed, CallsFit
    <2> QED BY <1>1, <1>2, <2>3, CallTyped
<1>3. CASE /\ Goto(c, "error") /\ read' = [read EXCEPT ![c] = <<>>] /\ unread' = [unread EXCEPT ![c] = {}]
    <2>1. CallsFit'
        BY <1>1, <1>3 DEF Goto, Typed, CallsFit, Answered
    <2> QED BY <1>1, <1>3, <2>1, CallTyped, CallsAreApart DEF Goto, Typed, CallsFit
<1> QED BY <1>2, <1>3 DEF ReadSetting

LEMMA ValidateTyped == ASSUME Typed, NEW c \in Register, Validate(c) PROVE Typed'
<1>1. /\ \E point \in {"hash", "error", "client"} : pc' = [pc EXCEPT ![c] = point]
      /\ read' = [read EXCEPT ![c] = <<>>]
      /\ UNCHANGED <<faults, wish, policy, changes, unread, accounts, loginVars, lax>>
    BY DEF Validate, Goto
<1>2. CallsFit'
    BY <1>1, CallsAreApart DEF Typed, CallsFit, Answered
<1> QED BY <1>1, <1>2, CallTyped, CallsAreApart DEF Typed, CallsFit

LEMMA AddedType == ASSUME Typed, NEW c \in Register, NEW a \in Added(c), a \notin accounts
    PROVE  /\ a = [id |-> c, name |-> wish[c].name, password |-> wish[c].password,
                   last |-> 0, devices |-> <<>>]
           /\ AccountFits(a)
<1>1. /\ wish[c].name \in Name /\ wish[c].password \in Password
      /\ clock \in Nat /\ <<>> \in Seq(DeviceEntry) /\ DOMAIN <<>> = {}
    BY WishType DEF Typed, LoginsFit
<1>2. a = [id |-> c, name |-> wish[c].name, password |-> wish[c].password,
           last |-> 0, devices |-> <<>>]
    BY DEF Added
<1>3. a \in Account /\ a.last = 0 /\ a.devices = <<>>
    BY <1>1, <1>2 DEF Account
<1>4. 0 \in 0..clock
    BY <1>1
<1> QED BY <1>1, <1>2, <1>3, <1>4 DEF AccountFits

LEMMA InsertIs ==
    ASSUME NEW c \in Register, Insert(c)
    PROVE  /\ \E point \in {"ok", "conflict", "error"} : pc' = [pc EXCEPT ![c] = point]
           /\ UNCHANGED <<faults, wish, policy, changes, registerVars, loginVars>>
           /\ accounts' = accounts \/ (Unique(wish[c].name) /\ accounts' = Added(c))
BY DEF Insert, Goto

LEMMA InsertTyped == ASSUME Typed, NEW c \in Register, Insert(c) PROVE Typed'
<1>1. CallsFit'
    BY InsertIs, CallsAreApart DEF registerVars, Typed, CallsFit, Answered
<1>2. \A a \in accounts' : AccountFits(a)
    BY InsertIs, AddedType DEF Typed
<1>3. \A a \in accounts' : AccountFits(a)'
    BY <1>2, InsertIs DEF AccountFits, loginVars
<1>4. LoginsFit'
    BY InsertIs, CallsAreApart DEF Typed, CallsFit, LoginsFit, loginVars
<1> QED BY <1>1, <1>3, <1>4 DEF Typed

LEMMA LoginTyped == ASSUME Typed, NEW l \in Login, Authenticate(l) \/ NoTokens(l) \/ LogIn(l) PROVE Typed'
<1>1. CASE Authenticate(l)
    <2>1. /\ \E point \in {"publish", "client"} : pc' = [pc EXCEPT ![l] = point]
          /\ UNCHANGED <<faults, wish, policy, changes, registerVars, accounts, loginVars>> /\ pc[l] = "idle"
        BY <1>1 DEF Authenticate, HandleRequest, Goto
    <2>2. CallsFit'
        BY <2>1, CallsAreApart DEF registerVars, Typed, CallsFit, Answered
    <2> QED BY <2>1, <2>2, CallTyped DEF Typed, CallsFit
<1>2. CASE LogIn(l)
    <2>1. /\ pc[l] = "publish" /\ pc' = [pc EXCEPT ![l] = "ok"] /\ clock \in Nat
          /\ clock' = clock + 1 /\ when' = [when EXCEPT ![l] = clock + 1]
          /\ events' \subseteq events \cup {l}
          /\ UNCHANGED <<faults, wish, policy, changes, registerVars, accounts, recorded>>
        BY <1>2 DEF LogIn, Stamp, Goto, Typed, LoginsFit
    <2>2. \A n : (n \in 0..clock => n \in 0..clock') /\ (n \in 1..clock => n \in 1..clock')
        BY <2>1
    <2>3. clock' \in Nat /\ clock' \in 0..clock' /\ clock' \in 1..clock'
        BY <2>1
    <2>4. when' \in [Login -> 0..clock']
        BY <2>1, <2>2, <2>3 DEF Typed, LoginsFit
    <2>5. \A k \in Login : pc'[k] = "ok" => when'[k] \in 1..clock'
        BY <2>1, <2>2, <2>3 DEF Typed, CallsFit, LoginsFit
    <2>6. LoginsFit'
        BY <2>1, <2>3, <2>4, <2>5 DEF Typed, CallsFit, LoginsFit
    <2>7. CallsFit'
        BY <2>1, CallsAreApart DEF registerVars, Typed, CallsFit, Answered
    <2>8. \A a \in accounts' : AccountFits(a)'
        BY <2>1, FitsLater DEF Typed
    <2> QED BY <2>6, <2>7, <2>8 DEF Typed
<1>3. CASE NoTokens(l)
    <2>1. /\ pc' = [pc EXCEPT ![l] = "error"]
          /\ UNCHANGED <<faults, wish, policy, changes, registerVars, accounts, loginVars>> /\ pc[l] = "publish"
        BY <1>3 DEF NoTokens, Goto
    <2>2. CallsFit'
        BY <2>1, CallsAreApart DEF registerVars, Typed, CallsFit, Answered
    <2> QED BY <2>1, <2>2, CallTyped DEF Typed, CallsFit
<1> QED BY <1>1, <1>2, <1>3

LEMMA NextTyped == Typed /\ [Next]_vars => Typed'
<1> SUFFICES ASSUME Typed, [Next]_vars PROVE Typed'
    OBVIOUS
<1>1. ASSUME NEW r \in Rule, Change(r) PROVE Typed'
    <2>1. /\ UNCHANGED <<faults, wish, pc, unread, read, accounts, loginVars>>
          /\ changes' \in 0..MaxChanges /\ policy' \in [Rule -> BOOLEAN]
        BY <1>1, BoundIsNumber DEF Change, Typed, CallsFit
    <2>2. lax' \in [Register -> SUBSET Rule]
        BY <1>1 DEF Change, Typed, CallsFit
    <2>3. CallsFit'
        BY <2>1, <2>2 DEF Typed, CallsFit
    <2> QED BY <2>1, <2>3, CallTyped
<1>2. CASE UNCHANGED vars
    BY <1>2, CallTyped DEF vars, loginVars, Typed, CallsFit
<1> QED
    BY <1>1, <1>2, CreateTyped, ReadSettingTyped, ValidateTyped, InsertTyped, LoginTyped, AddDeviceTyped
    DEF Next, Done

LEMMA AlwaysTyped == Spec => []Typed
BY InitTyped, NextTyped, PTL DEF Spec

----------------------------------------------------------------------------
(* Names *)

(* An account is its registration's, and no two have one name.  Who was told *)
(* ok has one, who was told of a conflict finds another's.                   *)
Registered ==
    /\ \A a \in accounts :
          /\ a.name = wish[a.id].name /\ a.password = wish[a.id].password
          /\ pc[a.id] \in {"ok", "error"}
    /\ \A a, b \in accounts : a.name = b.name => a = b
    /\ \A c \in Register :
          /\ pc[c] = "ok" => \E a \in accounts : a.id = c
          /\ pc[c] = "conflict" => \E a \in accounts : a.name = wish[c].name

LEMMA InitRegistered == Init => Registered
BY DEF Init, Registered

LEMMA RegisteredIsExclusive == Typed /\ Registered => NameIsExclusive
<1> SUFFICES ASSUME Typed, Registered, NEW c \in Register
             PROVE  /\ pc[c] = "ok" => \E a \in accounts : a.id = c /\ \A b \in accounts : b.name = a.name => b = a
                    /\ pc[c] = "conflict" => \E a \in accounts : a.name = wish[c].name /\ a.id # c
    BY DEF NameIsExclusive
<1> QED BY DEF Registered

(* A step that keeps the accounts and brings no registration to ok, error or *)
(* conflict.                                                                 *)
LEMMA OthersRegistered ==
    ASSUME Typed, Registered, UNCHANGED <<wish, accounts>>,
           \A c \in Register : pc'[c] = pc[c] \/ (pc[c] \notin {"ok", "error"} /\ pc'[c] \notin {"ok", "conflict"})
    PROVE  Registered'
<1>1. \A a \in accounts : a.id \in Register
    BY DEF Typed, AccountFits, Account
<1> QED BY <1>1 DEF Registered

LEMMA InsertRegistered ==
    ASSUME Typed, Registered, NEW c \in Register, Insert(c) PROVE Registered'
<1>1. pc[c] = "hash" /\ UNCHANGED wish /\ pc \in [Register \cup Login -> {"idle", "read", "hash", "publish"} \cup Answered]
    BY DEF Insert, Typed, CallsFit
<1>2. /\ \A a \in accounts : a.id \in Register /\ a.id # c
      /\ \A b \in Register : b # c => pc'[b] = pc[b]
    BY <1>1, InsertIs DEF Typed, AccountFits, Account, Registered
<1>3. \/ pc'[c] = "ok" /\ Unique(wish[c].name) /\ accounts' = Added(c)
      \/ pc'[c] = "conflict" /\ ~Unique(wish[c].name) /\ accounts' = accounts
      \/ pc'[c] = "error" /\ Unique(wish[c].name) /\ accounts' = Added(c)
      \/ pc'[c] = "error" /\ accounts' = accounts
    BY <1>1 DEF Insert, Goto
<1>4. CASE accounts' = Added(c) /\ Unique(wish[c].name) /\ pc'[c] \in {"ok", "error"}
    <2> DEFINE new == [id |-> c, name |-> wish[c].name, password |-> wish[c].password,
                       last |-> 0, devices |-> <<>>]
    <2>1. /\ accounts' = accounts \cup {new}
          /\ new.id = c /\ new.name = wish[c].name /\ new.password = wish[c].password
          /\ \A a \in accounts : a.name # new.name
        BY <1>4 DEF Added, Unique
    <2> HIDE DEF new
    <2> QED BY <1>1, <1>2, <1>4, <2>1 DEF Registered
<1>5. CASE accounts' = accounts /\ pc'[c] = "conflict" /\ ~Unique(wish[c].name)
    BY <1>1, <1>2, <1>5 DEF Registered, Unique
<1>6. CASE accounts' = accounts /\ pc'[c] = "error"
    BY <1>1, <1>2, <1>6 DEF Registered
<1> QED BY <1>3, <1>4, <1>5, <1>6

(* The accounts after an update are those before it, but for their devices.  *)
LEMMA AccountsUpdated ==
    ASSUME Typed, NEW l \in Login, AddDevice(l)
    PROVE  /\ l \in events /\ accounts' = {Updated(a, l) : a \in accounts}
           /\ \A a \in accounts : Updated(a, l).id = a.id /\ Updated(a, l).name = a.name
                                  /\ Updated(a, l).password = a.password
           /\ UNCHANGED <<faults, wish, policy, changes, pc, unread, read, lax, clock, when>>
           /\ recorded' = recorded \cup {l}
<1>1. /\ l \in events /\ accounts' = {Updated(a, l) : a \in accounts}
      /\ UNCHANGED <<faults, wish, policy, changes, pc, unread, read, lax, clock, when>>
      /\ recorded' = recorded \cup {l}
    BY DEF AddDevice, Updated, registerVars
<1> QED BY <1>1, UpdatedIs

LEMMA AddDeviceRegistered ==
    ASSUME Typed, Registered, NEW l \in Login, AddDevice(l) PROVE Registered'
<1>1. \A b \in accounts' : \E a \in accounts : b = Updated(a, l)
    BY AccountsUpdated
<1>2. \A a \in accounts : Updated(a, l) \in accounts'
    BY AccountsUpdated
<1>3. \A a, b \in accounts' : a.name = b.name => a = b
    BY <1>1, AccountsUpdated DEF Registered
<1>4. \A a \in accounts' : a.name = wish[a.id].name /\ a.password = wish[a.id].password /\ pc[a.id] \in {"ok", "error"}
    BY <1>1, AccountsUpdated DEF Registered
<1>5. \A c \in Register :
          /\ pc[c] = "ok" => \E a \in accounts' : a.id = c
          /\ pc[c] = "conflict" => \E a \in accounts' : a.name = wish[c].name
    BY <1>2, AccountsUpdated DEF Registered
<1> QED BY <1>3, <1>4, <1>5, AccountsUpdated DEF Registered

(* What the other steps leave alone, and where they may bring a call. *)
LEMMA OtherSteps ==
    ASSUME Typed, [Next]_vars,
           \A c \in Register : ~Insert(c), \A l \in Login : ~AddDevice(l)
    PROVE  /\ UNCHANGED <<faults, wish, accounts, recorded>>
           /\ \A c \in Register : pc'[c] = pc[c] \/ (pc[c] \notin {"ok", "error"} /\ pc'[c] \notin {"ok", "conflict"})
<1>1. ASSUME NEW r \in Rule, Change(r) PROVE UNCHANGED <<faults, wish, pc, accounts, recorded>>
    BY <1>1 DEF Change, loginVars
<1>2. ASSUME NEW c \in Register, Create(c) \/ Validate(c) \/ \E r \in Rule : ReadSetting(c, r)
      PROVE  /\ UNCHANGED <<faults, wish, accounts, recorded>>
             /\ pc[c] \notin {"ok", "error"}
             /\ pc' = pc \/ \E point \in {"read", "hash", "client", "error"} : pc' = [pc EXCEPT ![c] = point]
    BY <1>2 DEF Create, Validate, ReadSetting, Goto, loginVars
<1>3. ASSUME NEW l \in Login, Authenticate(l) \/ NoTokens(l) \/ LogIn(l)
      PROVE  /\ UNCHANGED <<faults, wish, accounts, recorded>>
             /\ \E point \in {"publish", "client", "ok", "error"} : pc' = [pc EXCEPT ![l] = point]
    BY <1>3 DEF Authenticate, HandleRequest, NoTokens, LogIn, Goto, loginVars
<1>4. ASSUME UNCHANGED vars PROVE UNCHANGED <<faults, wish, pc, accounts, recorded>>
    BY <1>4 DEF vars, loginVars
<1>5. pc \in [Register \cup Login -> {"idle", "read", "hash", "publish"} \cup Answered]
    BY DEF Typed, CallsFit
<1>6. CASE \E c \in Register : Create(c) \/ Validate(c) \/ \E r \in Rule : ReadSetting(c, r)
    BY <1>2, <1>5, <1>6
<1>7. CASE \E l \in Login : Authenticate(l) \/ NoTokens(l) \/ LogIn(l)
    BY <1>3, <1>5, <1>7, CallsAreApart
<1> QED BY <1>1, <1>4, <1>6, <1>7 DEF Next, Done

LEMMA RegisteredStep == Typed /\ Registered /\ [Next]_vars => Registered'
BY OthersRegistered, InsertRegistered, AddDeviceRegistered, OtherSteps

(* A name belongs to the registration that was told so, for good, however    *)
(* many register it at once: the unique index is enough.                     *)
THEOREM NamesAreExclusive == Spec => []NameIsExclusive
BY InitRegistered, RegisteredStep, AlwaysTyped, RegisteredIsExclusive, PTL DEF Spec

----------------------------------------------------------------------------
(* Rules *)

(* The wish of c breaks no rule that was on throughout, but for a switch     *)
(* that may have been read as null.                                          *)
Kept(c) == \A r \in Rule \ lax[c] : Judged(c, r) => "null" \in faults /\ r.kind = "switch"

(* While c reads, a rule that is off now, or was read as off, counts as lax. *)
Judging(c) ==
    /\ pc[c] = "read" =>
          /\ \A r \in Rule : policy[r] \/ r \in lax[c]
          /\ \A r \in Rule \ unread[c] :
                /\ read[c][r] = "off" => r \in lax[c]
                /\ read[c][r] = "null" => "null" \in faults
    /\ pc[c] = "hash" => Kept(c)
    /\ (\E a \in accounts : a.id = c) => Kept(c)

AllJudging == \A c \in Register : Judging(c)

LEMMA InitJudging == Init => AllJudging
BY DEF Init, AllJudging, Judging

LEMMA JudgingIsPolicy == Typed /\ Registered /\ AllJudging => PolicyKept
<1> SUFFICES ASSUME Typed, Registered, AllJudging, NEW a \in accounts, NEW r \in Rule \ lax[a.id],
                    r \in Breaks[IF r.of = "name" THEN a.name ELSE a.password]
             PROVE  "null" \in faults /\ r.kind = "switch"
    BY DEF PolicyKept
<1>1. a.id \in Register /\ a.name = wish[a.id].name /\ a.password = wish[a.id].password
    BY DEF Typed, AccountFits, Account, Registered
<1> QED BY <1>1 DEF AllJudging, Judging, Kept, Judged

LEMMA ChangeJudging ==
    ASSUME Typed, Registered, AllJudging, NEW s \in Rule, Change(s) PROVE AllJudging'
<1> SUFFICES ASSUME NEW c \in Register PROVE Judging(c)'
    BY DEF AllJudging
<1>1. /\ policy' = [policy EXCEPT ![s] = ~@]
      /\ lax'[c] = IF pc[c] = "read" THEN lax[c] \cup {s} ELSE lax[c]
      /\ UNCHANGED <<faults, wish, pc, unread, read, accounts>>
    BY DEF Change
<1>2. \A r \in Rule : r # s => policy'[r] = policy[r]
    BY <1>1 DEF Typed, CallsFit
<1>3. Judging(c)
    BY DEF AllJudging
<1>4. pc[c] = "hash" \/ (\E a \in accounts : a.id = c) => lax'[c] = lax[c]
    BY <1>1 DEF Registered
<1> QED BY <1>1, <1>2, <1>3, <1>4 DEF Judging, Kept, Judged

LEMMA CreateJudging ==
    ASSUME Typed, Registered, AllJudging, NEW b \in Register, Create(b) PROVE AllJudging'
<1> SUFFICES ASSUME NEW c \in Register PROVE Judging(c)'
    BY DEF AllJudging
<1>1. /\ pc[b] = "idle" /\ pc' = [pc EXCEPT ![b] = "read"]
      /\ unread' = [unread EXCEPT ![b] = Rule] /\ lax' = [lax EXCEPT ![b] = {r \in Rule : ~policy[r]}]
      /\ UNCHANGED <<faults, wish, policy, read, accounts>>
    BY DEF Create, Goto
<1>2. Judging(c) /\ (b = c => ~ \E a \in accounts : a.id = c)
    BY <1>1 DEF AllJudging, Registered
<1>3. CASE c = b
    <2>1. pc'[c] = "read" /\ unread'[c] = Rule /\ lax'[c] = {r \in Rule : ~policy[r]}
        BY <1>1, <1>3 DEF Typed, CallsFit
    <2> QED BY <1>1, <1>2, <1>3, <2>1 DEF Judging
<1>4. CASE c # b
    <2>1. pc'[c] = pc[c] /\ unread'[c] = unread[c] /\ lax'[c] = lax[c]
        BY <1>1, <1>4 DEF Typed, CallsFit
    <2> QED BY <1>1, <1>2, <2>1 DEF Judging, Kept, Judged
<1> QED BY <1>3, <1>4

LEMMA ReadJudging ==
    ASSUME Typed, Registered, AllJudging, NEW b \in Register, NEW s \in Rule, ReadSetting(b, s)
    PROVE  AllJudging'
<1> SUFFICES ASSUME NEW c \in Register PROVE Judging(c)'
    BY DEF AllJudging
<1>1. pc[b] = "read" /\ s \in unread[b] /\ UNCHANGED <<faults, wish, policy, accounts, lax>>
    BY DEF ReadSetting
<1>2. Judging(c) /\ Judging(b)
    BY DEF AllJudging
<1>3. CASE c # b
    <2>1. pc'[c] = pc[c] /\ unread'[c] = unread[c] /\ read'[c] = read[c]
        BY <1>1, <1>3 DEF ReadSetting, Goto, Typed, CallsFit
    <2> QED BY <1>1, <1>2, <2>1 DEF Judging, Kept, Judged
<1>4. CASE c = b /\ pc' = pc
    <2>1. \E v \in {IF policy[s] THEN "on" ELSE "off"} \cup (IF "null" \in faults THEN {"null"} ELSE {}) :
             read' = [read EXCEPT ![b] = [r \in DOMAIN @ \cup {s} |-> IF r = s THEN v ELSE @[r]]]
        BY <1>1, <1>4, CallsAreApart DEF ReadSetting, Goto, Typed, CallsFit
    <2>2. PICK v : /\ v = "null" => "null" \in faults
                   /\ v = "off" => ~policy[s]
                   /\ read' = [read EXCEPT ![b] = [r \in DOMAIN @ \cup {s} |-> IF r = s THEN v ELSE @[r]]]
        BY <2>1
    <2>3. unread'[b] = unread[b] \ {s}
        BY <1>1, <1>4, CallsAreApart DEF ReadSetting, Goto, Typed, CallsFit
    <2>4. DOMAIN read[b] = Rule \ unread[b] /\ b \in DOMAIN read
        BY <1>1 DEF Typed, CallsFit
    <2>5. \A r \in Rule \ unread'[b] : read'[b][r] = IF r = s THEN v ELSE read[b][r]
        BY <2>2, <2>3, <2>4
    <2> QED BY <1>1, <1>2, <1>4, <2>2, <2>3, <2>5 DEF Judging, Kept, Judged
<1>5. CASE c = b /\ pc' # pc
    <2>1. pc'[b] = "error"
        BY <1>5 DEF ReadSetting, Goto, Typed, CallsFit
    <2> QED BY <1>1, <1>2, <1>5, <2>1 DEF Judging, Kept, Judged
<1> QED BY <1>3, <1>4, <1>5

LEMMA ValidateJudging ==
    ASSUME Typed, Registered, AllJudging, NEW b \in Register, Validate(b) PROVE AllJudging'
<1> SUFFICES ASSUME NEW c \in Register PROVE Judging(c)'
    BY DEF AllJudging
<1>1. /\ pc[b] = "read" /\ unread[b] = {}
      /\ \E point \in {"hash", "error", "client"} : pc' = [pc EXCEPT ![b] = point]
      /\ read' = [read EXCEPT ![b] = <<>>]
      /\ UNCHANGED <<faults, wish, policy, unread, accounts, lax>>
    BY DEF Validate, Goto
<1>2. Judging(c)
    BY DEF AllJudging
<1>3. CASE c # b
    <2>1. pc'[c] = pc[c] /\ read'[c] = read[c]
        BY <1>1, <1>3 DEF Typed, CallsFit
    <2> QED BY <1>1, <1>2, <2>1 DEF Judging, Kept, Judged
<1>4. CASE c = b
    <2>1. pc'[c] # "read"
        BY <1>1, <1>4 DEF Typed, CallsFit
    <2>2. ASSUME pc'[c] = "hash" PROVE Kept(c)'
        <3>1. {i \in DOMAIN Rules : Refuses(b, Rules[i])} = {}
            BY <2>2, <1>4 DEF Validate, Goto, Typed, CallsFit
        <3>2. \A r \in Rule : ~Refuses(b, r)
            BY <3>1 DEF Rule
        <3>3. \A r \in Rule : read[b][r] \in {"on", "off", "null"}
            BY <1>1 DEF Typed, CallsFit
        <3>4. ASSUME NEW r \in Rule \ lax[b], Judged(b, r) PROVE "null" \in faults /\ r.kind = "switch"
            BY <1>1, <1>2, <1>4, <3>2, <3>3, <3>4 DEF Refuses, Judging
        <3> QED BY <1>1, <1>4, <3>4 DEF Kept, Judged
    <2> QED BY <1>1, <1>2, <1>4, <2>1, <2>2 DEF Judging, Kept, Judged
<1> QED BY <1>3, <1>4

LEMMA InsertJudging ==
    ASSUME Typed, Registered, AllJudging, NEW b \in Register, Insert(b) PROVE AllJudging'
<1> SUFFICES ASSUME NEW c \in Register PROVE Judging(c)'
    BY DEF AllJudging
<1>1. /\ pc[b] = "hash" /\ pc'[b] \in {"ok", "conflict", "error"}
      /\ c # b => pc'[c] = pc[c]
      /\ UNCHANGED <<faults, wish, policy, unread, read, lax>>
    BY InsertIs DEF Insert, registerVars, Typed, CallsFit
<1>2. Judging(c)
    BY DEF AllJudging
<1>3. \A a \in accounts' : a \in accounts \/ a.id = b
    BY InsertIs DEF Added
<1>4. (\E a \in accounts' : a.id = c) => Kept(c)
    BY <1>1, <1>2, <1>3 DEF Judging
<1> QED BY <1>1, <1>2, <1>4 DEF Judging, Kept, Judged

(* A step that keeps the registrations and the ids of the accounts. *)
LEMMA OthersJudging ==
    ASSUME AllJudging, UNCHANGED <<faults, wish, policy, registerVars>>,
           \A c \in Register : pc'[c] = pc[c],
           \A b \in accounts' : \E a \in accounts : a.id = b.id
    PROVE  AllJudging'
<1> SUFFICES ASSUME NEW c \in Register PROVE Judging(c)'
    BY DEF AllJudging
<1> QED BY DEF AllJudging, Judging, Kept, Judged, registerVars

LEMMA JudgingStep == Typed /\ Registered /\ AllJudging /\ [Next]_vars => AllJudging'
<1> SUFFICES ASSUME Typed, Registered, AllJudging, [Next]_vars PROVE AllJudging'
    OBVIOUS
<1>1. ASSUME NEW l \in Login, AddDevice(l) PROVE AllJudging'
    <2>1. \A b \in accounts' : \E a \in accounts : a.id = b.id
        BY <1>1, AccountsUpdated
    <2> QED BY <1>1, <2>1, AccountsUpdated, OthersJudging DEF registerVars
<1>2. ASSUME NEW l \in Login, Authenticate(l) \/ NoTokens(l) \/ LogIn(l) PROVE AllJudging'
    <2>1. /\ UNCHANGED <<faults, wish, policy, registerVars, accounts>>
          /\ \A c \in Register : pc'[c] = pc[c]
        BY <1>2, CallsAreApart DEF Authenticate, NoTokens, LogIn, Goto, loginVars, Typed, CallsFit
    <2> QED BY <2>1, OthersJudging
<1>3. ASSUME UNCHANGED vars PROVE AllJudging'
    BY <1>3, OthersJudging DEF vars, registerVars
<1> QED
    BY <1>1, <1>2, <1>3, ChangeJudging, CreateJudging, ReadJudging, ValidateJudging, InsertJudging
    DEF Next, Done

(* No account breaks a rule that was on throughout its registration, in      *)
(* whatever order its settings are read while they change.                   *)
THEOREM PolicyIsKept == Spec => []PolicyKept
BY InitRegistered, RegisteredStep, AlwaysTyped, InitJudging, JudgingStep, JudgingIsPolicy, PTL DEF Spec

(* Every variable keeps its type; the times of the devices are of logins     *)
(* that have happened.                                                       *)
THEOREM TypeCorrect == Spec => []TypeOK
BY AlwaysTyped, TypedIsTypeOK, PTL

----------------------------------------------------------------------------
(* Devices *)

(* The handled logins of a name, their devices, and what they would record. *)
LoginsOf(name) == {l \in recorded : wish[l].name = name}
DevicesOf(name) == {wish[l].device : l \in LoginsOf(name)}
EntriesOf(name) == {Entry(l) : l \in LoginsOf(name)}

(* The list has one entry for each of the devices, and each is of a login.  *)
Lists(list, devices, entries) ==
    /\ Len(list) = Cardinality(devices)
    /\ \A d \in devices : \E i \in DOMAIN list : list[i].device = d
    /\ \A i \in DOMAIN list : list[i] \in entries

ListIs(a) == Lists(a.devices, DevicesOf(a.name), EntriesOf(a.name))

Listed ==
    /\ IsFiniteSet(recorded)
    /\ \A l \in Login : pc[l] \in {"publish", "ok"} => \E a \in accounts : a.name = wish[l].name
    /\ \A a \in accounts : ListIs(a)

LEMMA ListedIsDevices == Listed => DevicesAreLogins
<1> SUFFICES ASSUME Listed, NEW a \in accounts
             PROVE  /\ Len(a.devices) = Cardinality(DevicesOf(a.name))
                    /\ \A l \in LoginsOf(a.name) : \E i \in DOMAIN a.devices : a.devices[i].device = wish[l].device
                    /\ \A i \in DOMAIN a.devices : \E l \in LoginsOf(a.name) : a.devices[i] = Entry(l)
    BY DEF DevicesAreLogins, LoginsOf, DevicesOf
<1>1. Lists(a.devices, DevicesOf(a.name), EntriesOf(a.name))
    BY DEF Listed, ListIs
<1> QED BY <1>1 DEF Lists, DevicesOf, EntriesOf

LEMMA InitListed == Init => Listed
BY CallsAreApart, FS_EmptySet DEF Init, Listed

(* A step that keeps the accounts and what has been recorded. *)
LEMMA OthersListed ==
    ASSUME Typed, Listed, UNCHANGED <<wish, accounts, recorded>>,
           \A l \in recorded : when'[l] = when[l],
           \A l \in Login : pc'[l] \in {"publish", "ok"} =>
               pc[l] \in {"publish", "ok"} \/ \E a \in accounts : a.name = wish[l].name
    PROVE  Listed'
<1>1. \A a \in accounts : ListIs(a)'
    <2> SUFFICES ASSUME NEW a \in accounts PROVE ListIs(a)'
        OBVIOUS
    <2>1. DevicesOf(a.name)' = DevicesOf(a.name)
        BY DEF LoginsOf, DevicesOf
    <2>2. EntriesOf(a.name)' = EntriesOf(a.name)
        BY DEF EntriesOf, LoginsOf, Entry
    <2> QED BY <2>1, <2>2 DEF Listed, ListIs
<1> QED BY <1>1 DEF Listed

(* Nobody has logged in to an account that is only now inserted. *)
LEMMA InsertListed == ASSUME Typed, Listed, NEW c \in Register, Insert(c) PROVE Listed'
<1>1. /\ UNCHANGED <<wish, when, recorded>> /\ \A l \in Login : pc'[l] = pc[l]
      /\ accounts' = accounts \/ (Unique(wish[c].name) /\ accounts' = Added(c))
    BY InsertIs, CallsAreApart DEF loginVars, Typed, CallsFit
<1>2. CASE accounts' = accounts
    BY <1>1, <1>2, OthersListed
<1>3. CASE Unique(wish[c].name) /\ accounts' = Added(c)
    <2>1. \A l \in recorded : pc[l] = "ok" /\ l \in Login
        BY DEF Typed, LoginsFit
    <2>2. LoginsOf(wish[c].name) = {}
        BY <1>3, <2>1 DEF LoginsOf, Listed, Unique
    <2>3. DevicesOf(wish[c].name) = {}
        BY <2>2 DEF DevicesOf
    <2>4. ASSUME NEW a \in accounts' PROVE ListIs(a)
        <3>1. CASE a \in accounts
            BY <3>1 DEF Listed
        <3>2. CASE a \notin accounts
            <4>1. a.name = wish[c].name /\ a.devices = <<>>
                BY <1>3, <3>2, AddedType
            <4>2. Lists(<<>>, {}, EntriesOf(wish[c].name))
                BY FS_EmptySet DEF Lists
            <4> QED BY <2>3, <4>1, <4>2 DEF ListIs
        <3> QED BY <3>1, <3>2
    <2>5. \A a \in accounts' : ListIs(a)'
        <3> SUFFICES ASSUME NEW a \in accounts' PROVE ListIs(a)'
            OBVIOUS
        <3>1. DevicesOf(a.name)' = DevicesOf(a.name)
            BY <1>1 DEF LoginsOf, DevicesOf
        <3>2. EntriesOf(a.name)' = EntriesOf(a.name)
            BY <1>1 DEF LoginsOf, EntriesOf, Entry
        <3> QED BY <2>4, <3>1, <3>2 DEF ListIs
    <2>6. \A l \in Login : pc'[l] \in {"publish", "ok"} => \E a \in accounts' : a.name = wish[l].name
        BY <1>1, <1>3 DEF Listed, Added
    <2> QED BY <1>1, <2>5, <2>6 DEF Listed
<1> QED BY <1>1, <1>2, <1>3

(* The device of the login is in the account's list, or new to it. *)
LEMMA UpdatedList ==
    ASSUME Typed, Listed, NEW l \in Login, AddDevice(l), NEW a \in accounts, NEW b, b = Updated(a, l)
    PROVE  ListIs(b)'
<1>1. /\ l \in events /\ recorded' = recorded \cup {l} /\ UNCHANGED <<wish, when>>
      /\ b.name = a.name
      /\ b.devices = IF a.name = wish[l].name THEN SetDevice(a.devices, l) ELSE a.devices
    BY AccountsUpdated, UpdatedIs
<1>2. ListIs(a) /\ a.devices \in Seq(DeviceEntry)
    BY DEF Listed, Typed, AccountFits, Account
<1>3. ListIs(b)' = Lists(b.devices, DevicesOf(a.name)', EntriesOf(a.name)')
    BY <1>1 DEF ListIs
<1>4. CASE a.name # wish[l].name
    <2>1. b.devices = a.devices
        BY <1>1, <1>4
    <2>2. DevicesOf(a.name)' = DevicesOf(a.name)
        BY <1>1, <1>4 DEF DevicesOf, LoginsOf
    <2>3. EntriesOf(a.name)' = EntriesOf(a.name)
        BY <1>1, <1>4 DEF EntriesOf, LoginsOf, Entry
    <2> QED BY <1>2, <1>3, <2>1, <2>2, <2>3 DEF ListIs
<1>5. CASE a.name = wish[l].name
    <2> DEFINE list == SetDevice(a.devices, l)
    <2>1. b.devices = list
        BY <1>1, <1>5
    <2>2. /\ DevicesOf(a.name)' = DevicesOf(a.name) \cup {wish[l].device}
          /\ EntriesOf(a.name)' = EntriesOf(a.name) \cup {Entry(l)}
        BY <1>1, <1>5 DEF DevicesOf, EntriesOf, LoginsOf, Entry
    <2>3. Entry(l) \in DeviceEntry /\ Entry(l).device = wish[l].device
        BY <1>1, EntryType
    <2>4. /\ Len(list) =
                IF \E i \in DOMAIN a.devices : a.devices[i].device = wish[l].device
                THEN Len(a.devices) ELSE Len(a.devices) + 1
          /\ \A i \in DOMAIN list :
                \/ list[i] = Entry(l)
                \/ i \in DOMAIN a.devices /\ list[i] = a.devices[i] /\ a.devices[i].device # wish[l].device
          /\ \E i \in DOMAIN list : list[i] = Entry(l)
          /\ \A i \in DOMAIN a.devices :
                \/ a.devices[i].device = wish[l].device
                \/ i \in DOMAIN list /\ list[i] = a.devices[i]
        BY <1>2, <2>3, SetDeviceType
    <2> HIDE DEF list
    <2>5. Lists(a.devices, DevicesOf(a.name), EntriesOf(a.name))
        BY <1>2 DEF ListIs
    <2>6. (\E i \in DOMAIN a.devices : a.devices[i].device = wish[l].device) <=> wish[l].device \in DevicesOf(a.name)
        <3>1. \A e \in EntriesOf(a.name) : e.device \in DevicesOf(a.name)
            BY DEF EntriesOf, DevicesOf, Entry
        <3> QED BY <2>5, <3>1 DEF Lists
    <2>7. IsFiniteSet(DevicesOf(a.name))
        <3>1. IsFiniteSet(LoginsOf(a.name))
            BY FS_Subset DEF LoginsOf, Listed
        <3> DEFINE f == [k \in LoginsOf(a.name) |-> wish[k].device]
        <3>2. f \in Surjection(LoginsOf(a.name), DevicesOf(a.name))
            BY DEF Surjection, DevicesOf
        <3> QED BY <3>1, <3>2, FS_Surjection
    <2>8. Len(list) = Cardinality(DevicesOf(a.name) \cup {wish[l].device})
        <3>1. Len(a.devices) = Cardinality(DevicesOf(a.name))
            BY <2>5 DEF Lists
        <3>2. Cardinality(DevicesOf(a.name) \cup {wish[l].device}) =
                  IF wish[l].device \in DevicesOf(a.name)
                  THEN Cardinality(DevicesOf(a.name)) ELSE Cardinality(DevicesOf(a.name)) + 1
            BY <2>7, FS_AddElement
        <3> QED BY <2>4, <2>6, <3>1, <3>2
    <2>9. \A d \in DevicesOf(a.name) \cup {wish[l].device} : \E i \in DOMAIN list : list[i].device = d
        BY <2>3, <2>4, <2>5 DEF Lists
    <2>10. \A i \in DOMAIN list : list[i] \in EntriesOf(a.name) \cup {Entry(l)}
        BY <2>4, <2>5 DEF Lists
    <2>11. Lists(list, DevicesOf(a.name)', EntriesOf(a.name)')
        BY <2>2, <2>8, <2>9, <2>10 DEF Lists
    <2> QED BY <1>3, <2>1, <2>11
<1> QED BY <1>4, <1>5

LEMMA AddDeviceListed == ASSUME Typed, Listed, NEW l \in Login, AddDevice(l) PROVE Listed'
<1>1. \A b \in accounts' : ListIs(b)'
    <2> SUFFICES ASSUME NEW b \in accounts' PROVE ListIs(b)'
        OBVIOUS
    <2>1. PICK a \in accounts : b = Updated(a, l)
        BY AccountsUpdated
    <2> QED BY <2>1, UpdatedList
<1>2. \A a \in accounts : Updated(a, l) \in accounts' /\ Updated(a, l).name = a.name
    BY AccountsUpdated
<1>3. IsFiniteSet(recorded')
    BY AccountsUpdated, FS_AddElement DEF Listed
<1> QED BY <1>1, <1>2, <1>3, AccountsUpdated DEF Listed

LEMMA ListedStep == Typed /\ Listed /\ [Next]_vars => Listed'
<1> SUFFICES ASSUME Typed, Listed, [Next]_vars PROVE Listed'
    OBVIOUS
<1>1. ASSUME NEW l \in Login, Authenticate(l) PROVE Listed'
    <2>1. PICK outcome \in Validated(l) : pc' = [pc EXCEPT ![l] = HandleRequest(outcome)]
        BY <1>1 DEF Authenticate, Goto
    <2>2. HandleRequest(outcome) = "publish" => \E a \in accounts : a.name = wish[l].name
        BY <2>1 DEF Validated, HandleRequest, ValidatePassword
    <2>3. HandleRequest(outcome) \in {"publish", "client"}
        BY DEF HandleRequest
    <2>4. \A k \in Login : pc'[k] \in {"publish", "ok"} =>
              pc[k] \in {"publish", "ok"} \/ \E a \in accounts : a.name = wish[k].name
        BY <2>1, <2>2, <2>3 DEF Typed, CallsFit
    <2> QED BY <1>1, <2>4, OthersListed DEF Authenticate, loginVars
<1>2. ASSUME NEW l \in Login, LogIn(l) PROVE Listed'
    <2>1. l \notin recorded
        BY <1>2 DEF LogIn, Typed, LoginsFit
    <2>2. \A k \in recorded : when'[k] = when[k]
        BY <1>2, <2>1 DEF LogIn, Stamp, Typed, LoginsFit
    <2>3. \A k \in Login : pc'[k] \in {"publish", "ok"} => pc[k] \in {"publish", "ok"}
        BY <1>2 DEF LogIn, Goto, Typed, CallsFit
    <2> QED BY <1>2, <2>2, <2>3, OthersListed DEF LogIn
<1>3. ASSUME NEW c \in Register, Create(c) \/ Validate(c) \/ \E r \in Rule : ReadSetting(c, r) PROVE Listed'
    <2>1. UNCHANGED <<wish, accounts, when, recorded>>
        BY <1>3 DEF Create, Validate, ReadSetting, loginVars
    <2>2. \A l \in Login : pc'[l] = pc[l]
        BY <1>3, CallsAreApart DEF Create, Validate, ReadSetting, Goto, Typed, CallsFit
    <2> QED BY <2>1, <2>2, OthersListed
<1>4. ASSUME NEW r \in Rule, Change(r) PROVE Listed'
    BY <1>4, OthersListed DEF Change, loginVars
<1>5. ASSUME UNCHANGED vars PROVE Listed'
    BY <1>5, OthersListed DEF vars
<1>6. ASSUME NEW l \in Login, NoTokens(l) PROVE Listed'
    <2>1. \A k \in Login : pc'[k] \in {"publish", "ok"} => pc[k] \in {"publish", "ok"}
        BY <1>6 DEF NoTokens, Goto, Typed, CallsFit
    <2> QED BY <1>6, <2>1, OthersListed DEF NoTokens, loginVars
<1> QED BY <1>1, <1>2, <1>3, <1>4, <1>5, <1>6, InsertListed, AddDeviceListed DEF Next, Done

(* An account lists each device whose login has been handled once, with the  *)
(* time of one of its logins, however often and in whatever order the events *)
(* are handled.                                                              *)
THEOREM DevicesAreFromLogins == Spec => []DevicesAreLogins
BY InitListed, ListedStep, AlwaysTyped, ListedIsDevices, PTL DEF Spec
=============================================================================
