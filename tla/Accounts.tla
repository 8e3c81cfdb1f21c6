------------------------------ MODULE Accounts ------------------------------
(***************************************************************************)
(* The user service's accounts: registrations that read the rules for      *)
(* names and passwords while they change, hash and insert; logins, checked *)
(* by the user service for oceanchat-auth; and the events of the logins,   *)
(* which record the device.                                                *)
(*                                                                         *)
(* How late a setting is read is the subject of SettingsCache, how often   *)
(* an event is delivered that of EventDelivery: events of different logins *)
(* are handled in any order, as two pods do that share the consumer.       *)
(*                                                                         *)
(* `faults', fixed by the initial state, says what may go wrong: "null"    *)
(* settings, "redis" commands that throw, "db" writes that throw, done or  *)
(* not, "rpc" calls without an answer, a "full" queue of the publisher.    *)
(***************************************************************************)
EXTENDS Naturals, Sequences, FiniteSets

CONSTANTS
    Register, Login,     \* calls of user.create and of auth.login
    Name, Password, Device,
    Wishes,      \* what registrations and logins may ask: [Register \cup Login -> Wish]
    Rules,       \* the settings to judge by, in the order of the code
    Breaks,      \* Breaks[x]: the rules that the name or password x breaks when they are on
    FaultSets,
    MaxChanges   \* bound: of the model, not of the code

FaultKinds == {"null", "redis", "db", "rpc", "full"}

(* DEFAULT_SETTINGS, all on: as the code judges them.  Nothing would break   *)
(* a rule that is off: a length of 0, an expression that all names match.    *)
Setting(id, of, kind) == [id |-> id, of |-> of, kind |-> kind]
DefaultSettings ==
    << Setting("Username_MinLength", "name", "number"),
       Setting("Username_MaxLength", "name", "number"),
       Setting("Username_Regex", "name", "text"),
       Setting("Password_MinLength", "password", "number"),
       Setting("Password_RequireDigit", "password", "switch"),
       Setting("Password_RequireLowercase", "password", "switch"),
       Setting("Password_RequireUppercase", "password", "switch"),
       Setting("Password_RequireSpecialChar", "password", "switch") >>

Rule == {Rules[i] : i \in DOMAIN Rules}
Wish == [name : Name, password : Password, device : Device]

ASSUME RulesAreTheCodes == \A i \in DOMAIN Rules : \E j \in DOMAIN DefaultSettings : Rules[i] = DefaultSettings[j]
ASSUME CallsAreApart == Register \cap Login = {}
ASSUME WishesFit == Wishes \subseteq [Register \cup Login -> Wish]
ASSUME FaultsAreKnown == FaultSets \subseteq SUBSET FaultKinds
ASSUME BoundIsNumber == MaxChanges \in Nat

VARIABLES
    faults, wish,        \* fixed by the initial state
    policy, changes,     \* policy[r]: the rule r is on
    pc,                  \* where each call is between two awaits, and its answer
    unread, read,        \* read[c]: the settings of c by rule: "on", "off" or "null"
    accounts,            \* the documents of the users collection
    clock, when,         \* when[l]: the time of the login l, 0 before
    events,              \* the login events not yet done with, each by its login
    recorded,            \* the logins whose events have been handled at least once
    lax                  \* history, lax[c]: rules not on throughout the call

vars == <<faults, wish, policy, changes, pc, unread, read, accounts, clock, when, events, recorded, lax>>
registerVars == <<unread, read, lax>>
loginVars == <<clock, when, events, recorded>>

Answered == {"ok", "client", "conflict", "error"}

TypeOK ==
    /\ faults \subseteq FaultKinds /\ wish \in Wishes
    /\ policy \in [Rule -> BOOLEAN] /\ changes \in 0..MaxChanges
    /\ \A c \in Register : pc[c] \in {"idle", "read", "hash"} \cup Answered
    /\ \A l \in Login : pc[l] \in {"idle", "publish"} \cup Answered
    /\ unread \in [Register -> SUBSET Rule] /\ lax \in [Register -> SUBSET Rule]
    /\ \A c \in Register : pc[c] = "read" => read[c] \in [Rule \ unread[c] -> {"on", "off", "null"}]
    /\ \A a \in accounts :
          /\ a.id \in Register /\ a.name \in Name /\ a.password \in Password
          /\ a.last \in 0..clock
          /\ \A i \in DOMAIN a.devices :
                a.devices[i].device \in Device /\ a.devices[i].time \in 1..clock
    /\ clock \in Nat /\ when \in [Login -> 0..clock]
    /\ events \subseteq Login /\ recorded \subseteq Login

Init ==
    /\ faults \in FaultSets /\ wish \in Wishes
    /\ policy = [r \in Rule |-> TRUE] /\ changes = 0
    /\ pc = [c \in Register \cup Login |-> "idle"]
    /\ unread = [c \in Register |-> {}]
    /\ read = [c \in Register |-> <<>>]
    /\ accounts = {}
    /\ clock = 0 /\ when = [l \in Login |-> 0]
    /\ events = {} /\ recorded = {}
    /\ lax = [c \in Register |-> {}]

Goto(c, point) == pc' = [pc EXCEPT ![c] = point]

----------------------------------------------------------------------------
(* user.create *)

(* Someone switches a rule off, or on. *)
Change(r) ==
    /\ changes < MaxChanges
    /\ changes' = changes + 1
    /\ policy' = [policy EXCEPT ![r] = ~@]
    /\ lax' = [c \in Register |-> IF pc[c] = "read" THEN lax[c] \cup {r} ELSE lax[c]]
    /\ UNCHANGED <<faults, wish, pc, unread, read, accounts, loginVars>>

Create(c) ==
    /\ c \in Register /\ pc[c] = "idle"
    /\ Goto(c, "read")
    /\ unread' = [unread EXCEPT ![c] = Rule]
    /\ lax' = [lax EXCEPT ![c] = {r \in Rule : ~policy[r]}]
    /\ UNCHANGED <<faults, wish, policy, changes, read, accounts, loginVars>>

(* The settings are read in parallel.  One that throws ends the call.        *)
ReadSetting(c, r) ==
    /\ pc[c] = "read" /\ r \in unread[c]
    /\ \/ /\ \E v \in {IF policy[r] THEN "on" ELSE "off"} \cup (IF "null" \in faults THEN {"null"} ELSE {}) :
                read' = [read EXCEPT ![c] = [s \in DOMAIN @ \cup {r} |-> IF s = r THEN v ELSE @[s]]]
          /\ unread' = [unread EXCEPT ![c] = @ \ {r}]
          /\ UNCHANGED pc
       \/ /\ "redis" \in faults
          /\ Goto(c, "error")
          /\ read' = [read EXCEPT ![c] = <<>>]
          /\ unread' = [unread EXCEPT ![c] = {}]
    /\ UNCHANGED <<faults, wish, policy, changes, accounts, loginVars, lax>>

(* A number must be there, a switch that is null is off; for the mutant that *)
(* holds of numbers, too.                                                    *)
Judged(c, r) == r \in Breaks[IF r.of = "name" THEN wish[c].name ELSE wish[c].password]
NullIsOff(c, r) == read[c][r] = "on" /\ Judged(c, r)
Refuses(c, r) ==
    \/ read[c][r] = "on" /\ Judged(c, r)
    \/ read[c][r] = "null" /\ r.kind # "switch"

(* validateCreateUserDto: the first rule that refuses gives the answer, a    *)
(* client's error but for an expression that is not configured.              *)
Validate(c) ==
    LET refusing == {i \in DOMAIN Rules : Refuses(c, Rules[i])}
        first == CHOOSE i \in refusing : \A j \in refusing : i <= j
        missing(r) == r.kind = "text" /\ read[c][r] = "null"
    IN  /\ c \in Register /\ pc[c] = "read" /\ unread[c] = {}
        /\ Goto(c, IF refusing = {} THEN "hash"
                   ELSE IF missing(Rules[first]) THEN "error" ELSE "client")
        /\ read' = [read EXCEPT ![c] = <<>>]
        /\ UNCHANGED <<faults, wish, policy, changes, unread, accounts, loginVars, lax>>

(* The unique index on username; the mutant has none. *)
AnyName(name) == TRUE
Unique(name) == \A a \in accounts : a.name # name

Added(c) ==
    accounts \cup {[id |-> c, name |-> wish[c].name, password |-> wish[c].password,
                    last |-> 0, devices |-> <<>>]}

(* E11000 becomes a conflict, any other failure an error; the answer to the  *)
(* caller may be lost.                                                       *)
Insert(c) ==
    /\ pc[c] = "hash"
    /\ \/ Unique(wish[c].name) /\ accounts' = Added(c) /\ Goto(c, "ok")
       \/ ~Unique(wish[c].name) /\ UNCHANGED accounts /\ Goto(c, "conflict")
       \/ /\ "db" \in faults /\ Goto(c, "error")
          /\ \/ Unique(wish[c].name) /\ accounts' = Added(c)
             \/ UNCHANGED accounts
       \/ /\ "rpc" \in faults /\ Goto(c, "error")
          /\ accounts' = IF Unique(wish[c].name) THEN Added(c) ELSE accounts
    /\ UNCHANGED <<faults, wish, policy, changes, registerVars, loginVars>>

----------------------------------------------------------------------------
(* auth.login *)

(* The user service's answer: the user if the password is the account's.     *)
ValidatePassword(l) ==
    IF \E a \in accounts : a.name = wish[l].name /\ a.password = wish[l].password
    THEN "user" ELSE "null"

(* UsersService in oceanchat-auth: the RPC answers or throws, with the other *)
(* service's status if it has one and with 500 if not.                       *)
Validated(l) ==
    {ValidatePassword(l)} \cup (IF faults \cap {"db", "rpc"} # {} THEN {"throws"} ELSE {})

(* LocalAuthGuard makes a client's error of everything that is no user.      *)
HandleRequest(outcome) == IF outcome = "user" THEN "publish" ELSE "client"

(* Nothing changes a password. *)
Authenticate(l) ==
    /\ l \in Login /\ pc[l] = "idle"
    /\ \E outcome \in Validated(l) : Goto(l, HandleRequest(outcome))
    /\ UNCHANGED <<faults, wish, policy, changes, registerVars, accounts, loginVars>>

(* The event carries the time, which the mutant leaves out. *)
NoStamp(l) == when
Stamp(l) == [when EXCEPT ![l] = clock + 1]

(* generateTokens throws when Redis does not keep the session: no event.     *)
(* What it leaves of the session is the subject of AuthSession.              *)
NoTokens(l) ==
    /\ pc[l] = "publish" /\ "redis" \in faults
    /\ Goto(l, "error")
    /\ UNCHANGED <<faults, wish, policy, changes, registerVars, accounts, loginVars>>

(* Nobody waits for the publication. *)
LogIn(l) ==
    /\ pc[l] = "publish"
    /\ clock' = clock + 1
    /\ when' = Stamp(l)
    /\ \/ events' = events \cup {l}
       \/ "full" \in faults /\ UNCHANGED events
    /\ Goto(l, "ok")
    /\ UNCHANGED <<faults, wish, policy, changes, registerVars, accounts, recorded>>

----------------------------------------------------------------------------
(* onEvent and addDevice *)

Entry(l) == [device |-> wish[l].device, time |-> when[l]]

(* The update's pipeline: $map when the device is $in the list, otherwise    *)
(* $concatArrays, as one write; the mutant always adds.                      *)
AppendDevice(list, l) == Append(list, Entry(l))
SetDevice(list, l) ==
    IF \E i \in DOMAIN list : list[i].device = wish[l].device
    THEN [i \in DOMAIN list |-> IF list[i].device = wish[l].device THEN Entry(l) ELSE list[i]]
    ELSE Append(list, Entry(l))

(* An update that throws leaves the event to be delivered again, even if it  *)
(* was done.                                                                 *)
AddDevice(l) ==
    /\ l \in events
    /\ \/ events' = events \ {l}
       \/ "db" \in faults /\ UNCHANGED events
    /\ accounts' = {IF a.name = wish[l].name
                    THEN [a EXCEPT !.last = when[l], !.devices = SetDevice(@, l)]
                    ELSE a : a \in accounts}
    /\ recorded' = recorded \cup {l}
    /\ UNCHANGED <<faults, wish, policy, changes, pc, registerVars, clock, when>>

----------------------------------------------------------------------------

Done == (\A c \in Register \cup Login : pc[c] \in Answered) /\ events = {} /\ UNCHANGED vars

Next ==
    \/ \E r \in Rule : Change(r)
    \/ \E c \in Register : Create(c) \/ Validate(c) \/ Insert(c) \/ \E r \in Rule : ReadSetting(c, r)
    \/ \E l \in Login : Authenticate(l) \/ NoTokens(l) \/ LogIn(l) \/ AddDevice(l)
    \/ Done

Spec == Init /\ [][Next]_vars

----------------------------------------------------------------------------
(* Properties *)

(* A name belongs to the registration that was told so, for good: whoever    *)
(* was told ok finds the account with the password of that call, however     *)
(* many register the name at once; whoever was told of a conflict does not.  *)
NameIsExclusive ==
    \A c \in Register :
        /\ pc[c] = "ok" => \E a \in accounts : a.id = c /\ \A b \in accounts : b.name = a.name => b = a
        /\ pc[c] = "conflict" => \E a \in accounts : a.name = wish[c].name /\ a.id # c

(* No account breaks a rule that was on throughout its registration, though  *)
(* the rules are read one by one while they change; a rule that is read as   *)
(* null does not let a name or a short password through either.              *)
PolicyKept ==
    \A a \in accounts : \A r \in Rule \ lax[a.id] :
        r \in Breaks[IF r.of = "name" THEN a.name ELSE a.password] =>
            "null" \in faults /\ r.kind = "switch"

(* An account lists each device whose login has been handled once, with the  *)
(* time of one of its logins, however often and in whatever order.           *)
DevicesAreLogins ==
    \A a \in accounts :
        LET logins == {l \in recorded : wish[l].name = a.name}
        IN  /\ Len(a.devices) = Cardinality({wish[l].device : l \in logins})
            /\ \A l \in logins : \E i \in DOMAIN a.devices : a.devices[i].device = wish[l].device
            /\ \A i \in DOMAIN a.devices : \E l \in logins : a.devices[i] = Entry(l)

(* "The last time this device logged in" (user.entity.ts): without faults,   *)
(* when all events have been handled, the list has the last time.            *)
LastLoginIsLast ==
    faults = {} /\ events = {} =>
        \A a \in accounts : \A i \in DOMAIN a.devices : \A l \in Login :
            wish[l].name = a.name /\ wish[l].device = a.devices[i].device
                => when[l] <= a.devices[i].time
=============================================================================
