--------------------------- MODULE Authorization ---------------------------
(***************************************************************************)
(* The rules of libs/authorization for one user: PermissionGuard with      *)
(* PermissionCheckerService, and RoomAccessValidator with its chain of     *)
(* validators, which awaits every fact it consults while others change.    *)
(*                                                                         *)
(* `world' holds the facts, one value for each Datum: a room's context or  *)
(* None, the user's roles in a room and in general, the type of the team   *)
(* and whether the user is in it, the roles that a permission is given to. *)
(* How late the caches deliver a fact is the subject of RoleCache.         *)
(***************************************************************************)
EXTENDS Naturals, Sequences, FiniteSets, SequencesExt

CONSTANTS
    Room, None,
    Call,
    Asks,        \* what calls may ask: RoomAsk or GuardAsk
    Values,     \* Values[d]: the values the datum d may take
    Starts,      \* worlds to start with
    ProviderSets,
    MaxChanges, MaxDepth      \* bounds: of the model, not of the code

Perm == {"view-c-room", "view-p-room", "view-d-room", "view-joined-room"}
Providers == {"room", "scope", "team"}
Datum == ({"room", "scoped"} \X Room) \cup ({"rule"} \X Perm)
         \cup {<<"team", "public">>, <<"team", "member">>, <<"user", "roles">>}

(* canAccess to a room, or a handler with required permissions. *)
RoomAsk == [room : Room]
GuardAsk == [all : BOOLEAN, perms : SUBSET Perm, scope : Room \cup {None}]

(* IRoomContext, without the id, and of the team whether there is one.       *)
Context == [t : {"c", "p", "d", "l"}, inTeam : BOOLEAN, parent : Room \cup {None}]

(* The types the code gives to what the providers answer. *)
Fits(d, v) ==
    /\ d \in {"room"} \X Room => v \in Context \cup {None}
    /\ d \in {<<"team", "public">>, <<"team", "member">>} => v \in BOOLEAN

ASSUME ValuesFit == \A d \in Datum : \A v \in Values[d] : Fits(d, v)
ASSUME StartsFit == \A w \in Starts : DOMAIN w = Datum /\ \A d \in Datum : Fits(d, w[d])
ASSUME AsksFit == Asks \subseteq RoomAsk \cup GuardAsk
ASSUME NoneIsNoRoom == None \notin Room
ASSUME BoundsAreNumbers == MaxChanges \in Nat /\ MaxDepth \in Nat \ {0}
ASSUME ProvidersAreKnown == ProviderSets \subseteq SUBSET Providers

VARIABLES
    world, changes,
    provided,    \* the data providers the service has injected
    asked,       \* asked[c]: what c asks, fixed by the initial state
    pc,          \* where each call is between two awaits, and its answer
    path,        \* path[c]: the rooms canAccess is at, each inside the next
    ask,         \* ask[c]: the permission c is asking for
    mine,        \* mine[c]: the user's roles as c has read them
    unread,      \* unread[g]: the reads that Promise.all still waits for
    rules,       \* rules[g]: the rules as g has read them
    seen         \* history: the worlds there were during each call

vars == <<world, changes, provided, asked, pc, path, ask, mine, unread, rules, seen>>
accessVars == <<path, ask>>
guardVars == <<unread, rules>>

IsGuard(c) == "perms" \in DOMAIN asked[c]
Validating ==
    {"discussion", "team", "teammate", "public", "member", "type", "roles", "rules"}
Ended == {"granted", "denied", "nobody", "threw"}

Goto(c, point) == pc' = [pc EXCEPT ![c] = point]
Answer(c, yes) == Goto(c, IF yes THEN "granted" ELSE "denied")

----------------------------------------------------------------------------
(* The rules, read off one world at once *)

RoomIn(w, r) == w[<<"room", r>>]

Holds(w, roles, p) == roles \cap w[<<"rule", p>>] # {}
May(w, p) == Holds(w, w[<<"user", "roles">>], p)

(* A livechat has no permission of its own. *)
TypePermission(t) ==
    CASE t = "c" -> "view-c-room" [] t = "p" -> "view-p-room" [] t = "d" -> "view-d-room"
      [] OTHER -> None

AdmitsByTeam(w, x) ==
    /\ x.t = "c" /\ x.inTeam /\ "team" \in provided
    /\ IF w[<<"team", "public">>] THEN May(w, "view-c-room") ELSE w[<<"team", "member">>]

AdmitsAsPublic(w, x) == x.t = "c" /\ ~x.inTeam /\ May(w, "view-c-room")

AdmitsMember(w, r, x) ==
    /\ "scope" \in provided /\ w[<<"scoped", r>>] # {}
    /\ \/ May(w, "view-joined-room")
       \/ TypePermission(x.t) # None /\ May(w, TypePermission(x.t))

Admits(w, r) ==
    LET x == RoomIn(w, r)
    IN  AdmitsByTeam(w, x) \/ AdmitsAsPublic(w, x) \/ AdmitsMember(w, r, x)

Parent(w, r) ==
    IF RoomIn(w, r) = None \/ "room" \notin provided THEN None ELSE RoomIn(w, r).parent

(* The room and the rooms it is a discussion in, directly or not. *)
Lineage(w, r) ==
    {a \in Room : \A S \in SUBSET Room :
        r \in S /\ (\A b \in S : Parent(w, b) \in S \cup {None}) => a \in S}

(* A user may see a room that admits him, or a discussion inside one. *)
Accessible(w, r) == \E a \in Lineage(w, r) : RoomIn(w, a) # None /\ Admits(w, a)

RolesIn(w, scope) ==
    w[<<"user", "roles">>]
    \cup (IF scope = None \/ "scope" \notin provided THEN {} ELSE w[<<"scoped", scope>>])

(* All of the permissions, as PermissionGuard requires, or any of them; no   *)
(* requirement admits everyone.                                              *)
Permitted(w, n) ==
    LET has(p) == Holds(w, RolesIn(w, n.scope), p)
    IN  IF n.all THEN \A p \in n.perms : has(p) ELSE \E p \in n.perms : has(p)

----------------------------------------------------------------------------

TypeOK ==
    /\ changes \in 0..MaxChanges
    /\ provided \in ProviderSets
    /\ asked \in [Call -> Asks]
    /\ \A c \in Call :
        /\ pc[c] \in Ended \cup {"idle"} \cup IF IsGuard(c) THEN {"reading"} ELSE Validating
        /\ Len(path[c]) <= MaxDepth
        /\ pc[c] \in Validating <=> path[c] # <<>>
        /\ pc[c] \in {"roles", "rules"} => ask[c].perm \in Perm
        /\ Cardinality(seen[c]) <= MaxChanges + 1

Init ==
    /\ world \in Starts
    /\ changes = 0
    /\ provided \in ProviderSets
    /\ asked \in [Call -> Asks]
    /\ pc = [c \in Call |-> "idle"]
    /\ path = [c \in Call |-> <<>>]
    /\ ask = [c \in Call |-> None]
    /\ mine = [c \in Call |-> {}]
    /\ unread = [c \in Call |-> {}]
    /\ rules = [c \in Call |-> <<>>]
    /\ seen = [c \in Call |-> {}]

(* Someone changes one fact. *)
Change ==
    /\ changes < MaxChanges
    /\ changes' = changes + 1
    /\ \E d \in Datum : \E v \in Values[d] \ {world[d]} :
        world' = [world EXCEPT ![d] = v]
    /\ seen' = [c \in Call |->
                  IF pc[c] \in Ended \cup {"idle"} THEN seen[c] ELSE seen[c] \cup {world'}]
    /\ UNCHANGED <<provided, asked, pc, accessVars, mine, unread, rules>>

----------------------------------------------------------------------------
(* RoomAccessValidator.canAccess: the validators in their order, each at the *)
(* innermost room of the path.                                               *)

Here(c) == Last(path[c])

Begin(c) ==
    /\ pc[c] = "idle" /\ ~IsGuard(c)
    /\ LET r == asked[c].room
       IN  IF RoomIn(world, r) = None
           THEN Goto(c, "denied") /\ UNCHANGED path
           ELSE /\ Goto(c, "discussion")
                /\ path' = [path EXCEPT ![c] = <<[id |-> r, ctx |-> RoomIn(world, r)]>>]
    /\ seen' = [seen EXCEPT ![c] = {world}]
    /\ UNCHANGED <<world, changes, provided, asked, ask, mine, guardVars>>

(* The answer for the room is no: the discussion in it goes on with its next *)
(* validator.  The mutants start it again, and go on with no room left.      *)
FromTheStart == "discussion"
NextValidator == "team"
NoRoomLeft(c) == path[c] = <<>>
IsOutermost(c) == Len(path[c]) = 1

GiveUpHere(c) ==
    IF IsOutermost(c)
    THEN Goto(c, "denied") /\ path' = [path EXCEPT ![c] = <<>>]
    ELSE Goto(c, NextValidator) /\ path' = [path EXCEPT ![c] = Front(@)]

Grant(c) ==
    /\ Goto(c, "granted")
    /\ path' = [path EXCEPT ![c] = <<>>]
    /\ UNCHANGED ask

(* hasPermission for the global roles, and where to go on if it says no. *)
AskFor(c, perm, otherwise) ==
    /\ ask' = [ask EXCEPT ![c] = [perm |-> perm, otherwise |-> otherwise]]
    /\ Goto(c, "roles")
    /\ UNCHANGED path

Pass(c, point) == Goto(c, point) /\ UNCHANGED <<path, ask>>

(* getRoomContext of the parent, which canAccess is then asked about.        *)
Discussion(c) ==
    LET p == Here(c).ctx.parent
    IN  /\ pc[c] = "discussion"
        /\ IF p = None \/ "room" \notin provided \/ RoomIn(world, p) = None
           THEN Pass(c, "team")
           ELSE /\ Len(path[c]) < MaxDepth
                /\ path' = [path EXCEPT ![c] = Append(@, [id |-> p, ctx |-> RoomIn(world, p)])]
                /\ UNCHANGED <<pc, ask>>
        /\ UNCHANGED mine

Team(c) ==
    LET x == Here(c).ctx
    IN  /\ pc[c] = "team"
        /\ IF x.t # "c" \/ ~x.inTeam \/ "team" \notin provided
           THEN Pass(c, "public")
           ELSE IF world[<<"team", "public">>]
           THEN AskFor(c, "view-c-room", "public")
           ELSE Pass(c, "teammate")
        /\ UNCHANGED mine

Teammate(c) ==
    /\ pc[c] = "teammate"
    /\ IF world[<<"team", "member">>] THEN Grant(c) ELSE Pass(c, "public")
    /\ UNCHANGED mine

(* The mutant forgets that the rooms of a team have rules of their own. *)
AnyChannel(x) == x.t = "c"
OpenChannel(x) == x.t = "c" /\ ~x.inTeam

Public(c) ==
    /\ pc[c] = "public"
    /\ IF OpenChannel(Here(c).ctx)
       THEN AskFor(c, "view-c-room", "member")
       ELSE Pass(c, "member")
    /\ UNCHANGED mine

Member(c) ==
    /\ pc[c] = "member"
    /\ IF "scope" \in provided /\ world[<<"scoped", Here(c).id>>] # {}
       THEN AskFor(c, "view-joined-room", "type")
       ELSE GiveUpHere(c) /\ UNCHANGED ask
    /\ UNCHANGED mine

ByType(c) ==
    /\ pc[c] = "type"
    /\ IF TypePermission(Here(c).ctx.t) = None
       THEN GiveUpHere(c) /\ UNCHANGED ask
       ELSE AskFor(c, TypePermission(Here(c).ctx.t), "giveUp")
    /\ UNCHANGED mine

(* hasPermission reads the roles of the user first, ...                      *)
AskRoles(c) ==
    /\ pc[c] = "roles"
    /\ mine' = [mine EXCEPT ![c] = world[<<"user", "roles">>]]
    /\ Pass(c, "rules")

(* ... then those of the permission. *)
AskRules(c) ==
    /\ pc[c] = "rules"
    /\ IF Holds(world, mine[c], ask[c].perm)
       THEN Grant(c)
       ELSE /\ IF ask[c].otherwise = "giveUp"
               THEN GiveUpHere(c)
               ELSE Goto(c, ask[c].otherwise) /\ UNCHANGED path
            /\ UNCHANGED ask
    /\ mine' = [mine EXCEPT ![c] = {}]

Validate(c) ==
    /\ \/ Discussion(c) \/ Team(c) \/ Teammate(c) \/ Public(c) \/ Member(c) \/ ByType(c)
       \/ AskRoles(c) \/ AskRules(c)
    /\ UNCHANGED <<world, changes, provided, asked, guardVars, seen>>

----------------------------------------------------------------------------
(* PermissionGuard.canActivate with hasAllPermissions.  Asked for any of the *)
(* permissions, c calls hasAtLeastOnePermission instead.                     *)

Enter(c) ==
    /\ pc[c] = "idle" /\ IsGuard(c)
    /\ IF asked[c].perms = {}
       THEN Answer(c, asked[c].all) /\ UNCHANGED <<unread, rules>>
       ELSE /\ Goto(c, "reading")
            /\ unread' = [unread EXCEPT ![c] = {"roles"} \cup asked[c].perms]
            /\ rules' = [rules EXCEPT ![c] = [p \in asked[c].perms |-> {}]]
    /\ seen' = [seen EXCEPT ![c] = {world}]
    /\ UNCHANGED <<world, changes, provided, asked, accessVars, mine>>

(* The guard finds no user in the request, of which it takes the scope, too: *)
(* it refuses, or the token guard has not run and it fails over req.user.    *)
NoUser(c) ==
    /\ pc[c] = "idle" /\ IsGuard(c) /\ asked[c].all /\ asked[c].perms # {}
    /\ Goto(c, "nobody") \/ Goto(c, "threw")
    /\ UNCHANGED <<world, changes, provided, asked, accessVars, mine, guardVars, seen>>

(* The global roles, and then the roles in the scope. *)
ReadRoles(c) ==
    /\ "roles" \in unread[c]
    /\ mine' = [mine EXCEPT ![c] = world[<<"user", "roles">>]]
    /\ unread' = [unread EXCEPT ![c] = (@ \ {"roles"}) \cup
                    (IF asked[c].scope = None \/ "scope" \notin provided THEN {} ELSE {"scoped"})]
    /\ UNCHANGED rules

ReadScoped(c) ==
    /\ "scoped" \in unread[c]
    /\ mine' = [mine EXCEPT ![c] = @ \cup world[<<"scoped", asked[c].scope>>]]
    /\ unread' = [unread EXCEPT ![c] = @ \ {"scoped"}]
    /\ UNCHANGED rules

ReadRule(c, p) ==
    /\ p \in unread[c]
    /\ rules' = [rules EXCEPT ![c][p] = world[<<"rule", p>>]]
    /\ unread' = [unread EXCEPT ![c] = @ \ {p}]
    /\ UNCHANGED mine

Read(c) ==
    /\ pc[c] = "reading"
    /\ ReadRoles(c) \/ ReadScoped(c) \/ \E p \in Perm : ReadRule(c, p)
    /\ UNCHANGED <<world, changes, provided, asked, pc, accessVars, seen>>

(* every, or some; the mutant has them the other way round. *)
Swapped(c, has) == IF asked[c].all THEN has # {} ELSE has = asked[c].perms
Satisfied(c, has) == IF asked[c].all THEN has = asked[c].perms ELSE has # {}

Decide(c) ==
    /\ pc[c] = "reading" /\ unread[c] = {}
    /\ Answer(c, Satisfied(c, {p \in asked[c].perms : rules[c][p] \cap mine[c] # {}}))
    /\ mine' = [mine EXCEPT ![c] = {}]
    /\ rules' = [rules EXCEPT ![c] = <<>>]
    /\ UNCHANGED <<world, changes, provided, asked, accessVars, unread, seen>>

----------------------------------------------------------------------------

(* A provider or a cache throws: so does the check. *)
ReadFails(c) ==
    /\ pc[c] \notin Ended \cup {"idle"}
    /\ Goto(c, "threw")
    /\ path' = [path EXCEPT ![c] = <<>>]
    /\ mine' = [mine EXCEPT ![c] = {}]
    /\ unread' = [unread EXCEPT ![c] = {}]
    /\ rules' = [rules EXCEPT ![c] = <<>>]
    /\ UNCHANGED <<world, changes, provided, asked, ask, seen>>

Done == (\A c \in Call : pc[c] \in Ended) /\ UNCHANGED vars

Next ==
    \/ Change
    \/ \E c \in Call :
        Begin(c) \/ Validate(c) \/ Enter(c) \/ NoUser(c) \/ Read(c) \/ Decide(c) \/ ReadFails(c)
    \/ Done

Spec == Init /\ [][Next]_vars

(* What is awaited comes, or throws. *)
FairSpec ==
    /\ Spec
    /\ \A c \in Call : WF_vars(Validate(c) \/ Read(c) \/ Decide(c))

----------------------------------------------------------------------------
(* Properties *)

Due(c, w) == IF IsGuard(c) THEN Permitted(w, asked[c]) ELSE Accessible(w, asked[c].room)

(* With no change meanwhile, the chain of validators and the parallel reads  *)
(* give exactly the answer of the rules.                                     *)
AnswerIsExact ==
    \A c \in Call : pc[c] \in {"granted", "denied"} /\ Cardinality(seen[c]) = 1 =>
        (pc[c] = "granted" <=> \A w \in seen[c] : Due(c, w))

(* One change between two of its reads does not let a check grant what was   *)
(* due neither before nor after: reads of two worlds do not add up to one.   *)
GrantWasDue ==
    \A c \in Call : pc[c] = "granted" /\ Cardinality(seen[c]) <= 2 =>
        \E w \in seen[c] : Due(c, w)

(* Every check ends, as long as no room is a discussion in itself.           *)
NoCycle(w) == \A r \in Room : Parent(w, r) = None \/ r \notin Lineage(w, Parent(w, r))

ChecksEnd ==
    [](NoCycle(world)) => \A c \in Call : pc[c] \notin Ended \cup {"idle"} ~> pc[c] \in Ended
=============================================================================
