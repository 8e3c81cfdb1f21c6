------------------------- MODULE AuthorizationProofs -------------------------
(***************************************************************************)
(* Proofs about Authorization, for any calls, rooms, roles, questions,     *)
(* providers and worlds, and any number of changes while a check runs.     *)
(*                                                                         *)
(* A check reads one fact after another, and the world may change between  *)
(* two reads.  As long as the worlds it has seen differ in one fact only   *)
(* (Steady), all that it has read holds together in one of them: Evidence  *)
(* says so of room access, GuardFits of the guard.  It is kept because a   *)
(* read that disagrees with that world is a read of the fact that changes, *)
(* and then the world of now agrees with all (Switch).                     *)
(*                                                                         *)
(* A refusal is another matter: it is due when the check has seen only one *)
(* world (Refused), for then every validator that has been passed said no. *)
(***************************************************************************)
EXTENDS Authorization, FiniteSetTheorems, SequenceTheorems, TLAPS

(* A room that canAccess is at, and where a call may be. *)
Step == [id : Room, ctx : Context \ {None}]
Point == Ended \cup {"idle", "reading"} \cup Validating
Running(c) == pc[c] \notin Ended \cup {"idle"}
Otherwise == {"public", "member", "type", "giveUp"}

WorldFits(w) == DOMAIN w = Datum /\ \A d \in Datum : Fits(d, w[d])

CallFits(c) ==
    /\ pc[c] \in Point /\ path[c] \in Seq(Step) /\ Len(path[c]) <= MaxDepth
    /\ IsGuard(c) => pc[c] \notin Validating
    /\ ~IsGuard(c) => pc[c] # "reading"
    /\ pc[c] \in Validating <=> path[c] # <<>>
    /\ pc[c] \in {"roles", "rules"} => ask[c].perm \in Perm /\ ask[c].otherwise \in Otherwise

(* The worlds c has seen differ in one fact at most. *)
Steady(c) == \E d \in Datum : \A u, w \in seen[c] : \A e \in Datum \ {d} : u[e] = w[e]

SeenFits(c) ==
    /\ IsFiniteSet(seen[c]) /\ Cardinality(seen[c]) <= changes + 1
    /\ \A w \in seen[c] : WorldFits(w)
    /\ Running(c) => world \in seen[c]
    /\ Cardinality(seen[c]) <= 2 => Steady(c)

(* In the world w, the step s of the path is at a room that the room asked    *)
(* for is in, or at that room itself, and knows it as it is.                 *)
On(c, w, s) == RoomIn(w, s.id) = s.ctx /\ s.id \in Lineage(w, asked[c].room)

PathFits(c) == Steady(c) => \A k \in 1..Len(path[c]) : \E w \in seen[c] : On(c, w, path[c][k])

Belongs(c, w) == "scope" \in provided /\ w[<<"scoped", Here(c).id>>] # {}
Asking(c, otherwise) == pc[c] \in {"roles", "rules"} /\ ask[c].otherwise = otherwise
InTeam(c) == Here(c).ctx.t = "c" /\ Here(c).ctx.inTeam /\ "team" \in provided

(* What the validator has read of the world w, at the room it is at. *)
HasRead(c, w) ==
    /\ pc[c] = "teammate" => InTeam(c) /\ ~w[<<"team", "public">>]
    /\ Asking(c, "public") => ask[c].perm = "view-c-room" /\ InTeam(c) /\ w[<<"team", "public">>]
    /\ Asking(c, "member") => ask[c].perm = "view-c-room" /\ OpenChannel(Here(c).ctx)
    /\ Asking(c, "type") => ask[c].perm = "view-joined-room" /\ Belongs(c, w)
    /\ pc[c] = "type" => Belongs(c, w)
    /\ Asking(c, "giveUp") => ask[c].perm = TypePermission(Here(c).ctx.t) /\ ask[c].perm # None /\ Belongs(c, w)
    /\ pc[c] = "rules" => mine[c] = w[<<"user", "roles">>]

Evidence(c) ==
    Steady(c) /\ pc[c] \in Validating => \E w \in seen[c] : On(c, w, Here(c)) /\ HasRead(c, w)

(* What a guard has read. *)
Scoped(c, w) ==
    IF asked[c].scope = None \/ "scope" \notin provided \/ "scoped" \in unread[c] THEN {}
    ELSE w[<<"scoped", asked[c].scope>>]

GuardHasRead(c, w) ==
    /\ "roles" \notin unread[c] => mine[c] = w[<<"user", "roles">>] \cup Scoped(c, w)
    /\ \A p \in asked[c].perms \ unread[c] : rules[c][p] = w[<<"rule", p>>]

GuardFits(c) ==
    pc[c] = "reading" =>
        /\ unread[c] \subseteq {"roles", "scoped"} \cup asked[c].perms
        /\ DOMAIN rules[c] = asked[c].perms
        /\ "scoped" \in unread[c] =>
              "roles" \notin unread[c] /\ asked[c].scope # None /\ "scope" \in provided
        /\ Steady(c) => \E w \in seen[c] : GuardHasRead(c, w)

(* The rooms that the room r is in do not admit. *)
Outside(w, r) == Parent(w, r) = None \/ ~Accessible(w, Parent(w, r))

(* With one world: the path goes from parent to parent, the validators that  *)
(* have been said no.                                                        *)
Said(c, w) ==
    LET r == Here(c).id
        x == Here(c).ctx
        joined == pc[c] = "type" \/ Asking(c, "giveUp")
        public == joined \/ pc[c] = "member" \/ Asking(c, "type")
        team == public \/ pc[c] = "public" \/ Asking(c, "member")
    IN  /\ pc[c] # "discussion" => Outside(w, r)
        /\ team => ~AdmitsByTeam(w, x)
        /\ public => ~AdmitsAsPublic(w, x)
        /\ joined => ~May(w, "view-joined-room")

Upward(c, w) ==
    /\ path[c][1].id = asked[c].room
    /\ \A k \in 1..Len(path[c]) - 1 : path[c][k + 1].id = Parent(w, path[c][k].id)

Refused(c) ==
    \A w : seen[c] = {w} =>
        /\ pc[c] \in Validating => Upward(c, w) /\ Said(c, w)
        /\ pc[c] = "denied" => ~Due(c, w)

(* However often the one fact changes, a grant was due in a world seen. *)
Granted(c) == Steady(c) /\ pc[c] = "granted" => \E w \in seen[c] : Due(c, w)

CallInv(c) ==
    /\ CallFits(c) /\ SeenFits(c) /\ PathFits(c) /\ Evidence(c) /\ GuardFits(c)
    /\ Refused(c) /\ Granted(c)

----------------------------------------------------------------------------
(* The facts, and the rooms a room is in *)

NotOfRoom(e) == \A r \in Room : e # <<"room", r>>

LEMMA Data ==
    /\ \A r \in Room : <<"room", r>> \in Datum /\ <<"scoped", r>> \in Datum /\ NotOfRoom(<<"scoped", r>>)
    /\ \A p \in Perm : <<"rule", p>> \in Datum /\ NotOfRoom(<<"rule", p>>)
    /\ \A e \in {<<"team", "public">>, <<"team", "member">>, <<"user", "roles">>} :
          e \in Datum /\ NotOfRoom(e)
BY DEF Datum, NotOfRoom

LEMMA ParentType ==
    ASSUME NEW w, WorldFits(w), NEW r \in Room
    PROVE  RoomIn(w, r) \in Context \cup {None} /\ Parent(w, r) \in Room \cup {None}
<1>1. RoomIn(w, r) \in Context \cup {None}
    BY Data DEF WorldFits, Fits, RoomIn
<1> QED BY <1>1 DEF Parent, Context

LEMMA LineageBase == ASSUME NEW w, NEW r \in Room PROVE r \in Lineage(w, r) /\ Lineage(w, r) \subseteq Room
BY DEF Lineage

LEMMA LineageUp ==
    ASSUME NEW w, WorldFits(w), NEW r \in Room, NEW a \in Lineage(w, r), Parent(w, a) # None
    PROVE  Parent(w, a) \in Lineage(w, r)
<1>1. a \in Room /\ Parent(w, a) \in Room
    BY LineageBase, ParentType
<1> SUFFICES ASSUME NEW S \in SUBSET Room, r \in S, \A b \in S : Parent(w, b) \in S \cup {None}
             PROVE  Parent(w, a) \in S
    BY <1>1 DEF Lineage
<1>2. a \in S
    BY DEF Lineage
<1> QED BY <1>2

LEMMA LineageStep ==
    ASSUME NEW w, WorldFits(w), NEW r \in Room
    PROVE  Lineage(w, r) \subseteq {r} \cup (IF Parent(w, r) = None THEN {} ELSE Lineage(w, Parent(w, r)))
<1> DEFINE S == {r} \cup (IF Parent(w, r) = None THEN {} ELSE Lineage(w, Parent(w, r)))
<1>1. Parent(w, r) # None => Parent(w, r) \in Room
    BY ParentType
<1>2. S \subseteq Room /\ r \in S
    BY <1>1, LineageBase
<1>3. ASSUME NEW b \in S PROVE Parent(w, b) \in S \cup {None}
    BY <1>1, <1>3, LineageBase, LineageUp
<1> HIDE DEF S
<1>4. \A a \in Lineage(w, r) : a \in S
    BY <1>2, <1>3 DEF Lineage
<1> QED BY <1>4 DEF S

(* Whoever is not admitted to a room, nor to the rooms that it is in. *)
LEMMA NotAccessible ==
    ASSUME NEW w, WorldFits(w), NEW r \in Room, Outside(w, r), RoomIn(w, r) = None \/ ~Admits(w, r)
    PROVE  ~Accessible(w, r)
BY LineageStep DEF Outside, Accessible

LEMMA NoRoomNotAccessible ==
    ASSUME NEW w, WorldFits(w), NEW r \in Room, RoomIn(w, r) = None
    PROVE  ~Accessible(w, r)
BY NotAccessible DEF Outside, Parent

(* A room stays in the lineage when it is the only one to change, and every  *)
(* room does when no room changes.                                           *)
LEMMA LineageKept ==
    ASSUME NEW w, NEW u, NEW r \in Room, NEW b \in Lineage(w, r),
           \A a \in Room \ {b} : RoomIn(u, a) = RoomIn(w, a)
    PROVE  b \in Lineage(u, r)
<1> SUFFICES ASSUME NEW S \in SUBSET Room, r \in S, \A a \in S : Parent(u, a) \in S \cup {None}, b \notin S
             PROVE  FALSE
    BY LineageBase DEF Lineage
<1>1. \A a \in S : Parent(w, a) \in S \cup {None}
    BY DEF Parent
<1> QED BY <1>1 DEF Lineage

LEMMA LineageSame ==
    ASSUME NEW w, NEW u, NEW r \in Room, \A a \in Room : RoomIn(u, a) = RoomIn(w, a)
    PROVE  Lineage(u, r) = Lineage(w, r)
BY DEF Lineage, Parent

----------------------------------------------------------------------------
(* Reading a fact when the worlds differ in one at most *)

LEMMA Switch ==
    ASSUME NEW c, Steady(c), world \in seen[c], NEW w \in seen[c], NEW e \in Datum
    PROVE  \E u \in seen[c] : u[e] = world[e] /\ \A x \in Datum \ {e} : u[x] = w[x]
<1>1. CASE w[e] = world[e]
    BY <1>1
<1>2. CASE w[e] # world[e]
    <2>1. PICK d \in Datum : \A u, v \in seen[c] : \A x \in Datum \ {d} : u[x] = v[x]
        BY DEF Steady
    <2>2. d = e
        BY <1>2, <2>1
    <2> QED BY <2>1, <2>2
<1> QED BY <1>1, <1>2

LEMMA OnSwitched ==
    ASSUME NEW c, asked[c].room \in Room, NEW e \in Datum, NotOfRoom(e),
           NEW w, NEW u, \A x \in Datum \ {e} : u[x] = w[x],
           NEW s \in Step, On(c, w, s)
    PROVE  On(c, u, s)
<1>1. \A a \in Room : RoomIn(u, a) = RoomIn(w, a)
    BY Data DEF RoomIn, NotOfRoom
<1> QED BY <1>1, LineageSame DEF On, Step

----------------------------------------------------------------------------
(* The steps of a call *)

Typed ==
    /\ changes \in 0..MaxChanges /\ provided \in ProviderSets
    /\ asked \in [Call -> Asks]
    /\ WorldFits(world)
    /\ DOMAIN pc = Call /\ DOMAIN path = Call /\ DOMAIN ask = Call /\ DOMAIN mine = Call
    /\ DOMAIN unread = Call /\ DOMAIN rules = Call /\ DOMAIN seen = Call

AllInv == Typed /\ \A c \in Call : CallInv(c)

LEMMA AskedType ==
    ASSUME Typed, NEW c \in Call
    PROVE  /\ ~IsGuard(c) => asked[c].room \in Room
           /\ IsGuard(c) => asked[c] \in GuardAsk
<1>1. asked[c] \in RoomAsk \cup GuardAsk
    BY AsksFit DEF Typed
<1>2. ASSUME asked[c] \in RoomAsk PROVE DOMAIN asked[c] = {"room"} /\ asked[c].room \in Room
    BY <1>2 DEF RoomAsk
<1>3. ASSUME asked[c] \in GuardAsk PROVE "perms" \in DOMAIN asked[c]
    BY <1>3 DEF GuardAsk
<1> QED BY <1>1, <1>2, <1>3 DEF IsGuard

(* What is said of a world stands as long as the providers and the question. *)
LEMMA Stands ==
    ASSUME UNCHANGED <<provided, asked>>, NEW c, NEW w
    PROVE  /\ \A r : Parent(w, r)' = Parent(w, r) /\ Lineage(w, r)' = Lineage(w, r)
           /\ \A x : AdmitsByTeam(w, x)' <=> AdmitsByTeam(w, x)
           /\ \A r : Accessible(w, r)' <=> Accessible(w, r)
           /\ \A r : Outside(w, r)' <=> Outside(w, r)
           /\ \A s : On(c, w, s)' <=> On(c, w, s)
           /\ Due(c, w)' <=> Due(c, w)
<1>1. \A r : Parent(w, r)' = Parent(w, r)
    BY DEF Parent, RoomIn
<1>2. \A r : Lineage(w, r)' = Lineage(w, r)
    BY DEF Lineage, Parent, RoomIn
<1>3. \A x : AdmitsByTeam(w, x)' <=> AdmitsByTeam(w, x)
    BY DEF AdmitsByTeam
<1>4. \A r, x : AdmitsMember(w, r, x)' <=> AdmitsMember(w, r, x)
    BY DEF AdmitsMember
<1>5. \A r : Admits(w, r)' <=> Admits(w, r)
    BY <1>3, <1>4 DEF Admits
<1>6. \A r : Accessible(w, r)' <=> Accessible(w, r)
    BY <1>2, <1>5 DEF Accessible
<1>7. \A r : Outside(w, r)' <=> Outside(w, r)
    BY <1>1, <1>6 DEF Outside
<1>8. \A s : On(c, w, s)' <=> On(c, w, s)
    BY <1>2 DEF On
<1>9. Permitted(w, asked[c])' <=> Permitted(w, asked[c])
    BY DEF Permitted, RolesIn
<1> QED BY <1>1, <1>2, <1>3, <1>6, <1>7, <1>8, <1>9 DEF Due, IsGuard

(* What has been seen, and that it is steady, in a step that sees nothing.   *)
LEMMA SeenKept ==
    ASSUME NEW c, SeenFits(c), UNCHANGED <<world, changes>>, seen'[c] = seen[c], Running(c)' => Running(c)
    PROVE  SeenFits(c)' /\ (Steady(c)' <=> Steady(c))
<1>1. Steady(c)' <=> Steady(c)
    BY DEF Steady
<1> QED BY <1>1 DEF SeenFits

(* A step of another call. *)
LEMMA Untouched ==
    ASSUME NEW c, CallInv(c), UNCHANGED <<world, changes, provided, asked>>,
           UNCHANGED <<pc[c], path[c], ask[c], mine[c], unread[c], rules[c], seen[c]>>
    PROVE  CallInv(c)'
<1>1. SeenFits(c)' /\ (Steady(c)' <=> Steady(c))
    BY SeenKept DEF CallInv, Running
<1>2. CallFits(c)'
    BY DEF CallInv, CallFits, IsGuard
<1>3. PathFits(c)'
    BY <1>1, Stands DEF CallInv, PathFits
<1>4. Here(c)' = Here(c)
    BY DEF Here, Last
<1>5. Evidence(c)'
    <2>1. \A w : HasRead(c, w)' <=> HasRead(c, w)
        BY <1>4 DEF HasRead, Asking, InTeam, Belongs
    <2>2. \A w : On(c, w, Here(c))' <=> On(c, w, Here(c))
        BY <1>4, Stands
    <2> QED BY <1>1, <2>1, <2>2 DEF CallInv, Evidence
<1>6. GuardFits(c)'
    <2>1. \A w : GuardHasRead(c, w)' <=> GuardHasRead(c, w)
        BY DEF GuardHasRead, Scoped
    <2> QED BY <1>1, <2>1 DEF CallInv, GuardFits
<1>7. Refused(c)'
    <2> SUFFICES ASSUME NEW w, seen'[c] = {w}
                 PROVE  /\ pc'[c] \in Validating => Upward(c, w)' /\ Said(c, w)'
                        /\ pc'[c] = "denied" => ~Due(c, w)'
        BY DEF Refused
    <2>1. Upward(c, w)' <=> Upward(c, w)
        <3>1. \A r : Parent(w, r)' = Parent(w, r)
            BY Stands
        <3>2. path'[c] = path[c] /\ asked' = asked
            OBVIOUS
        <3> QED BY <3>1, <3>2 DEF Upward
    <2>2. Said(c, w)' <=> Said(c, w)
        BY <1>4, Stands DEF Said, Asking
    <2> QED BY <2>1, <2>2, Stands DEF CallInv, Refused
<1>8. Granted(c)'
    BY <1>1, Stands DEF CallInv, Granted
<1> QED BY <1>1, <1>2, <1>3, <1>5, <1>6, <1>7, <1>8 DEF CallInv

----------------------------------------------------------------------------
(* The validators *)

LEMMA AtIs ==
    ASSUME Typed, NEW c \in Call, CallInv(c), pc[c] \in Validating
    PROVE  /\ ~IsGuard(c) /\ asked[c].room \in Room
           /\ path[c] \in Seq(Step) /\ Len(path[c]) \in 1..MaxDepth /\ Here(c) = path[c][Len(path[c])]
           /\ Here(c) \in Step
           /\ world \in seen[c] /\ (\A w \in seen[c] : WorldFits(w))
           /\ Steady(c) => \E w \in seen[c] : On(c, w, Here(c))
<1>1. /\ ~IsGuard(c) /\ path[c] \in Seq(Step) /\ Len(path[c]) <= MaxDepth /\ path[c] # <<>>
      /\ world \in seen[c] /\ (\A w \in seen[c] : WorldFits(w))
    BY DEF CallInv, CallFits, SeenFits, Running, Validating, Ended
<1>2. Len(path[c]) \in 1..MaxDepth /\ Len(path[c]) \in 1..Len(path[c])
    BY <1>1, BoundsAreNumbers
<1>3. Here(c) = path[c][Len(path[c])]
    BY DEF Here, Last
<1>4. Here(c) \in Step
    BY <1>1, <1>2, <1>3
<1> QED BY <1>1, <1>2, <1>3, <1>4, AskedType DEF CallInv, PathFits

(* With one world, all has been read of it. *)
LEMMA OneWorld ==
    ASSUME Typed, NEW c \in Call, CallInv(c), pc[c] \in Validating, NEW w, seen[c] = {w}
    PROVE  /\ w = world /\ WorldFits(w) /\ Steady(c)
           /\ On(c, w, Here(c)) /\ RoomIn(w, Here(c).id) = Here(c).ctx /\ Here(c).ctx # None
           /\ HasRead(c, w) /\ Upward(c, w) /\ Said(c, w)
<1>1. w = world /\ WorldFits(w)
    BY AtIs
<1>2. Steady(c)
    BY Data DEF Steady
<1>3. On(c, w, Here(c)) /\ HasRead(c, w)
    BY <1>2 DEF CallInv, Evidence
<1>4. Here(c).ctx # None
    BY AtIs DEF Step
<1> QED BY <1>1, <1>2, <1>3, <1>4 DEF On, CallInv, Refused

(* What a validator leaves alone. *)
Same == UNCHANGED <<world, changes, provided, asked, unread, rules, seen>>

(* The next validator, or a question, at the same room. *)
LEMMA Moved ==
    ASSUME Typed, NEW c \in Call, CallInv(c), pc[c] \in Validating, Same,
           path'[c] = path[c], pc'[c] \in Validating,
           pc'[c] \in {"roles", "rules"} => ask'[c].perm \in Perm /\ ask'[c].otherwise \in Otherwise,
           Steady(c) => \E w \in seen[c] : On(c, w, Here(c)) /\ HasRead(c, w)',
           \A w : seen[c] = {w} => Said(c, w)'
    PROVE  CallInv(c)'
<1>1. SeenFits(c)' /\ (Steady(c)' <=> Steady(c)) /\ seen'[c] = seen[c] /\ UNCHANGED <<provided, asked>>
    BY SeenKept DEF CallInv, Running, Same, Validating, Ended
<1>2. /\ pc'[c] \notin {"denied", "granted", "reading"} /\ Here(c)' = Here(c) /\ ~IsGuard(c)
    BY AtIs DEF Validating, Here, Last
<1>3. CallFits(c)'
    BY <1>1, <1>2 DEF CallInv, CallFits, IsGuard, Point
<1>4. PathFits(c)'
    BY <1>1, Stands DEF CallInv, PathFits
<1>5. Evidence(c)'
    <2>1. \A w : On(c, w, Here(c))' <=> On(c, w, Here(c))
        BY <1>1, <1>2, Stands
    <2> QED BY <1>1, <2>1 DEF Evidence
<1>6. Refused(c)'
    <2> SUFFICES ASSUME NEW w, seen'[c] = {w}
                 PROVE  Upward(c, w)' /\ Said(c, w)'
        BY <1>2 DEF Refused
    <2>1. Upward(c, w)
        BY <1>1, OneWorld
    <2>2. \A r : Parent(w, r)' = Parent(w, r)
        BY <1>1, Stands
    <2>3. Upward(c, w)'
        BY <1>1, <2>1, <2>2 DEF Upward
    <2> QED BY <1>1, <2>3
<1> QED BY <1>1, <1>2, <1>3, <1>4, <1>5, <1>6 DEF CallInv, GuardFits, Granted

(* Granted, because the room at hand admits. *)
LEMMA Admitted ==
    ASSUME Typed, NEW c \in Call, CallInv(c), pc[c] \in Validating, Same,
           pc'[c] = "granted", path'[c] = <<>>,
           Steady(c) => \E w \in seen[c] : On(c, w, Here(c)) /\ Admits(w, Here(c).id)
    PROVE  CallInv(c)'
<1>1. SeenFits(c)' /\ (Steady(c)' <=> Steady(c)) /\ seen'[c] = seen[c] /\ UNCHANGED <<provided, asked>>
    BY SeenKept DEF CallInv, Running, Same, Validating, Ended
<1>2. /\ pc'[c] \notin Validating \cup {"denied", "reading"} /\ pc'[c] \in Point /\ Len(<<>>) = 0 /\ 0 <= MaxDepth
      /\ <<>> \in Seq(Step) /\ Len(path'[c]) = 0
    BY BoundsAreNumbers DEF Validating, Point, Ended
<1>3. CallFits(c)'
    BY <1>2 DEF CallFits, Validating
<1>4. PathFits(c)' /\ Evidence(c)' /\ Refused(c)' /\ GuardFits(c)'
    BY <1>2 DEF PathFits, Evidence, Refused, GuardFits
<1>5. Granted(c)'
    <2>1. ASSUME NEW w \in seen[c], On(c, w, Here(c)), Admits(w, Here(c).id) PROVE Due(c, w)
        <3>1. Here(c).ctx # None
            BY AtIs DEF Step
        <3> QED BY <2>1, <3>1, AtIs DEF Due, Accessible, On
    <2> QED BY <1>1, <2>1, Stands DEF Granted
<1> QED BY <1>1, <1>3, <1>4, <1>5 DEF CallInv

LEMMA FrontIs ==
    ASSUME NEW S, NEW s \in Seq(S), Len(s) > 1
    PROVE  /\ Front(s) \in Seq(S) /\ Len(Front(s)) = Len(s) - 1
           /\ \A k \in 1..Len(s) - 1 : Front(s)[k] = s[k]
<1>1. Len(s) \in Nat /\ 1 \in Int /\ Len(s) - 1 \in Int /\ \A i \in 1..Len(s) - 1 : s[i] \in S
    OBVIOUS
<1>2. /\ SubSeq(s, 1, Len(s) - 1) \in Seq(S)
      /\ Len(SubSeq(s, 1, Len(s) - 1)) = Len(s) - 1
      /\ \A i \in 1..(Len(s) - 1) - 1 + 1 : SubSeq(s, 1, Len(s) - 1)[i] = s[1 + i - 1]
    BY <1>1, SubSeqProperties
<1> QED BY <1>1, <1>2 DEF Front

(* The answer for the room at hand is no. *)
LEMMA GaveUp ==
    ASSUME Typed, NEW c \in Call, CallInv(c), pc[c] \in Validating, Same, GiveUpHere(c),
           \A w : seen[c] = {w} => Outside(w, Here(c).id) /\ ~Admits(w, Here(c).id)
    PROVE  CallInv(c)'
<1>1. SeenFits(c)' /\ (Steady(c)' <=> Steady(c)) /\ seen'[c] = seen[c] /\ UNCHANGED <<provided, asked>>
    <2>1. Running(c)' => Running(c)
        BY DEF Running, Validating, Ended
    <2> QED BY <2>1, SeenKept DEF CallInv, Same
<1>2. ~IsGuard(c) /\ ~IsGuard(c)'
    BY <1>1, AtIs DEF IsGuard
<1>3. ASSUME NEW w, seen[c] = {w} PROVE ~Accessible(w, Here(c).id)
    BY <1>3, OneWorld, AtIs, NotAccessible DEF Step
<1>4. CASE IsOutermost(c)
    <2>1. pc'[c] = "denied" /\ path'[c] = <<>> /\ Len(path'[c]) = 0
        BY <1>4 DEF GiveUpHere, Goto, Typed
    <2>2. CallFits(c)'
        BY <1>2, <2>1, BoundsAreNumbers DEF CallFits, Point, Ended, Validating
    <2>3. PathFits(c)' /\ Evidence(c)' /\ GuardFits(c)' /\ Granted(c)'
        BY <2>1 DEF PathFits, Evidence, GuardFits, Granted, Validating
    <2>4. Refused(c)'
        <3> SUFFICES ASSUME NEW w, seen[c] = {w} PROVE ~Due(c, w)
            BY <1>1, <2>1, Stands DEF Refused, Validating
        <3>1. Here(c).id = asked[c].room
            BY <1>4, OneWorld, AtIs DEF Upward, IsOutermost
        <3> QED BY <1>2, <1>3, <3>1 DEF Due
    <2> QED BY <1>1, <2>2, <2>3, <2>4 DEF CallInv
<1>5. CASE ~IsOutermost(c)
    <2> DEFINE n == Len(path[c]) - 1
    <2>1. /\ pc'[c] = "team" /\ path'[c] = Front(path[c])
          /\ path[c] \in Seq(Step) /\ n \in 1..Len(path[c]) /\ Len(path[c]) > 1 /\ Len(path[c]) = n + 1
          /\ n \in Nat /\ Len(path[c]) <= MaxDepth
        <3>1. pc'[c] = "team" /\ path'[c] = Front(path[c]) /\ Len(path[c]) # 1
            BY <1>5 DEF GiveUpHere, Goto, Typed, IsOutermost, NextValidator
        <3>2. path[c] \in Seq(Step) /\ Len(path[c]) \in 1..MaxDepth /\ MaxDepth \in Nat
            BY AtIs, BoundsAreNumbers
        <3>3. Len(path[c]) \in Nat /\ Len(path[c]) > 1 /\ Len(path[c]) <= MaxDepth
            <4>1. \A k \in 1..MaxDepth : k # 1 => k \in Nat /\ k > 1 /\ k <= MaxDepth
                BY <3>2
            <4> QED BY <3>1, <3>2, <4>1
        <3>4. n \in Nat /\ n \in 1..Len(path[c]) /\ Len(path[c]) = n + 1
            BY <3>3
        <3> QED BY <3>1, <3>2, <3>3, <3>4
    <2>2. /\ path'[c] \in Seq(Step) /\ Len(path'[c]) = n /\ \A k \in 1..n : path'[c][k] = path[c][k]
        BY <2>1, FrontIs
    <2>3. Here(c)' = path[c][n] /\ n \in 1..n
        BY <2>1, <2>2 DEF Here, Last
    <2> HIDE DEF n
    <2>4. CallFits(c)'
        BY <1>2, <2>1, <2>2, BoundsAreNumbers DEF CallFits, Point, Validating
    <2>5. PathFits(c)'
        <3>1. \A k \in 1..n : k \in 1..Len(path[c])
            BY <2>1
        <3>2. \A w, s : On(c, w, s)' <=> On(c, w, s)
            BY <1>1, Stands
        <3>3. \A k \in 1..n : Steady(c) => \E w \in seen[c] : On(c, w, path[c][k])
            BY <3>1 DEF CallInv, PathFits
        <3> QED BY <1>1, <2>2, <3>2, <3>3 DEF PathFits
    <2>6. Evidence(c)'
        <3>1. ASSUME Steady(c) PROVE \E w \in seen[c] : On(c, w, path[c][n])
            BY <2>1, <3>1 DEF CallInv, PathFits
        <3>2. \A w : On(c, w, Here(c))' <=> On(c, w, path[c][n])
            BY <1>1, <2>3, Stands
        <3>3. \A w : HasRead(c, w)'
            BY <2>1 DEF HasRead, Asking
        <3> QED BY <1>1, <3>1, <3>2, <3>3 DEF Evidence
    <2>7. Refused(c)'
        <3> SUFFICES ASSUME NEW w, seen[c] = {w} PROVE Upward(c, w)' /\ Said(c, w)'
            BY <1>1, <2>1 DEF Refused
        <3>1. Upward(c, w) /\ ~Accessible(w, Here(c).id) /\ Here(c) = path[c][n + 1]
            BY <1>3, <2>1, OneWorld, AtIs
        <3>2. \A r : Parent(w, r)' = Parent(w, r) /\ (Outside(w, r)' <=> Outside(w, r))
            BY <1>1, Stands
        <3>3. n \in 1..Len(path[c]) - 1 /\ 1 \in 1..n
              /\ \A k \in 1..n - 1 : k \in 1..Len(path[c]) - 1 /\ k \in 1..n /\ k + 1 \in 1..n
            BY <2>1
        <3>4. Upward(c, w)'
            <4>1. path'[c][1].id = asked'[c].room
                BY <1>1, <2>2, <3>1, <3>3 DEF Upward
            <4>2. ASSUME NEW k \in 1..n - 1
                  PROVE  path'[c][k + 1].id = Parent(w, path'[c][k].id)
                <5>1. path'[c][k] = path[c][k] /\ path'[c][k + 1] = path[c][k + 1]
                    BY <2>2, <3>3
                <5>2. path[c][k + 1].id = Parent(w, path[c][k].id)
                    BY <3>1, <3>3 DEF Upward
                <5> QED BY <5>1, <5>2
            <4>3. Len(path'[c]) - 1 = n - 1 /\ UNCHANGED asked
                BY <1>1, <2>2 DEF Same
            <4>4. \A k \in 1..n - 1 : Parent(w, path[c][k].id)' = Parent(w, path'[c][k].id)
                BY <1>1 DEF Parent, RoomIn, Same
            <4>5. \A k \in 1..n - 1 : (path[c][k + 1].id = Parent(w, path[c][k].id))'
                BY <4>2, <4>4
            <4> QED BY <4>1, <4>3, <4>5 DEF Upward
        <3>5. Here(c).id = Parent(w, path[c][n].id)
            BY <2>1, <3>1, <3>3 DEF Upward
        <3>6. Outside(w, path[c][n].id)
            BY <3>1, <3>5 DEF Outside
        <3>7. Said(c, w)'
            BY <2>1, <2>3, <3>2, <3>6 DEF Said, Asking
        <3> QED BY <3>4, <3>7
    <2> QED BY <1>1, <2>1, <2>4, <2>5, <2>6, <2>7 DEF CallInv, GuardFits, Granted
<1> QED BY <1>4, <1>5

LEMMA DiscussionInv ==
    ASSUME Typed, NEW c \in Call, CallInv(c), Same, Discussion(c) PROVE CallInv(c)'
<1> DEFINE p == Here(c).ctx.parent
<1>1. pc[c] = "discussion" /\ pc[c] \in Validating
    BY DEF Discussion, Validating
<1>2. Here(c).ctx \in Context /\ Here(c).ctx # None /\ Here(c).id \in Room
    BY <1>1, AtIs DEF Step
<1>3. CASE p = None \/ "room" \notin provided \/ RoomIn(world, p) = None
    <2>1. pc'[c] = "team" /\ path'[c] = path[c] /\ pc'[c] \in Validating
        BY <1>1, <1>3 DEF Discussion, Pass, Goto, Typed, Validating
    <2>2. ASSUME Steady(c) PROVE \E w \in seen[c] : On(c, w, Here(c)) /\ HasRead(c, w)'
        BY <1>1, <2>1, <2>2, AtIs DEF HasRead, Asking
    <2>3. ASSUME NEW w, seen[c] = {w} PROVE Said(c, w)'
        <3>1. w = world /\ WorldFits(w) /\ RoomIn(w, Here(c).id) = Here(c).ctx
            BY <1>1, <2>3, OneWorld
        <3>2. Parent(w, Here(c).id) = IF "room" \notin provided THEN None ELSE p
            BY <1>2, <3>1 DEF Parent
        <3>3. Outside(w, Here(c).id)
            BY <1>2, <1>3, <3>1, <3>2, NoRoomNotAccessible DEF Outside, Context
        <3>4. Outside(w, Here(c).id)'
            <4>1. Here(c)' = Here(c)
                BY <2>1 DEF Here, Last
            <4>2. \A r : Outside(w, r)' <=> Outside(w, r)
                BY Stands DEF Same
            <4> QED BY <3>3, <4>1, <4>2
        <3> QED BY <2>1, <3>4 DEF Said, Asking
    <2> QED BY <1>1, <2>1, <2>2, <2>3, Moved
<1>4. CASE ~(p = None \/ "room" \notin provided \/ RoomIn(world, p) = None)
    <2> DEFINE s == [id |-> p, ctx |-> RoomIn(world, p)]
    <2> DEFINE n == Len(path[c])
    <2>1. /\ pc' = pc /\ path'[c] = Append(path[c], s) /\ n < MaxDepth
        BY <1>4 DEF Discussion, Typed
    <2>2. p \in Room /\ s \in Step
        BY <1>2, <1>4, ParentType DEF Typed, Step, Context
    <2> HIDE DEF s
    <2>3. /\ path[c] \in Seq(Step) /\ n \in Nat \ {0} /\ MaxDepth \in Nat
          /\ Here(c) = path[c][n] /\ world \in seen[c] /\ asked[c].room \in Room /\ ~IsGuard(c)
        BY <1>1, AtIs, BoundsAreNumbers
    <2>4. /\ path'[c] \in Seq(Step) /\ Len(path'[c]) = n + 1 /\ path'[c][n + 1] = s
          /\ \A k \in 1..n : path'[c][k] = path[c][k]
        BY <2>1, <2>2, <2>3
    <2> HIDE DEF n
    <2>5. Here(c)' = s /\ Len(path'[c]) <= MaxDepth /\ path'[c] # <<>>
        BY <2>1, <2>3, <2>4 DEF Here, Last
    <2>6. SeenFits(c)' /\ (Steady(c)' <=> Steady(c)) /\ seen'[c] = seen[c] /\ UNCHANGED <<provided, asked>>
        BY <2>1, SeenKept DEF CallInv, Running, Same
    <2>7. CallFits(c)'
        BY <1>1, <2>1, <2>3, <2>4, <2>5, <2>6 DEF CallFits, IsGuard, Point
    <2>8. ASSUME Steady(c) PROVE \E w \in seen[c] : On(c, w, s)
        <3>1. PICK w \in seen[c] : On(c, w, Here(c))
            BY <1>1, <2>8, AtIs
        <3>2. WorldFits(w) /\ Here(c).id \in Lineage(w, asked[c].room) /\ Parent(w, Here(c).id) = p
            BY <1>1, <1>2, <1>4, <3>1, AtIs DEF On, Parent
        <3>3. p \in Lineage(w, asked[c].room)
            BY <1>4, <2>3, <3>2, LineageUp
        <3>4. PICK u \in seen[c] : /\ u[<<"room", p>>] = world[<<"room", p>>]
                                   /\ \A x \in Datum \ {<<"room", p>>} : u[x] = w[x]
            <4>1. <<"room", p>> \in Datum
                BY <2>2, Data
            <4> HIDE DEF p
            <4> QED BY <2>3, <2>8, <4>1, Switch
        <3>5. RoomIn(u, p) = RoomIn(world, p) /\ \A a \in Room \ {p} : RoomIn(u, a) = RoomIn(w, a)
            BY <3>4, Data DEF RoomIn
        <3>6. p \in Lineage(u, asked[c].room)
            BY <2>3, <3>3, <3>5, LineageKept
        <3> QED BY <3>5, <3>6 DEF On, s
    <2>9. \A w, t : On(c, w, t)' <=> On(c, w, t)
        BY <2>6, Stands
    <2>10. PathFits(c)'
        <3>1. \A k \in 1..n + 1 : k \in 1..n \/ k = n + 1
            BY <2>3
        <3>2. \A k \in 1..n : Steady(c) => \E w \in seen[c] : On(c, w, path[c][k])
            BY DEF CallInv, PathFits, n
        <3> QED BY <2>4, <2>6, <2>8, <2>9, <3>1, <3>2 DEF PathFits
    <2>11. Evidence(c)'
        <3>1. \A w : HasRead(c, w)'
            BY <1>1, <2>1 DEF HasRead, Asking
        <3> QED BY <2>5, <2>6, <2>8, <2>9, <3>1 DEF Evidence
    <2>12. Refused(c)'
        <3> SUFFICES ASSUME NEW w, seen[c] = {w} PROVE Upward(c, w)' /\ Said(c, w)'
            BY <1>1, <2>1, <2>6 DEF Refused
        <3>1. Upward(c, w) /\ RoomIn(w, Here(c).id) = Here(c).ctx
            BY <1>1, OneWorld
        <3>2. \A r : Parent(w, r)' = Parent(w, r)
            BY <2>6, Stands
        <3>3. s.id = Parent(w, path[c][n].id)
            BY <1>2, <1>4, <2>3, <3>1 DEF Parent, s
        <3>4. \A k \in 1..(n + 1) - 1 : k = n \/ (k \in 1..n - 1 /\ k \in 1..n /\ k + 1 \in 1..n)
            BY <2>3
        <3>5. n \in 1..n /\ 1 \in 1..n
            BY <2>3
        <3>6. \A k \in 1..(n + 1) - 1 : path'[c][k + 1].id = Parent(w, path'[c][k].id)
            BY <2>4, <3>1, <3>3, <3>4, <3>5 DEF Upward, n
        <3>7. Upward(c, w)'
            BY <2>4, <2>6, <3>1, <3>2, <3>5, <3>6 DEF Upward
        <3>8. Said(c, w)'
            BY <1>1, <2>1 DEF Said, Asking
        <3> QED BY <3>7, <3>8
    <2> QED BY <1>1, <2>1, <2>6, <2>7, <2>10, <2>11, <2>12 DEF CallInv, GuardFits, Granted
<1> QED BY <1>3, <1>4

(* What a validator asks the world, at a room whose worlds differ in one fact. *)
LEMMA Consulted ==
    ASSUME Typed, NEW c \in Call, CallInv(c), pc[c] \in Validating, Steady(c),
           NEW e \in Datum, NotOfRoom(e)
    PROVE  \E w, u \in seen[c] :
              /\ On(c, w, Here(c)) /\ HasRead(c, w) /\ On(c, u, Here(c))
              /\ u[e] = world[e] /\ \A x \in Datum \ {e} : u[x] = w[x]
<1>1. PICK w \in seen[c] : On(c, w, Here(c)) /\ HasRead(c, w)
    BY DEF CallInv, Evidence
<1>2. PICK u \in seen[c] : u[e] = world[e] /\ \A x \in Datum \ {e} : u[x] = w[x]
    BY AtIs, Switch
<1>3. On(c, u, Here(c))
    BY <1>1, <1>2, AtIs, OnSwitched
<1> QED BY <1>1, <1>2, <1>3

LEMMA AskedFor ==
    ASSUME Typed, NEW c \in Call, NEW perm, NEW otherwise, AskFor(c, perm, otherwise)
    PROVE  /\ pc'[c] = "roles" /\ pc'[c] \in Validating /\ path'[c] = path[c]
           /\ ask'[c].perm = perm /\ ask'[c].otherwise = otherwise
BY DEF AskFor, Goto, Typed, Validating

LEMMA TeamInv ==
    ASSUME Typed, NEW c \in Call, CallInv(c), Same, Team(c) PROVE CallInv(c)'
<1> DEFINE x == Here(c).ctx
<1>1. pc[c] = "team" /\ pc[c] \in Validating
    BY DEF Team, Validating
<1>2. ASSUME NEW w, seen[c] = {w} PROVE Outside(w, Here(c).id) /\ w = world
    BY <1>1, <1>2, OneWorld DEF Said
<1>3. CASE x.t # "c" \/ ~x.inTeam \/ "team" \notin provided
    <2>1. pc'[c] = "public" /\ pc'[c] \in Validating /\ path'[c] = path[c]
        BY <1>1, <1>3 DEF Team, Pass, Goto, Typed, Validating
    <2>2. Here(c)' = Here(c)
        BY <2>1 DEF Here, Last
    <2>3. ASSUME NEW w, seen[c] = {w} PROVE Said(c, w)'
        <3>1. Outside(w, Here(c).id)' /\ ~AdmitsByTeam(w, x)'
            BY <1>2, <1>3, <2>2, <2>3, Stands DEF AdmitsByTeam, Same
        <3> QED BY <2>1, <2>2, <3>1 DEF Said, Asking
    <2>4. \A w : HasRead(c, w)'
        BY <2>1 DEF HasRead, Asking
    <2> QED BY <1>1, <2>1, <2>3, <2>4, AtIs, Moved
<1>4. CASE x.t = "c" /\ x.inTeam /\ "team" \in provided
    <2>1. Here(c)' = Here(c) /\ path'[c] = path[c] /\ pc'[c] \in Validating
        BY <1>4 DEF Team, AskFor, Pass, Goto, Typed, Validating, Here, Last
    <2>2. InTeam(c)'
        BY <1>4, <2>1 DEF InTeam, Same
    <2>3. CASE world[<<"team", "public">>]
        <3>1. pc'[c] = "roles" /\ ask'[c].perm = "view-c-room" /\ ask'[c].otherwise = "public"
            BY <1>4, <2>3, AskedFor DEF Team
        <3>2. ASSUME Steady(c) PROVE \E w \in seen[c] : On(c, w, Here(c)) /\ HasRead(c, w)'
            <4>1. PICK u \in seen[c] : On(c, u, Here(c)) /\ u[<<"team", "public">>] = world[<<"team", "public">>]
                BY <1>1, <3>2, Consulted, Data
            <4>2. HasRead(c, u)'
                BY <2>2, <2>3, <3>1, <4>1 DEF HasRead, Asking
            <4> QED BY <4>1, <4>2
        <3>3. ASSUME NEW w, seen[c] = {w} PROVE Said(c, w)'
            <4>1. Outside(w, Here(c).id)'
                BY <1>2, <2>1, <3>3, Stands DEF Same
            <4> QED BY <2>1, <3>1, <4>1 DEF Said, Asking
        <3> QED BY <1>1, <2>1, <3>1, <3>2, <3>3, Moved DEF Perm, Otherwise
    <2>4. CASE ~world[<<"team", "public">>]
        <3>1. pc'[c] = "teammate"
            BY <1>1, <1>4, <2>4 DEF Team, Pass, Goto, Typed
        <3>2. ASSUME Steady(c) PROVE \E w \in seen[c] : On(c, w, Here(c)) /\ HasRead(c, w)'
            <4>1. PICK u \in seen[c] : On(c, u, Here(c)) /\ u[<<"team", "public">>] = world[<<"team", "public">>]
                BY <1>1, <3>2, Consulted, Data
            <4>2. HasRead(c, u)'
                BY <2>2, <2>4, <3>1, <4>1 DEF HasRead, Asking
            <4> QED BY <4>1, <4>2
        <3>3. ASSUME NEW w, seen[c] = {w} PROVE Said(c, w)'
            <4>1. Outside(w, Here(c).id)'
                BY <1>2, <2>1, <3>3, Stands DEF Same
            <4> QED BY <2>1, <3>1, <4>1 DEF Said, Asking
        <3> QED BY <1>1, <2>1, <3>1, <3>2, <3>3, Moved
    <2> QED BY <2>3, <2>4
<1> QED BY <1>3, <1>4

LEMMA TeammateInv ==
    ASSUME Typed, NEW c \in Call, CallInv(c), Same, Teammate(c) PROVE CallInv(c)'
<1> DEFINE x == Here(c).ctx
<1> DEFINE e == <<"team", "member">>
<1>1. pc[c] = "teammate" /\ pc[c] \in Validating /\ e \in Datum /\ NotOfRoom(e)
      /\ <<"team", "public">> \in Datum \ {e}
    BY Data DEF Teammate, Validating
<1>2. CASE world[e]
    <2>1. pc'[c] = "granted" /\ path'[c] = <<>>
        BY <1>2 DEF Teammate, Grant, Goto, Typed
    <2>2. ASSUME Steady(c) PROVE \E w \in seen[c] : On(c, w, Here(c)) /\ Admits(w, Here(c).id)
        <3>1. PICK w, u \in seen[c] :
                  /\ On(c, w, Here(c)) /\ HasRead(c, w) /\ On(c, u, Here(c))
                  /\ u[e] = world[e] /\ \A y \in Datum \ {e} : u[y] = w[y]
            BY <1>1, <2>2, Consulted
        <3>2. InTeam(c) /\ u[<<"team", "public">>] = w[<<"team", "public">>] /\ ~w[<<"team", "public">>]
            BY <1>1, <3>1 DEF HasRead
        <3>3. AdmitsByTeam(u, x)
            BY <1>2, <3>1, <3>2 DEF AdmitsByTeam, InTeam
        <3> QED BY <3>1, <3>3 DEF On, Admits
    <2> QED BY <1>1, <2>1, <2>2, Admitted
<1>3. CASE ~world[e]
    <2>1. pc'[c] = "public" /\ pc'[c] \in Validating /\ path'[c] = path[c]
        BY <1>1, <1>3 DEF Teammate, Pass, Goto, Typed, Validating
    <2>2. Here(c)' = Here(c)
        BY <2>1 DEF Here, Last
    <2>3. ASSUME NEW w, seen[c] = {w} PROVE Said(c, w)'
        <3>1. w = world /\ HasRead(c, w) /\ Said(c, w)
            BY <1>1, <2>3, OneWorld
        <3>2. ~AdmitsByTeam(w, x) /\ Outside(w, Here(c).id)
            BY <1>1, <1>3, <3>1 DEF AdmitsByTeam, HasRead, Said
        <3>3. ~AdmitsByTeam(w, x)' /\ Outside(w, Here(c).id)'
            BY <2>2, <3>2, Stands DEF Same
        <3> QED BY <2>1, <2>2, <3>3 DEF Said, Asking
    <2>4. \A w : HasRead(c, w)'
        BY <2>1 DEF HasRead, Asking
    <2> QED BY <1>1, <2>1, <2>3, <2>4, AtIs, Moved
<1> QED BY <1>2, <1>3

LEMMA PublicInv ==
    ASSUME Typed, NEW c \in Call, CallInv(c), Same, Public(c) PROVE CallInv(c)'
<1> DEFINE x == Here(c).ctx
<1>1. pc[c] = "public" /\ pc[c] \in Validating
    BY DEF Public, Validating
<1>2. path'[c] = path[c] /\ Here(c)' = Here(c)
    BY DEF Public, AskFor, Pass, Here, Last
<1>3. ASSUME NEW w, seen[c] = {w} PROVE Outside(w, Here(c).id)' /\ ~AdmitsByTeam(w, x)'
    <2>1. Outside(w, Here(c).id) /\ ~AdmitsByTeam(w, x)
        BY <1>1, <1>3, OneWorld DEF Said
    <2> QED BY <1>2, <2>1, Stands DEF Same
<1>4. CASE OpenChannel(x)
    <2>1. /\ pc'[c] = "roles" /\ pc'[c] \in Validating
          /\ ask'[c].perm = "view-c-room" /\ ask'[c].otherwise = "member"
        BY <1>4, AskedFor DEF Public
    <2>2. \A w : HasRead(c, w)'
        BY <1>2, <1>4, <2>1 DEF HasRead, Asking
    <2>3. \A w : seen[c] = {w} => Said(c, w)'
        BY <1>2, <1>3, <2>1 DEF Said, Asking
    <2> QED BY <1>1, <1>2, <2>1, <2>2, <2>3, AtIs, Moved DEF Perm, Otherwise
<1>5. CASE ~OpenChannel(x)
    <2>1. pc'[c] = "member" /\ pc'[c] \in Validating
        BY <1>1, <1>5 DEF Public, Pass, Goto, Typed, Validating
    <2>2. \A w : HasRead(c, w)'
        BY <2>1 DEF HasRead, Asking
    <2>3. \A w : ~AdmitsAsPublic(w, x)
        BY <1>5 DEF AdmitsAsPublic, OpenChannel
    <2>4. ASSUME NEW w, seen[c] = {w} PROVE Said(c, w)'
        <3>1. Outside(w, Here(c).id)' /\ ~AdmitsByTeam(w, x)' /\ ~AdmitsAsPublic(w, x)
            BY <1>3, <2>3, <2>4
        <3> QED BY <1>2, <2>1, <3>1 DEF Said, Asking
    <2> QED BY <1>1, <1>2, <2>1, <2>2, <2>4, AtIs, Moved
<1> QED BY <1>4, <1>5

LEMMA MemberInv ==
    ASSUME Typed, NEW c \in Call, CallInv(c), Same, Member(c) PROVE CallInv(c)'
<1> DEFINE x == Here(c).ctx
<1> DEFINE e == <<"scoped", Here(c).id>>
<1>1. pc[c] = "member" /\ pc[c] \in Validating
    BY DEF Member, Validating
<1>2. e \in Datum /\ NotOfRoom(e)
    BY <1>1, AtIs, Data DEF Step
<1>3. ASSUME NEW w, seen[c] = {w}
      PROVE  w = world /\ Outside(w, Here(c).id) /\ ~AdmitsByTeam(w, x) /\ ~AdmitsAsPublic(w, x)
    BY <1>1, <1>3, OneWorld DEF Said
<1>4. CASE "scope" \in provided /\ world[e] # {}
    <2>1. /\ pc'[c] = "roles" /\ pc'[c] \in Validating /\ path'[c] = path[c]
          /\ ask'[c].perm = "view-joined-room" /\ ask'[c].otherwise = "type"
        BY <1>4, AskedFor DEF Member
    <2>2. Here(c)' = Here(c)
        BY <2>1 DEF Here, Last
    <2>3. ASSUME Steady(c) PROVE \E w \in seen[c] : On(c, w, Here(c)) /\ HasRead(c, w)'
        <3>1. PICK u \in seen[c] : On(c, u, Here(c)) /\ u[e] = world[e]
            BY <1>1, <1>2, <2>3, Consulted
        <3>2. Belongs(c, u)'
            BY <1>4, <2>2, <3>1 DEF Belongs, Same
        <3>3. HasRead(c, u)'
            BY <2>1, <3>2 DEF HasRead, Asking
        <3> QED BY <3>1, <3>3
    <2>4. ASSUME NEW w, seen[c] = {w} PROVE Said(c, w)'
        <3>1. Outside(w, Here(c).id)' /\ ~AdmitsByTeam(w, x)' /\ ~AdmitsAsPublic(w, x)
            BY <1>3, <2>2, <2>4, Stands DEF Same
        <3> QED BY <2>1, <2>2, <3>1 DEF Said, Asking
    <2> QED BY <1>1, <2>1, <2>3, <2>4, Moved DEF Perm, Otherwise
<1>5. CASE ~("scope" \in provided /\ world[e] # {})
    <2>1. GiveUpHere(c)
        BY <1>5 DEF Member
    <2>2. ASSUME NEW w, seen[c] = {w} PROVE Outside(w, Here(c).id) /\ ~Admits(w, Here(c).id)
        <3>1. ~AdmitsMember(w, Here(c).id, x) /\ RoomIn(w, Here(c).id) = x
            BY <1>1, <1>3, <1>5, <2>2, OneWorld DEF AdmitsMember
        <3> QED BY <1>3, <2>2, <3>1 DEF Admits
    <2> QED BY <1>1, <2>1, <2>2, GaveUp
<1> QED BY <1>4, <1>5

LEMMA ByTypeInv ==
    ASSUME Typed, NEW c \in Call, CallInv(c), Same, ByType(c) PROVE CallInv(c)'
<1> DEFINE x == Here(c).ctx
<1>1. pc[c] = "type" /\ pc[c] \in Validating
    BY DEF ByType, Validating
<1>2. ASSUME NEW w, seen[c] = {w}
      PROVE  /\ Outside(w, Here(c).id) /\ ~AdmitsByTeam(w, x) /\ ~AdmitsAsPublic(w, x)
             /\ ~May(w, "view-joined-room")
    BY <1>1, <1>2, OneWorld DEF Said
<1>3. CASE TypePermission(x.t) # None
    <2>1. /\ pc'[c] = "roles" /\ pc'[c] \in Validating /\ path'[c] = path[c]
          /\ ask'[c].perm = TypePermission(x.t) /\ ask'[c].otherwise = "giveUp"
        BY <1>3, AskedFor DEF ByType
    <2>2. Here(c)' = Here(c)
        BY <2>1 DEF Here, Last
    <2>3. TypePermission(x.t) \in Perm
        BY <1>3 DEF TypePermission, Perm
    <2>4. ASSUME Steady(c) PROVE \E w \in seen[c] : On(c, w, Here(c)) /\ HasRead(c, w)'
        <3>1. PICK w \in seen[c] : On(c, w, Here(c)) /\ HasRead(c, w)
            BY <1>1, <2>4 DEF CallInv, Evidence
        <3>2. Belongs(c, w)'
            BY <1>1, <2>2, <3>1 DEF HasRead, Belongs, Same
        <3>3. HasRead(c, w)'
            BY <1>3, <2>1, <2>2, <3>2 DEF HasRead, Asking
        <3> QED BY <3>1, <3>3
    <2>5. ASSUME NEW w, seen[c] = {w} PROVE Said(c, w)'
        <3>1. /\ Outside(w, Here(c).id)' /\ ~AdmitsByTeam(w, x)' /\ ~AdmitsAsPublic(w, x)
              /\ ~May(w, "view-joined-room")
            BY <1>2, <2>2, <2>5, Stands DEF Same
        <3> QED BY <2>1, <2>2, <3>1 DEF Said, Asking
    <2> QED BY <1>1, <2>1, <2>3, <2>4, <2>5, Moved DEF Otherwise
<1>4. CASE TypePermission(x.t) = None
    <2>1. GiveUpHere(c)
        BY <1>4 DEF ByType
    <2>2. ASSUME NEW w, seen[c] = {w} PROVE Outside(w, Here(c).id) /\ ~Admits(w, Here(c).id)
        <3>1. ~AdmitsMember(w, Here(c).id, x) /\ RoomIn(w, Here(c).id) = x
            BY <1>1, <1>2, <1>4, <2>2, OneWorld DEF AdmitsMember
        <3> QED BY <1>2, <2>2, <3>1 DEF Admits
    <2> QED BY <1>1, <2>1, <2>2, GaveUp
<1> QED BY <1>3, <1>4

LEMMA AskRolesInv ==
    ASSUME Typed, NEW c \in Call, CallInv(c), Same, AskRoles(c) PROVE CallInv(c)'
<1> DEFINE e == <<"user", "roles">>
<1>1. pc[c] = "roles" /\ pc[c] \in Validating /\ e \in Datum /\ NotOfRoom(e)
    BY Data DEF AskRoles, Validating
<1>2. pc'[c] = "rules" /\ pc'[c] \in Validating /\ path' = path /\ ask' = ask /\ mine'[c] = world[e]
    BY DEF AskRoles, Pass, Goto, Typed, Validating
<1>3. Here(c)' = Here(c) /\ \A o : Asking(c, o)' <=> Asking(c, o)
    BY <1>1, <1>2 DEF Here, Last, Asking
<1>4. ASSUME Steady(c) PROVE \E w \in seen[c] : On(c, w, Here(c)) /\ HasRead(c, w)'
    <2>1. PICK w, u \in seen[c] :
              /\ On(c, w, Here(c)) /\ HasRead(c, w) /\ On(c, u, Here(c))
              /\ u[e] = world[e] /\ \A y \in Datum \ {e} : u[y] = w[y]
        BY <1>1, <1>4, Consulted
    <2>2. <<"team", "public">> \in Datum \ {e} /\ <<"scoped", Here(c).id>> \in Datum \ {e}
        BY <1>1, AtIs, Data DEF Step
    <2>3. (Belongs(c, u)' <=> Belongs(c, w)) /\ u[<<"team", "public">>] = w[<<"team", "public">>]
          /\ (InTeam(c)' <=> InTeam(c))
        BY <1>3, <2>1, <2>2 DEF Belongs, InTeam, Same
    <2>4. HasRead(c, u)'
        BY <1>2, <1>3, <2>1, <2>3 DEF HasRead
    <2> QED BY <2>1, <2>4
<1>5. ASSUME NEW w, seen[c] = {w} PROVE Said(c, w)'
    <2>1. Said(c, w)
        BY <1>1, <1>5, OneWorld
    <2>2. (\A r : Outside(w, r)' <=> Outside(w, r)) /\ (\A x : AdmitsByTeam(w, x)' <=> AdmitsByTeam(w, x))
        BY Stands DEF Same
    <2> QED BY <1>1, <1>2, <1>3, <2>1, <2>2 DEF Said
<1>6. ask'[c].perm \in Perm /\ ask'[c].otherwise \in Otherwise
    BY <1>1, <1>2 DEF CallInv, CallFits
<1> QED BY <1>1, <1>2, <1>4, <1>5, <1>6, Moved

LEMMA AskRulesInv ==
    ASSUME Typed, NEW c \in Call, CallInv(c), Same, AskRules(c) PROVE CallInv(c)'
<1> DEFINE x == Here(c).ctx
<1> DEFINE perm == ask[c].perm
<1> DEFINE e == <<"rule", perm>>
<1>1. /\ pc[c] = "rules" /\ pc[c] \in Validating /\ perm \in Perm /\ ask[c].otherwise \in Otherwise
    BY DEF AskRules, Validating, CallInv, CallFits
<1>2. e \in Datum /\ NotOfRoom(e)
    BY <1>1, Data
<1>3. CASE Holds(world, mine[c], perm)
    <2>1. pc'[c] = "granted" /\ path'[c] = <<>>
        BY <1>3 DEF AskRules, Grant, Goto, Typed
    <2>2. ASSUME Steady(c) PROVE \E w \in seen[c] : On(c, w, Here(c)) /\ Admits(w, Here(c).id)
        <3>1. PICK w, u \in seen[c] :
                  /\ On(c, w, Here(c)) /\ HasRead(c, w) /\ On(c, u, Here(c))
                  /\ u[e] = world[e] /\ \A y \in Datum \ {e} : u[y] = w[y]
            BY <1>1, <1>2, <2>2, Consulted
        <3>2. /\ <<"team", "public">> \in Datum \ {e} /\ <<"scoped", Here(c).id>> \in Datum \ {e}
              /\ <<"user", "roles">> \in Datum \ {e}
            BY <1>1, AtIs, Data DEF Step
        <3>3. /\ u[<<"user", "roles">>] = mine[c]
              /\ u[<<"team", "public">>] = w[<<"team", "public">>]
              /\ Belongs(c, w) => Belongs(c, u)
            BY <1>1, <3>1, <3>2 DEF HasRead, Belongs
        <3>4. May(u, perm)
            BY <1>3, <3>1, <3>3 DEF May, Holds
        <3>5. CASE ask[c].otherwise = "public"
            <4>1. AdmitsByTeam(u, x)
                BY <1>1, <3>1, <3>3, <3>4, <3>5 DEF HasRead, Asking, InTeam, AdmitsByTeam
            <4> QED BY <3>1, <4>1 DEF On, Admits
        <3>6. CASE ask[c].otherwise = "member"
            <4>1. AdmitsAsPublic(u, x)
                BY <1>1, <3>1, <3>4, <3>6 DEF HasRead, Asking, OpenChannel, AdmitsAsPublic
            <4> QED BY <3>1, <4>1 DEF On, Admits
        <3>7. CASE ask[c].otherwise \in {"type", "giveUp"}
            <4>1. AdmitsMember(u, Here(c).id, x)
                BY <1>1, <3>1, <3>3, <3>4, <3>7 DEF HasRead, Asking, Belongs, AdmitsMember
            <4> QED BY <3>1, <4>1 DEF On, Admits
        <3> QED BY <1>1, <3>5, <3>6, <3>7 DEF Otherwise
    <2> QED BY <1>1, <2>1, <2>2, Admitted
<1>4. ASSUME NEW w, seen[c] = {w}, ~Holds(world, mine[c], perm) PROVE ~May(w, perm) /\ HasRead(c, w) /\ Said(c, w)
    BY <1>1, <1>4, OneWorld DEF May, HasRead
<1>5. CASE ~Holds(world, mine[c], perm) /\ ask[c].otherwise = "giveUp"
    <2>1. GiveUpHere(c)
        BY <1>5 DEF AskRules
    <2>2. ASSUME NEW w, seen[c] = {w} PROVE Outside(w, Here(c).id) /\ ~Admits(w, Here(c).id)
        <3>1. /\ Outside(w, Here(c).id) /\ ~AdmitsByTeam(w, x) /\ ~AdmitsAsPublic(w, x)
              /\ ~May(w, "view-joined-room") /\ perm = TypePermission(x.t) /\ ~May(w, perm)
            BY <1>1, <1>4, <1>5, <2>2 DEF Said, HasRead, Asking
        <3>2. ~AdmitsMember(w, Here(c).id, x) /\ RoomIn(w, Here(c).id) = x
            BY <1>1, <2>2, <3>1, OneWorld DEF AdmitsMember
        <3> QED BY <3>1, <3>2 DEF Admits
    <2> QED BY <1>1, <2>1, <2>2, GaveUp
<1>6. CASE ~Holds(world, mine[c], perm) /\ ask[c].otherwise # "giveUp"
    <2>1. /\ pc'[c] = ask[c].otherwise /\ pc'[c] \in Validating /\ pc'[c] \in {"public", "member", "type"}
          /\ path' = path /\ ask' = ask
        BY <1>1, <1>6 DEF AskRules, Goto, Typed, Otherwise, Validating
    <2>2. Here(c)' = Here(c)
        BY <2>1 DEF Here, Last
    <2>3. ASSUME Steady(c) PROVE \E w \in seen[c] : On(c, w, Here(c)) /\ HasRead(c, w)'
        <3>1. PICK w \in seen[c] : On(c, w, Here(c)) /\ HasRead(c, w)
            BY <1>1, <2>3 DEF CallInv, Evidence
        <3>2. pc'[c] = "type" => Belongs(c, w)'
            BY <1>1, <2>1, <2>2, <3>1 DEF HasRead, Asking, Belongs, Same
        <3>3. HasRead(c, w)'
            BY <2>1, <3>2 DEF HasRead, Asking
        <3> QED BY <3>1, <3>3
    <2>4. ASSUME NEW w, seen[c] = {w} PROVE Said(c, w)'
        <3>1. ~May(w, perm) /\ HasRead(c, w) /\ Said(c, w)
            BY <1>4, <1>6, <2>4
        <3>2. Outside(w, Here(c).id) /\ ~AdmitsByTeam(w, x)
            BY <1>1, <2>1, <3>1 DEF Said, HasRead, Asking, AdmitsByTeam, InTeam
        <3>3. pc'[c] \in {"member", "type"} => ~AdmitsAsPublic(w, x)
            BY <1>1, <2>1, <3>1 DEF Said, HasRead, Asking, AdmitsAsPublic
        <3>4. pc'[c] = "type" => ~May(w, "view-joined-room")
            BY <1>1, <2>1, <3>1 DEF HasRead, Asking
        <3>5. Outside(w, Here(c).id)' /\ ~AdmitsByTeam(w, x)'
            BY <2>2, <3>2, Stands DEF Same
        <3> QED BY <2>1, <2>2, <3>3, <3>4, <3>5 DEF Said, Asking
    <2> QED BY <1>1, <2>1, <2>3, <2>4, Moved
<1> QED BY <1>3, <1>5, <1>6

----------------------------------------------------------------------------
(* The first step of a call, and the guard *)

(* A call that has only now looked at the world. *)
LEMMA FirstSeen ==
    ASSUME Typed, NEW c \in Call, seen'[c] = {world}, UNCHANGED <<world, changes>>
    PROVE  SeenFits(c)' /\ Steady(c)'
<1>1. IsFiniteSet({world}) /\ Cardinality({world}) = 1
    BY FS_Singleton
<1>2. changes \in Nat /\ 1 <= changes + 1
    BY BoundsAreNumbers DEF Typed
<1>3. Steady(c)'
    BY Data DEF Steady
<1> QED BY <1>1, <1>2, <1>3 DEF SeenFits, Typed

LEMMA BeginInv ==
    ASSUME Typed, NEW c \in Call, CallInv(c), Begin(c) PROVE CallInv(c)'
<1> DEFINE r == asked[c].room
<1> DEFINE s == [id |-> r, ctx |-> RoomIn(world, r)]
<1>1. /\ pc[c] = "idle" /\ ~IsGuard(c) /\ seen'[c] = {world} /\ r \in Room
      /\ UNCHANGED <<world, changes, provided, asked>>
    BY AskedType DEF Begin, Typed
<1>2. SeenFits(c)' /\ Steady(c)' /\ ~IsGuard(c)' /\ WorldFits(world)
    BY <1>1, FirstSeen DEF IsGuard, Typed
<1>3. CASE RoomIn(world, r) = None
    <2>1. pc'[c] = "denied" /\ path'[c] = path[c] /\ path[c] = <<>>
        BY <1>1, <1>3 DEF Begin, Goto, Typed, CallInv, CallFits, Validating
    <2>2. CallFits(c)'
        BY <1>2, <2>1 DEF CallInv, CallFits, Point, Ended, Validating
    <2>3. PathFits(c)' /\ Evidence(c)' /\ GuardFits(c)' /\ Granted(c)'
        BY <2>1 DEF PathFits, Evidence, GuardFits, Granted, Validating
    <2>4. Refused(c)'
        <3>1. ~Accessible(world, r) /\ ~Due(c, world)
            BY <1>1, <1>2, <1>3, NoRoomNotAccessible DEF Due
        <3>2. \A w : Due(c, w)' <=> Due(c, w)
            BY <1>1, Stands
        <3> QED BY <1>1, <2>1, <3>1, <3>2 DEF Refused, Validating
    <2> QED BY <1>2, <2>2, <2>3, <2>4 DEF CallInv
<1>4. CASE RoomIn(world, r) # None
    <2>1. pc'[c] = "discussion" /\ path'[c] = <<s>>
        BY <1>4 DEF Begin, Goto, Typed
    <2>2. s \in Step /\ 1 <= MaxDepth
        BY <1>1, <1>2, <1>4, ParentType, BoundsAreNumbers DEF Step
    <2> HIDE DEF s
    <2>3. path'[c] \in Seq(Step) /\ Len(path'[c]) = 1 /\ path'[c][1] = s /\ path'[c] # <<>> /\ Here(c)' = s
        BY <2>1, <2>2 DEF Here, Last
    <2>4. CallFits(c)'
        BY <1>2, <2>1, <2>2, <2>3 DEF CallFits, Point, Validating
    <2>5. On(c, world, s)
        BY <1>1, LineageBase DEF On, s
    <2>6. \A w, t : On(c, w, t)' <=> On(c, w, t)
        BY <1>1, Stands
    <2>7. PathFits(c)'
        BY <1>1, <2>3, <2>5, <2>6 DEF PathFits
    <2>8. Evidence(c)'
        <3>1. \A w : HasRead(c, w)'
            BY <2>1 DEF HasRead, Asking
        <3> QED BY <1>1, <2>3, <2>5, <2>6, <3>1 DEF Evidence
    <2>9. Refused(c)'
        <3> SUFFICES ASSUME NEW w PROVE Upward(c, w)' /\ Said(c, w)'
            BY <2>1 DEF Refused
        <3>1. Upward(c, w)'
            BY <1>1, <2>3 DEF Upward, s
        <3>2. Said(c, w)'
            BY <2>1 DEF Said, Asking
        <3> QED BY <3>1, <3>2
    <2> QED BY <1>2, <2>1, <2>4, <2>7, <2>8, <2>9 DEF CallInv, GuardFits, Granted
<1> QED BY <1>3, <1>4

(* An answer of the guard: of each world it is that has been read. *)
LEMMA GuardAnswered ==
    ASSUME NEW c \in Call, SeenFits(c)', IsGuard(c), asked' = asked, pc'[c] \in {"granted", "denied"},
           path'[c] = <<>>,
           Steady(c)' => \E w \in seen'[c] : pc'[c] = "granted" <=> Permitted(w, asked[c])'
    PROVE  CallInv(c)'
<1>1. pc'[c] \in Ended /\ pc'[c] \in Point /\ pc'[c] \notin Validating \cup {"reading"} /\ IsGuard(c)'
    BY DEF Ended, Point, Validating, IsGuard
<1>2. path'[c] \in Seq(Step) /\ Len(path'[c]) = 0 /\ 0 <= MaxDepth
    BY BoundsAreNumbers
<1>3. CallFits(c)'
    BY <1>1, <1>2 DEF CallFits, Ended, Validating
<1>4. PathFits(c)' /\ Evidence(c)' /\ GuardFits(c)'
    BY <1>1, <1>2 DEF PathFits, Evidence, GuardFits
<1>5. \A w : Due(c, w)' <=> Permitted(w, asked[c])'
    BY <1>1 DEF Due
<1>6. Granted(c)'
    BY <1>5 DEF Granted
<1>7. Refused(c)'
    <2> SUFFICES ASSUME NEW w, seen'[c] = {w}, pc'[c] = "denied" PROVE ~Due(c, w)'
        BY <1>1 DEF Refused
    <2>1. Steady(c)'
        BY Data DEF Steady
    <2> QED BY <1>5, <2>1
<1> QED BY <1>3, <1>4, <1>6, <1>7 DEF CallInv

LEMMA EnterInv ==
    ASSUME Typed, NEW c \in Call, CallInv(c), Enter(c) PROVE CallInv(c)'
<1>1. /\ pc[c] = "idle" /\ IsGuard(c) /\ seen'[c] = {world} /\ path' = path /\ path[c] = <<>>
      /\ asked[c] \in GuardAsk /\ UNCHANGED <<world, changes, provided, asked>>
    BY AskedType DEF Enter, accessVars, Typed, CallInv, CallFits, Validating
<1>2. SeenFits(c)' /\ Steady(c)' /\ IsGuard(c)'
    BY <1>1, FirstSeen DEF IsGuard
<1>3. CASE asked[c].perms = {}
    <2>1. pc'[c] = IF asked[c].all THEN "granted" ELSE "denied"
        BY <1>3 DEF Enter, Answer, Goto, Typed
    <2>2. Permitted(world, asked[c])' <=> asked[c].all
        BY <1>1, <1>3 DEF Permitted, GuardAsk
    <2> QED BY <1>1, <1>2, <2>1, <2>2, GuardAnswered
<1>4. CASE asked[c].perms # {}
    <2>1. /\ pc'[c] = "reading" /\ unread'[c] = {"roles"} \cup asked[c].perms
          /\ rules'[c] = [p \in asked[c].perms |-> {}]
        BY <1>4 DEF Enter, Goto, Typed
    <2>2. CallFits(c)'
        BY <1>1, <1>2, <2>1 DEF CallInv, CallFits, Point, Validating
    <2>3. PathFits(c)' /\ Evidence(c)' /\ Granted(c)' /\ Refused(c)'
        BY <1>1, <2>1 DEF PathFits, Evidence, Granted, Refused, Validating
    <2>4. "scoped" \notin unread'[c]
        BY <1>1, <2>1 DEF GuardAsk, Perm
    <2>5. GuardFits(c)'
        <3>1. \A w : GuardHasRead(c, w)'
            BY <1>1, <2>1 DEF GuardHasRead
        <3> QED BY <1>1, <2>1, <2>4, <3>1 DEF GuardFits
    <2> QED BY <1>2, <2>2, <2>3, <2>5 DEF CallInv
<1> QED BY <1>3, <1>4

LEMMA GuardAt ==
    ASSUME Typed, NEW c \in Call, CallInv(c), pc[c] = "reading"
    PROVE  /\ IsGuard(c) /\ asked[c] \in GuardAsk /\ path[c] = <<>> /\ world \in seen[c]
           /\ "roles" \notin Perm /\ "scoped" \notin Perm /\ asked[c].perms \subseteq Perm
<1>1. IsGuard(c) /\ path[c] = <<>> /\ world \in seen[c]
    BY DEF CallInv, CallFits, SeenFits, Running, Validating, Ended
<1> QED BY <1>1, AskedType DEF GuardAsk, Perm

(* What the guard has read, with one fact more. *)
LEMMA GuardRead ==
    ASSUME Typed, NEW c \in Call, CallInv(c), pc[c] = "reading",
           UNCHANGED <<world, changes, provided, asked, pc, path, seen>>,
           unread'[c] \subseteq {"roles", "scoped"} \cup asked[c].perms, DOMAIN rules'[c] = asked[c].perms,
           "scoped" \in unread'[c] =>
              "roles" \notin unread'[c] /\ asked[c].scope # None /\ "scope" \in provided,
           NEW e \in Datum,
           \A w, u : GuardHasRead(c, w) /\ u[e] = world[e] /\ (\A x \in Datum \ {e} : u[x] = w[x])
                        => GuardHasRead(c, u)'
    PROVE  CallInv(c)'
<1>1. SeenFits(c)' /\ (Steady(c)' <=> Steady(c))
    BY SeenKept DEF CallInv, Running
<1>2. CallFits(c)'
    BY GuardAt DEF CallInv, CallFits, IsGuard, Validating
<1>3. PathFits(c)' /\ Evidence(c)' /\ Granted(c)' /\ Refused(c)'
    BY GuardAt DEF PathFits, Evidence, Granted, Refused, Validating
<1>4. ASSUME Steady(c) PROVE \E w \in seen[c] : GuardHasRead(c, w)'
    <2>1. PICK w \in seen[c] : GuardHasRead(c, w)
        BY <1>4 DEF CallInv, GuardFits
    <2>2. PICK u \in seen[c] : u[e] = world[e] /\ \A x \in Datum \ {e} : u[x] = w[x]
        BY <1>4, GuardAt, Switch
    <2> QED BY <2>1, <2>2
<1>5. GuardFits(c)'
    BY <1>1, <1>4 DEF GuardFits
<1> QED BY <1>1, <1>2, <1>3, <1>5 DEF CallInv

LEMMA ReadInv ==
    ASSUME Typed, NEW c \in Call, CallInv(c), Read(c) PROVE CallInv(c)'
<1>1. pc[c] = "reading" /\ UNCHANGED <<world, changes, provided, asked, pc, path, seen>>
    BY DEF Read, accessVars
<1>2. /\ unread[c] \subseteq {"roles", "scoped"} \cup asked[c].perms /\ DOMAIN rules[c] = asked[c].perms
      /\ "scoped" \in unread[c] =>
            "roles" \notin unread[c] /\ asked[c].scope # None /\ "scope" \in provided
      /\ asked[c] \in GuardAsk /\ "roles" \notin Perm /\ "scoped" \notin Perm /\ asked[c].perms \subseteq Perm
    BY <1>1, GuardAt DEF CallInv, GuardFits
<1>3. CASE ReadRoles(c)
    <2> DEFINE e == <<"user", "roles">>
    <2>1. /\ "roles" \in unread[c] /\ mine'[c] = world[e] /\ rules' = rules
          /\ unread'[c] = (unread[c] \ {"roles"}) \cup
                (IF asked[c].scope = None \/ "scope" \notin provided THEN {} ELSE {"scoped"})
        BY <1>3 DEF ReadRoles, Typed
    <2>2. ASSUME NEW w, NEW u, GuardHasRead(c, w), u[e] = world[e], \A x \in Datum \ {e} : u[x] = w[x]
          PROVE  GuardHasRead(c, u)'
        <3>1. Scoped(c, u)' = {}
            BY <1>1, <2>1 DEF Scoped
        <3>2. \A p \in asked[c].perms \ unread'[c] : rules'[c][p] = u[<<"rule", p>>]
            <4>1. \A p \in asked[c].perms : <<"rule", p>> \in Datum \ {e}
                BY <1>2, Data
            <4>2. \A p \in asked[c].perms \ unread'[c] : p \notin unread[c]
                BY <1>2, <2>1
            <4> QED BY <2>1, <2>2, <4>1, <4>2 DEF GuardHasRead
        <3> QED BY <1>1, <2>1, <2>2, <3>1, <3>2 DEF GuardHasRead
    <2> QED BY <1>1, <1>2, <2>1, <2>2, Data, GuardRead
<1>4. CASE ReadScoped(c)
    <2> DEFINE e == <<"scoped", asked[c].scope>>
    <2>1. /\ "scoped" \in unread[c] /\ mine'[c] = mine[c] \cup world[e] /\ rules' = rules
          /\ unread'[c] = unread[c] \ {"scoped"}
        BY <1>4 DEF ReadScoped, Typed
    <2>2. asked[c].scope \in Room /\ e \in Datum
        BY <1>2, <2>1, Data DEF GuardAsk
    <2>3. ASSUME NEW w, NEW u, GuardHasRead(c, w), u[e] = world[e], \A x \in Datum \ {e} : u[x] = w[x]
          PROVE  GuardHasRead(c, u)'
        <3>1. Scoped(c, u)' = world[e] /\ Scoped(c, w) = {}
            BY <1>1, <1>2, <2>1, <2>3 DEF Scoped
        <3>2. /\ <<"user", "roles">> \in Datum \ {e}
              /\ \A p \in asked[c].perms : <<"rule", p>> \in Datum \ {e}
            BY <1>2, <2>2, Data
        <3>3. mine'[c] = u[<<"user", "roles">>] \cup world[e]
            BY <1>2, <2>1, <2>3, <3>1, <3>2 DEF GuardHasRead
        <3>4. \A p \in asked[c].perms \ unread'[c] : rules'[c][p] = u[<<"rule", p>>]
            <4>1. \A p \in asked[c].perms \ unread'[c] : p \notin unread[c]
                BY <1>2, <2>1
            <4> QED BY <2>1, <2>3, <3>2, <4>1 DEF GuardHasRead
        <3> QED BY <1>1, <3>1, <3>3, <3>4 DEF GuardHasRead
    <2> QED BY <1>1, <1>2, <2>1, <2>2, <2>3, GuardRead
<1>5. ASSUME NEW q \in Perm, ReadRule(c, q) PROVE CallInv(c)'
    <2> DEFINE e == <<"rule", q>>
    <2>1. /\ q \in unread[c] /\ unread'[c] = unread[c] \ {q} /\ mine' = mine
          /\ rules'[c] = [rules[c] EXCEPT ![q] = world[e]]
        BY <1>5 DEF ReadRule, Typed
    <2>2. q \in asked[c].perms /\ q # "roles" /\ q # "scoped" /\ e \in Datum
        BY <1>2, <2>1, Data
    <2>3. /\ DOMAIN rules'[c] = asked[c].perms /\ rules'[c][q] = world[e]
          /\ \A p \in asked[c].perms \ {q} : rules'[c][p] = rules[c][p]
        BY <1>2, <2>1, <2>2
    <2>4. ASSUME NEW w, NEW u, GuardHasRead(c, w), u[e] = world[e], \A x \in Datum \ {e} : u[x] = w[x]
          PROVE  GuardHasRead(c, u)'
        <3>1. /\ <<"user", "roles">> \in Datum \ {e}
              /\ \A p \in asked[c].perms \ {q} : <<"rule", p>> \in Datum \ {e}
              /\ \A r \in Room : <<"scoped", r>> \in Datum \ {e}
            BY <1>2, Data
        <3>2. Scoped(c, u)' = Scoped(c, w)
            BY <1>1, <1>2, <2>1, <2>2, <2>4, <3>1 DEF Scoped, GuardAsk
        <3>3. "roles" \notin unread'[c] => mine'[c] = u[<<"user", "roles">>] \cup Scoped(c, u)'
            BY <2>1, <2>2, <2>4, <3>1, <3>2 DEF GuardHasRead
        <3>4. \A p \in asked[c].perms \ unread'[c] : rules'[c][p] = u[<<"rule", p>>]
            BY <2>1, <2>3, <2>4, <3>1 DEF GuardHasRead
        <3> QED BY <1>1, <3>3, <3>4 DEF GuardHasRead
    <2>5. /\ unread'[c] \subseteq {"roles", "scoped"} \cup asked[c].perms
          /\ "scoped" \in unread'[c] =>
                "roles" \notin unread'[c] /\ asked[c].scope # None /\ "scope" \in provided
        BY <1>2, <2>1
    <2> HIDE DEF e
    <2> QED BY <1>1, <2>2, <2>3, <2>4, <2>5, GuardRead
<1> QED BY <1>3, <1>4, <1>5 DEF Read

LEMMA DecideInv ==
    ASSUME Typed, NEW c \in Call, CallInv(c), Decide(c) PROVE CallInv(c)'
<1> DEFINE has == {p \in asked[c].perms : rules[c][p] \cap mine[c] # {}}
<1>1. /\ pc[c] = "reading" /\ unread[c] = {} /\ UNCHANGED <<world, changes, provided, asked, path, seen>>
      /\ pc'[c] = IF Satisfied(c, has) THEN "granted" ELSE "denied"
    BY DEF Decide, Answer, Goto, accessVars, Typed
<1>2. SeenFits(c)' /\ (Steady(c)' <=> Steady(c))
    BY <1>1, SeenKept DEF CallInv, Running, Ended
<1>3. IsGuard(c) /\ asked[c] \in GuardAsk /\ path[c] = <<>> /\ world \in seen[c]
    BY <1>1, GuardAt
<1>4. ASSUME NEW w, GuardHasRead(c, w) PROVE Satisfied(c, has) <=> Permitted(w, asked[c])
    <2>1. mine[c] = RolesIn(w, asked[c].scope)
        BY <1>1, <1>4 DEF GuardHasRead, Scoped, RolesIn
    <2>2. \A p \in asked[c].perms : p \in has <=> Holds(w, RolesIn(w, asked[c].scope), p)
        BY <1>1, <1>4, <2>1 DEF GuardHasRead, Holds
    <2> HIDE DEF has
    <2>3. has \subseteq asked[c].perms
        BY DEF has
    <2>4. (\A p \in asked[c].perms : Holds(w, RolesIn(w, asked[c].scope), p)) <=> has = asked[c].perms
        BY <2>2, <2>3
    <2>5. (\E p \in asked[c].perms : Holds(w, RolesIn(w, asked[c].scope), p)) <=> has # {}
        BY <2>2, <2>3
    <2> QED BY <2>4, <2>5 DEF Satisfied, Permitted
<1>5. Steady(c) => \E w \in seen[c] : GuardHasRead(c, w)
    BY <1>1 DEF CallInv, GuardFits
<1>6. \A w : Permitted(w, asked[c])' <=> Permitted(w, asked[c])
    BY <1>1 DEF Permitted, RolesIn
<1> HIDE DEF has
<1> QED BY <1>1, <1>2, <1>3, <1>4, <1>5, <1>6, GuardAnswered

LEMMA ReadFailsInv ==
    ASSUME Typed, NEW c \in Call, CallInv(c), ReadFails(c) PROVE CallInv(c)'
<1>1. /\ Running(c) /\ pc'[c] = "threw" /\ path'[c] = <<>>
      /\ UNCHANGED <<world, changes, provided, asked, seen>>
    BY DEF ReadFails, Goto, Typed, Running
<1>2. SeenFits(c)'
    BY <1>1, SeenKept DEF CallInv
<1>3. CallFits(c)'
    <2>1. path'[c] \in Seq(Step) /\ Len(path'[c]) = 0 /\ 0 <= MaxDepth
        BY <1>1, BoundsAreNumbers
    <2> QED BY <1>1, <2>1 DEF CallFits, Point, Ended, Validating
<1>4. PathFits(c)' /\ Evidence(c)' /\ GuardFits(c)' /\ Granted(c)' /\ Refused(c)'
    BY <1>1 DEF PathFits, Evidence, GuardFits, Granted, Refused, Validating
<1> QED BY <1>2, <1>3, <1>4 DEF CallInv

LEMMA NoUserInv ==
    ASSUME Typed, NEW c \in Call, CallInv(c), NoUser(c) PROVE CallInv(c)'
<1>1. /\ pc[c] = "idle" /\ pc'[c] \in {"nobody", "threw"} /\ path'[c] = path[c]
      /\ UNCHANGED <<world, changes, provided, asked, seen>>
    BY DEF NoUser, Goto, Typed, accessVars
<1>2. SeenFits(c)'
    BY <1>1, SeenKept DEF CallInv, Running, Ended
<1>3. CallFits(c)'
    BY <1>1 DEF CallInv, CallFits, IsGuard, Point, Ended, Validating
<1>4. PathFits(c)' /\ Evidence(c)' /\ GuardFits(c)' /\ Granted(c)' /\ Refused(c)'
    <2>1. path[c] = <<>>
        BY <1>1 DEF CallInv, CallFits, Validating
    <2> QED BY <1>1, <2>1 DEF PathFits, Evidence, GuardFits, Granted, Refused, Validating
<1> QED BY <1>2, <1>3, <1>4 DEF CallInv

----------------------------------------------------------------------------
(* The invariant *)

LEMMA InitInv == Init => AllInv
<1> SUFFICES ASSUME Init PROVE AllInv
    OBVIOUS
<1>1. Typed
    BY StartsFit, BoundsAreNumbers DEF Init, Typed, WorldFits
<1>2. ASSUME NEW c \in Call PROVE CallInv(c)
    <2>1. /\ pc[c] = "idle" /\ path[c] = <<>> /\ seen[c] = {} /\ changes = 0
          /\ <<>> \in Seq(Step) /\ Len(<<>>) = 0 /\ 0 <= MaxDepth /\ 0 <= changes + 1
          /\ IsFiniteSet({}) /\ Cardinality({}) = 0
        BY BoundsAreNumbers, FS_EmptySet DEF Init
    <2>2. CallFits(c)
        BY <2>1 DEF CallFits, Point, Validating
    <2>3. SeenFits(c)
        BY <2>1, Data DEF SeenFits, Running, Steady
    <2>4. PathFits(c) /\ Evidence(c) /\ GuardFits(c) /\ Granted(c) /\ Refused(c)
        BY <2>1 DEF PathFits, Evidence, GuardFits, Granted, Refused, Validating
    <2> QED BY <2>2, <2>3, <2>4 DEF CallInv
<1> QED BY <1>1, <1>2 DEF AllInv

LEMMA ChangeInv == ASSUME AllInv, Change PROVE AllInv'
<1>1. PICK d \in Datum : \E v \in Values[d] \ {world[d]} : world' = [world EXCEPT ![d] = v]
    BY DEF Change
<1>2. PICK v \in Values[d] \ {world[d]} : world' = [world EXCEPT ![d] = v]
    BY <1>1
<1>3. /\ changes < MaxChanges /\ changes' = changes + 1
      /\ UNCHANGED <<provided, asked, pc, path, ask, mine, unread, rules>>
      /\ seen' = [c \in Call |-> IF pc[c] \in Ended \cup {"idle"} THEN seen[c] ELSE seen[c] \cup {world'}]
    BY DEF Change, accessVars
<1>4. WorldFits(world') /\ \A e \in Datum \ {d} : world'[e] = world[e]
    BY <1>2, ValuesFit DEF AllInv, Typed, WorldFits
<1>5. changes \in Nat /\ changes' \in 0..MaxChanges
    BY <1>3, BoundsAreNumbers DEF AllInv, Typed
<1>6. Typed'
    BY <1>3, <1>4, <1>5 DEF AllInv, Typed, WorldFits
<1>7. ASSUME NEW c \in Call PROVE CallInv(c)'
    <2>1. CallInv(c) /\ SeenFits(c) /\ Typed
        BY DEF AllInv, CallInv
    <2>2. CASE ~Running(c)
        <3>1. seen'[c] = seen[c]
            BY <1>3, <2>2 DEF Running
        <3>2. Steady(c)' <=> Steady(c)
            BY <3>1 DEF Steady
        <3>3. Cardinality(seen[c]) \in Nat
            BY <2>1, FS_CardinalityType DEF SeenFits
        <3>4. SeenFits(c)'
            BY <1>3, <1>5, <2>1, <2>2, <3>1, <3>2, <3>3 DEF SeenFits, Running
        <3>5. CallFits(c)'
            BY <1>3, <2>1 DEF CallInv, CallFits, IsGuard
        <3>6. pc'[c] \notin Validating \cup {"reading"} /\ path'[c] = <<>> /\ Len(path'[c]) = 0
            BY <1>3, <2>1, <2>2, <3>5 DEF CallFits, Running, Point, Validating, Ended
        <3>7. PathFits(c)' /\ Evidence(c)' /\ GuardFits(c)'
            BY <3>6 DEF PathFits, Evidence, GuardFits
        <3>8. Granted(c)' /\ Refused(c)'
            BY <1>3, <2>1, <3>1, <3>2, <3>6, Stands DEF CallInv, Granted, Refused
        <3> QED BY <3>4, <3>5, <3>7, <3>8 DEF CallInv
    <2>3. CASE Running(c)
        <3>1. seen'[c] = seen[c] \cup {world'} /\ world \in seen[c]
            BY <1>3, <2>1, <2>3 DEF Running, SeenFits
        <3>2. Steady(c)' => Steady(c)
            BY <3>1 DEF Steady
        <3>3. IsFiniteSet(seen[c]) /\ Cardinality(seen[c]) \in Nat /\ Cardinality(seen[c]) <= changes + 1
            BY <2>1, FS_CardinalityType DEF SeenFits
        <3>4. /\ IsFiniteSet(seen'[c])
              /\ Cardinality(seen'[c]) =
                    IF world' \in seen[c] THEN Cardinality(seen[c]) ELSE Cardinality(seen[c]) + 1
            <4>1. /\ IsFiniteSet(seen[c] \cup {world'})
                  /\ Cardinality(seen[c] \cup {world'}) =
                        IF world' \in seen[c] THEN Cardinality(seen[c]) ELSE Cardinality(seen[c]) + 1
                BY <3>3, FS_AddElement
            <4> QED BY <3>1, <4>1
        <3>5. Cardinality(seen'[c]) <= changes' + 1
            BY <1>3, <1>5, <3>3, <3>4
        <3>6. ASSUME Cardinality(seen'[c]) <= 2 PROVE Steady(c)'
            <4>1. CASE world' \in seen[c]
                <5>1. seen'[c] = seen[c] /\ Steady(c)
                    BY <2>1, <3>1, <3>4, <3>6, <4>1 DEF SeenFits
                <5> QED BY <5>1 DEF Steady
            <4>2. CASE world' \notin seen[c]
                <5>1. Cardinality(seen[c]) # 0
                    BY <3>1, <3>3, FS_EmptySet
                <5>2. Cardinality(seen[c]) = 1
                    BY <3>3, <3>4, <3>6, <4>2, <5>1
                <5>3. seen[c] = {world}
                    BY <3>1, <3>3, <5>2, FS_Singleton
                <5>4. \A u, w \in seen'[c] : \A e \in Datum \ {d} : u[e] = w[e]
                    BY <1>4, <3>1, <5>3
                <5> QED BY <5>4 DEF Steady
            <4> QED BY <4>1, <4>2
        <3>7. SeenFits(c)'
            BY <1>4, <2>1, <3>1, <3>4, <3>5, <3>6 DEF SeenFits
        <3>8. CallFits(c)'
            BY <1>3, <2>1 DEF CallInv, CallFits, IsGuard
        <3>9. Here(c)' = Here(c) /\ \A w, s : On(c, w, s)' <=> On(c, w, s)
            BY <1>3, Stands DEF Here, Last
        <3>10. PathFits(c)'
            BY <1>3, <2>1, <3>1, <3>2, <3>9 DEF CallInv, PathFits
        <3>11. Evidence(c)'
            <4>1. \A w : HasRead(c, w)' <=> HasRead(c, w)
                BY <1>3, <3>9 DEF HasRead, Asking, InTeam, Belongs
            <4> QED BY <1>3, <2>1, <3>1, <3>2, <3>9, <4>1 DEF CallInv, Evidence
        <3>12. GuardFits(c)'
            <4>1. \A w : GuardHasRead(c, w)' <=> GuardHasRead(c, w)
                BY <1>3 DEF GuardHasRead, Scoped
            <4> QED BY <1>3, <2>1, <3>1, <3>2, <4>1 DEF CallInv, GuardFits
        <3>13. Granted(c)'
            BY <1>3, <2>3 DEF Granted, Running, Ended
        <3>14. Refused(c)'
            <4> SUFFICES ASSUME NEW w, seen'[c] = {w}, pc'[c] \in Validating PROVE Upward(c, w)' /\ Said(c, w)'
                BY <1>3, <2>3 DEF Refused, Running, Ended
            <4>1. seen[c] = {w}
                BY <3>1
            <4>2. Upward(c, w) /\ Said(c, w)
                BY <1>3, <2>1, <4>1 DEF CallInv, Refused
            <4>3. /\ \A r : Parent(w, r)' = Parent(w, r) /\ (Outside(w, r)' <=> Outside(w, r))
                  /\ \A x : AdmitsByTeam(w, x)' <=> AdmitsByTeam(w, x)
                BY <1>3, Stands
            <4>4. Upward(c, w)'
                BY <1>3, <4>2, <4>3 DEF Upward
            <4>5. Said(c, w)'
                BY <1>3, <3>9, <4>2, <4>3 DEF Said, Asking
            <4> QED BY <4>4, <4>5
        <3> QED BY <3>7, <3>8, <3>10, <3>11, <3>12, <3>13, <3>14 DEF CallInv
    <2> QED BY <2>2, <2>3
<1> QED BY <1>6, <1>7 DEF AllInv

Acts(c) ==
    Begin(c) \/ Validate(c) \/ Enter(c) \/ NoUser(c) \/ Read(c) \/ Decide(c) \/ ReadFails(c)

LEMMA ActsInv == ASSUME Typed, NEW c \in Call, CallInv(c), Acts(c) PROVE CallInv(c)'
<1>1. CASE Validate(c)
    <2>1. Same
        BY <1>1 DEF Validate, guardVars, Same
    <2> QED
        BY <1>1, <2>1, DiscussionInv, TeamInv, TeammateInv, PublicInv, MemberInv, ByTypeInv, AskRolesInv,
           AskRulesInv DEF Validate
<1> QED BY <1>1, BeginInv, EnterInv, NoUserInv, ReadInv, DecideInv, ReadFailsInv DEF Acts

(* A call touches no other, and keeps to the tables of its own. *)
LEMMA ActsApart ==
    ASSUME Typed, NEW c \in Call, Acts(c)
    PROVE  /\ UNCHANGED <<world, changes, provided, asked>>
           /\ \A b \in Call \ {c} :
                 UNCHANGED <<pc[b], path[b], ask[b], mine[b], unread[b], rules[b], seen[b]>>
           /\ DOMAIN pc' = Call /\ DOMAIN path' = Call /\ DOMAIN ask' = Call /\ DOMAIN mine' = Call
           /\ DOMAIN unread' = Call /\ DOMAIN rules' = Call /\ DOMAIN seen' = Call
<1>1. CASE Begin(c)
    BY <1>1 DEF Begin, Goto, guardVars, Typed
<1>2. CASE Validate(c)
    <2>1. UNCHANGED <<world, changes, provided, asked, unread, rules, seen>>
        BY <1>2 DEF Validate, guardVars
    <2>2. /\ \A b \in Call \ {c} : UNCHANGED <<pc[b], path[b], ask[b], mine[b]>>
          /\ DOMAIN pc' = Call /\ DOMAIN path' = Call /\ DOMAIN ask' = Call /\ DOMAIN mine' = Call
        <3>1. CASE Discussion(c)
            BY <3>1 DEF Discussion, Pass, Goto, Typed
        <3>2. CASE Team(c)
            BY <3>2 DEF Team, Pass, AskFor, Goto, Typed
        <3>3. CASE Teammate(c)
            BY <3>3 DEF Teammate, Grant, Pass, Goto, Typed
        <3>4. CASE Public(c)
            BY <3>4 DEF Public, AskFor, Pass, Goto, Typed
        <3>5. CASE Member(c)
            BY <3>5 DEF Member, AskFor, GiveUpHere, Goto, Typed
        <3>6. CASE ByType(c)
            BY <3>6 DEF ByType, AskFor, GiveUpHere, Goto, Typed
        <3>7. CASE AskRoles(c)
            BY <3>7 DEF AskRoles, Pass, Goto, Typed
        <3>8. CASE AskRules(c)
            BY <3>8 DEF AskRules, Grant, GiveUpHere, Goto, Typed
        <3> QED BY <1>2, <3>1, <3>2, <3>3, <3>4, <3>5, <3>6, <3>7, <3>8 DEF Validate
    <2> QED BY <2>1, <2>2 DEF Typed
<1>3. CASE Enter(c)
    BY <1>3 DEF Enter, Answer, Goto, accessVars, Typed
<1>4. CASE Read(c)
    BY <1>4 DEF Read, ReadRoles, ReadScoped, ReadRule, accessVars, Typed
<1>5. CASE Decide(c)
    BY <1>5 DEF Decide, Answer, Goto, accessVars, Typed
<1>6. CASE ReadFails(c)
    BY <1>6 DEF ReadFails, Goto, Typed
<1>7. CASE NoUser(c)
    BY <1>7 DEF NoUser, Goto, accessVars, guardVars, Typed
<1> QED BY <1>1, <1>2, <1>3, <1>4, <1>5, <1>6, <1>7 DEF Acts

LEMMA NextInv == AllInv /\ [Next]_vars => AllInv'
<1> SUFFICES ASSUME AllInv, [Next]_vars PROVE AllInv'
    OBVIOUS
<1>1. ASSUME NEW c \in Call, Acts(c) PROVE AllInv'
    <2>1. Typed'
        BY <1>1, ActsApart DEF AllInv, Typed, WorldFits
    <2>2. ASSUME NEW b \in Call PROVE CallInv(b)'
        BY <1>1, ActsInv, ActsApart, Untouched DEF AllInv
    <2> QED BY <2>1, <2>2 DEF AllInv
<1>2. CASE UNCHANGED vars
    <2>1. Typed'
        BY <1>2 DEF vars, accessVars, guardVars, AllInv, Typed, WorldFits
    <2>2. ASSUME NEW b \in Call PROVE CallInv(b)'
        BY <1>2, Untouched DEF vars, AllInv
    <2> QED BY <2>1, <2>2 DEF AllInv
<1> QED BY <1>1, <1>2, ChangeInv DEF Next, Done, Acts

LEMMA Always == Spec => []AllInv
BY InitInv, NextInv, PTL DEF Spec

LEMMA InvIsTypeOK == AllInv => TypeOK
<1> SUFFICES ASSUME AllInv PROVE TypeOK
    OBVIOUS
<1>1. ASSUME NEW c \in Call
      PROVE  /\ pc[c] \in Ended \cup {"idle"} \cup IF IsGuard(c) THEN {"reading"} ELSE Validating
             /\ Len(path[c]) <= MaxDepth
             /\ pc[c] \in Validating <=> path[c] # <<>>
             /\ pc[c] \in {"roles", "rules"} => ask[c].perm \in Perm
    BY DEF AllInv, CallInv, CallFits, Point
<1>2. ASSUME NEW c \in Call PROVE Cardinality(seen[c]) <= MaxChanges + 1
    <2>1. IsFiniteSet(seen[c]) /\ Cardinality(seen[c]) <= changes + 1 /\ changes \in 0..MaxChanges /\ MaxChanges \in Nat
        BY BoundsAreNumbers DEF AllInv, Typed, CallInv, SeenFits
    <2>2. Cardinality(seen[c]) \in Nat
        BY <2>1, FS_CardinalityType
    <2> QED BY <2>1, <2>2
<1> QED BY <1>1, <1>2 DEF AllInv, Typed, TypeOK

(* Every variable keeps its type: a check is at a room exactly while it      *)
(* validates, never deeper than MaxDepth, and asks for permissions that are. *)
THEOREM TypeCorrect == Spec => []TypeOK
BY Always, InvIsTypeOK, PTL

(* One change between two reads does not let a check grant what was due      *)
(* neither before nor after.                                                 *)
THEOREM GrantsWereDue == Spec => []GrantWasDue
<1>1. AllInv => GrantWasDue
    BY DEF AllInv, CallInv, SeenFits, Granted, GrantWasDue
<1> QED BY <1>1, Always, PTL

(* The same however often a single fact changes during the check: a role     *)
(* taken and given back, a room moved to and fro.  Two facts are needed to   *)
(* make a check grant what was never due.                                    *)
THEOREM OneFactDoesNotGrant == Spec => [](\A c \in Call : Granted(c))
<1>1. AllInv => \A c \in Call : Granted(c)
    BY DEF AllInv, CallInv
<1> QED BY <1>1, Always, PTL

(* With no change meanwhile, the chain of validators and the parallel reads  *)
(* of the guard give exactly the answer of the rules: who is refused is not  *)
(* due, whatever the depth of the rooms.                                     *)
THEOREM AnswersAreExact == Spec => []AnswerIsExact
<1>1. ASSUME AllInv, NEW c \in Call, pc[c] \in {"granted", "denied"}, Cardinality(seen[c]) = 1
      PROVE  pc[c] = "granted" <=> \A w \in seen[c] : Due(c, w)
    <2>1. CallInv(c)
        BY <1>1 DEF AllInv
    <2>2. PICK w : seen[c] = {w}
        BY <1>1, <2>1, FS_Singleton DEF CallInv, SeenFits
    <2>3. Steady(c)
        BY <2>2, Data DEF Steady
    <2> QED BY <1>1, <2>1, <2>2, <2>3 DEF CallInv, Granted, Refused
<1>2. AllInv => AnswerIsExact
    BY <1>1 DEF AnswerIsExact
<1> QED BY <1>2, Always, PTL
=============================================================================
