-------------------------- MODULE MCAuthorization --------------------------
(* Authorization with one call, of canAccess or of a guard, and one change.  "sub" is  *)
(* a private discussion in "main", which is a channel of the team or of its  *)
(* own, or a livechat, or gone, or, wrongly, a discussion in "sub".          *)
EXTENDS Authorization, TLC

Ctx(t, inTeam, parent) == [t |-> t, inTeam |-> inTeam, parent |-> parent]
Own == {{"user"}, {"guest"}}

MCRoom == {"sub", "main"}
MCValues ==
    [d \in Datum |->
        CASE d = <<"room", "sub">> -> {Ctx("p", FALSE, "main")}
          [] d = <<"room", "main">> ->
                {None, Ctx("c", TRUE, None), Ctx("c", FALSE, None), Ctx("l", FALSE, None), Ctx("d", FALSE, "sub")}
          [] d[1] = "scoped" -> {{}, {"owner"}}
          [] d[1] = "team" -> BOOLEAN
          [] d[1] = "user" -> Own
          [] d = <<"rule", "view-c-room">> -> {{"user"}, {"guest"}}
          [] d = <<"rule", "view-p-room">> -> {{"owner"}}
          [] OTHER -> {{"guest"}}]

MCProviders == {Providers, {"scope"}}

MCStarts ==
    {[d \in Datum |->
        CASE d = <<"room", "sub">> -> Ctx("p", FALSE, "main")
          [] d = <<"room", "main">> -> main
          [] d = <<"scoped", "sub">> -> inSub
          [] d = <<"scoped", "main">> -> {}
          [] d = <<"team", "public">> -> open
          [] d = <<"team", "member">> -> FALSE
          [] d[1] = "user" -> own
          [] d = <<"rule", "view-c-room">> -> {"user"}
          [] d = <<"rule", "view-p-room">> -> {"owner"}
          [] OTHER -> {"guest"}] :
        main \in MCValues[<<"room", "main">>], inSub \in {{}, {"owner"}},
        open \in BOOLEAN, own \in Own}

MCAsks ==
    {[room |-> r] : r \in MCRoom} \cup
    {[all |-> a, perms |-> p, scope |-> "sub"] :
        a \in BOOLEAN, p \in {{"view-c-room", "view-p-room"}, {}}}
=============================================================================
