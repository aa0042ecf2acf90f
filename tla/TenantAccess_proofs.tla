------------------------- MODULE TenantAccess_proofs -------------------------
(***************************************************************************)
(* The type invariant and the properties of TenantAccess, for every set of *)
(* roles and every length of the times.                                    *)
(***************************************************************************)
EXTENDS TenantAccess, TLAPS

LEMMA Times ==
  /\ TokenTtl \in Nat /\ BlockTtl \in Nat /\ Lag \in Nat /\ MaxOthers \in Nat /\ MaxAsked \in Nat
  /\ 0 < TokenTtl /\ TokenTtl <= BlockTtl
  /\ "owner" \in Roles /\ "none" \notin Roles
  /\ {"manage", "issue", "connect"} \cap Roles = {}
BY RolesAssumption, TtlAssumption DEF RolesAssumption, TtlAssumption

(* A token whose role the person has had within the token's time.          *)
Recent == {t \in Token : t.since + t.ttl <= TokenTtl}

LEMMA RecentTokens ==
  /\ NoToken \in Recent
  /\ \A r \in Roles : Claims(r) \in Recent
  /\ \A t \in Recent : t # NoToken => t.ttl > 0
  /\ \A t \in Recent : t.ttl \in Nat
<1>1. /\ NoToken \in Recent /\ \A r \in Roles : Claims(r) \in Recent
  BY Times DEF Recent, Token, NoToken, Claims
<1>2. \A t \in Recent : t.ttl \in Nat /\ (t # NoToken => t.ttl > 0)
  BY Times DEF Recent, Token, NoToken
<1> QED
  BY <1>1, <1>2

LEMMA RecentSeen ==
  ASSUME NEW t \in Recent, NEW r \in Roles
  PROVE  LET u == IF t.role = r THEN [t EXCEPT !.since = 0] ELSE t
         IN  u \in Recent /\ u.ttl = t.ttl
<1>1. CASE t = NoToken
  BY <1>1, Times, RecentTokens DEF NoToken
<1>2. CASE t \in [role : Roles, ttl : 1 .. TokenTtl, since : 0 .. TokenTtl]
  BY <1>2, Times DEF Recent, Token
<1> QED
  BY <1>1, <1>2 DEF Recent, Token

LEMMA RecentAged ==
  ASSUME NEW t \in Recent
  PROVE  /\ Aged(t) \in Recent
         /\ Aged(t).ttl <= Less(t.ttl)
         /\ t.ttl <= BlockTtl
<1>0. t.ttl \in 0 .. TokenTtl /\ t.since \in 0 .. TokenTtl /\ t.since + t.ttl <= TokenTtl
  BY Times DEF Recent, Token, NoToken
<1>1. CASE t.ttl <= 1
  BY <1>0, <1>1, Times, RecentTokens DEF Aged, Less, NoToken
<1>2. CASE ~(t.ttl <= 1)
  <2>1. t \in [role : Roles, ttl : 1 .. TokenTtl, since : 0 .. TokenTtl]
    BY <1>0, <1>2 DEF Recent, Token, NoToken
  <2>2. Aged(t) = [role |-> t.role, ttl |-> t.ttl - 1,
                      since |-> IF t.role = role THEN 0 ELSE t.since + 1]
    BY <1>2 DEF Aged
  <2>3. Aged(t) \in [role : Roles, ttl : 1 .. TokenTtl, since : 0 .. TokenTtl]
        /\ Aged(t).since + Aged(t).ttl <= TokenTtl /\ Aged(t).ttl = t.ttl - 1
    BY <1>0, <1>2, <2>1, <2>2, Times
  <2> QED
    BY <1>0, <1>2, <2>3, Times DEF Recent, Token, Less
<1> QED
  BY <1>1, <1>2
-----------------------------------------------------------------------------
(* Types, and the time behind every claim.                                 *)

ClaimsInv == AccessTypeOK /\ token \in Recent /\ socket \in Recent

LEMMA ClaimsInit == AccessInit => ClaimsInv
<1> SUFFICES ASSUME AccessInit PROVE ClaimsInv
  OBVIOUS
<1>1. asked \in [Requests -> 0 .. MaxAsked]
  BY Times DEF AccessInit
<1>2. token \in Recent /\ socket \in Recent /\ token \in Token /\ socket \in Token
  BY RecentTokens DEF AccessInit, Recent
<1>3. 0 \in 0 .. BlockTtl /\ 0 \in 0 .. Lag
  BY Times
<1> QED
  BY <1>1, <1>2, <1>3, Zenon DEF AccessInit, ClaimsInv, AccessTypeOK

LEMMA AnswerTyped ==
  ASSUME asked \in [Requests -> 0 .. MaxAsked], NEW request \in Requests, Answer(request)
  PROVE  asked' \in [Requests -> 0 .. MaxAsked]
BY Times DEF Answer

LEMMA AskTyped ==
  ASSUME asked \in [Requests -> 0 .. MaxAsked], NEW request \in Requests, Ask(request)
  PROVE  asked' \in [Requests -> 0 .. MaxAsked]
<1>1. asked["manage"] \in Nat /\ asked["issue"] \in Nat /\ asked["connect"] \in Nat
  BY Times DEF Requests
<1>2. asked[request] < MaxAsked /\ asked[request] \in Nat
  <2>1. asked[request] \in Nat /\ Under \in Nat /\ Under < MaxAsked
    BY <1>1, Times DEF Ask, Under
  <2>2. CASE request \in {"manage", "issue", "connect"}
    BY <1>1, <2>1, <2>2, Times DEF Under
  <2>3. CASE request \in Roles
    <3>1. ~Signing
      BY <2>3, Times DEF Ask
    <3>2. asked[request] = 0
      BY <2>1, <2>3, <3>1 DEF Signing
    <3> QED
      BY <2>1, <3>2, Times
  <2> QED
    BY <2>2, <2>3 DEF Requests
<1> QED
  BY <1>2, Times DEF Ask

LEMMA ClaimsStep == ClaimsInv /\ [AccessNext]_accessVars => ClaimsInv'
<1> SUFFICES ASSUME ClaimsInv, [AccessNext]_accessVars
             PROVE  ClaimsInv'
  OBVIOUS
<1> USE Times DEF ClaimsInv, AccessTypeOK, memberVars, tokenVars, kvVars, requestVars, historyVars
<1>0. Recent \subseteq Token
  BY DEF Recent
<1>m. {"manage", "issue", "connect"} \subseteq Requests
  BY DEF Requests
<1>1. CASE SignToken
  <2>1. PICK r \in Roles : Answer(r) /\ token' = Claims(r)
    BY <1>1 DEF SignToken
  <2>2. asked' \in [Requests -> 0 .. MaxAsked]
    BY <2>1, AnswerTyped DEF Requests
  <2> QED
    BY <1>1, <2>1, <2>2, <1>0, RecentTokens DEF SignToken
<1>2. ASSUME NEW request \in Requests, Ask(request)
      PROVE  ClaimsInv'
  <2>1. asked' \in [Requests -> 0 .. MaxAsked]
    BY <1>2, AskTyped
  <2>2. UNCHANGED <<memberVars, tokenVars, kvVars, adding, cut, historyVars, tenantRow>>
    BY <1>2 DEF Ask
  <2> QED
    BY <2>1, <2>2
<1>3. CASE Connect
  BY <1>3, <1>m, AnswerTyped DEF Connect
<1>4. CASE InsertPat
  BY <1>4, <1>m, AnswerTyped DEF InsertPat
<1>5. CASE RevokePat
  BY <1>5 DEF RevokePat
<1>6. CASE ChangeRole
  <2>1. PICK r \in Roles : Becomes(r)
    BY <1>6 DEF ChangeRole
  <2>2. token' \in Recent /\ socket' \in Recent /\ role' \in Roles
    BY <2>1, RecentSeen DEF Becomes, Seen
  <2> QED
    BY <1>6, <2>2, <1>0, <1>m, AnswerTyped DEF ChangeRole
<1>7. CASE OtherLeaves
  BY <1>7, <1>m, AnswerTyped DEF OtherLeaves
<1>8. CASE OtherComes
  BY <1>8 DEF OtherComes
<1>9. CASE Refuse
  BY <1>9, AnswerTyped DEF Refuse
<1>10. CASE InsertMember
  <2>1. PICK r \in Roles : Becomes(r)
    BY <1>10 DEF InsertMember
  <2>2. token' \in Recent /\ socket' \in Recent /\ role' \in Roles
    BY <2>1, RecentSeen DEF Becomes, Seen
  <2> QED
    BY <1>10, <2>2, <1>0, <1>m, AnswerTyped DEF InsertMember
<1>11. CASE LiftBlock
  <2>1. 0 \in 0 .. BlockTtl
    OBVIOUS
  <2> QED
    BY <1>11, <2>1, Zenon DEF LiftBlock
<1>12. CASE AddFails
  BY <1>12 DEF AddFails
<1>13. CASE RemoveMember
  BY <1>13, <1>m, AnswerTyped DEF RemoveMember, CutBegins
<1>14. CASE RevokeMembership
  BY <1>14 DEF RevokeMembership, CutBegins
<1>15. CASE Ban
  BY <1>15 DEF Ban, CutBegins
<1>16. CASE Unban
  BY <1>16 DEF Unban
<1>17. CASE DeleteMemberships
  BY <1>17 DEF DeleteMemberships, CutBegins
<1>18. CASE CutBlock
  BY <1>18 DEF CutBlock, PutBlock
<1>19. CASE CutPats
  BY <1>19 DEF CutPats, AfterPats
<1>20. CASE CutSockets
  BY <1>20, <1>0, RecentTokens DEF CutSockets, CutEnds
<1>27. CASE CutTenants
  BY <1>27 DEF CutTenants, CutEnds
<1>21. CASE BlockFormer
  BY <1>21 DEF BlockFormer, PutBlock
<1>22. CASE WipeTenant
  BY <1>22, <1>0, RecentTokens DEF WipeTenant
<1>23. CASE DeleteTenantRow
  BY <1>23 DEF DeleteTenantRow
<1>24. CASE CutFails
  BY <1>24 DEF CutFails
<1>25. CASE AccessTick
  <2>1. token' \in Recent /\ socket' \in Recent
    BY <1>25, RecentAged DEF AccessTick
  <2> QED
    BY <1>25, <2>1, <1>0 DEF AccessTick, Less
<1>26. CASE UNCHANGED accessVars
  BY <1>26 DEF accessVars
<1> QED
  BY <1>1, <1>2, <1>3, <1>4, <1>5, <1>6, <1>7, <1>8, <1>9, <1>10, <1>11, <1>12, <1>13, <1>14,
     <1>15, <1>16, <1>17, <1>18, <1>19, <1>20, <1>21, <1>22, <1>23, <1>24, <1>25, <1>26, <1>27
  DEF AccessNext, RequestStep, CutStep

(* AccessTypeOK, for every set of roles and every length of the times.     *)
THEOREM AccessTyped == AccessSpec => []AccessTypeOK
<1>1. AccessSpec => []ClaimsInv
  BY ClaimsInit, ClaimsStep, PTL DEF AccessSpec
<1>2. ClaimsInv => AccessTypeOK
  BY DEF ClaimsInv
<1> QED
  BY <1>1, <1>2, PTL

(* A token or a socket acts for no role that the person has not had within *)
(* the token's time (auth/jwt.ts), whatever order requests take.           *)
THEOREM AuthorityStaysRecent == AccessSpec => []AuthorityIsRecent
<1>1. AccessSpec => []ClaimsInv
  BY ClaimsInit, ClaimsStep, PTL DEF AccessSpec
<1>2. ClaimsInv => AuthorityIsRecent
  BY DEF ClaimsInv, AuthorityIsRecent, Recent
<1> QED
  BY <1>1, <1>2, PTL
-----------------------------------------------------------------------------
(* What a cut leaves behind: a ban, or no membership and a block in KV     *)
(* that lasts as long as the token signed before, and as one that is still *)
(* to be signed of a role read before.                                     *)

Covered ==
  /\ role = "none" /\ ~adding
  /\ token.ttl <= blockLeft /\ (Signing => TokenTtl <= blockLeft)
BlockToCome == role = "none" /\ ~adding /\ cut \in {"block", "blockFormer"}

CutInv ==
  /\ ClaimsInv
  /\ clean => banned \/ Covered \/ BlockToCome
  /\ out => banned \/ Covered
  /\ (patOld /\ cut \in {"none", "tenants", "sockets"}) => ~pat

LEMMA CutInit == AccessInit => CutInv
BY ClaimsInit DEF AccessInit, CutInv

LEMMA CutStepKeeps == CutInv /\ [AccessNext]_accessVars => CutInv'
<1> SUFFICES ASSUME CutInv, [AccessNext]_accessVars
             PROVE  CutInv'
  OBVIOUS
<1>t. ClaimsInv /\ ClaimsInv'
  BY ClaimsStep DEF CutInv
<1>n. /\ token.ttl \in 0 .. BlockTtl /\ token'.ttl \in Nat
      /\ blockLeft \in Nat /\ blockLeft' \in Nat /\ BlockTtl \in Nat
  <2>1. token \in Recent /\ token' \in Recent /\ blockLeft \in 0 .. BlockTtl /\ blockLeft' \in 0 .. BlockTtl
    BY <1>t DEF ClaimsInv, AccessTypeOK
  <2> QED
    BY <2>1, RecentTokens, RecentAged, Times
<1> USE DEF memberVars, tokenVars, kvVars, requestVars, historyVars, CutInv, Covered, BlockToCome
<1>s. ASSUME UNCHANGED asked PROVE Signing' = Signing
  BY <1>s DEF Signing
<1>a. ASSUME NEW request \in Requests, Answer(request) PROVE Signing' => Signing
  <2>1. asked \in [Requests -> Nat]
    BY <1>t, Times DEF ClaimsInv, AccessTypeOK
  <2>2. \A r \in Roles : asked'[r] > 0 => asked[r] > 0
    BY <1>a, <2>1 DEF Answer, Requests
  <2> QED
    BY <2>2 DEF Signing
<1>m. {"manage", "issue", "connect"} \cup Roles \subseteq Requests
  BY DEF Requests
<1>1. CASE SignToken
  <2>1. PICK r \in Roles : Answer(r) /\ token' = Claims(r)
    BY <1>1 DEF SignToken
  <2>2. Signing /\ (Signing' => Signing) /\ token'.ttl = TokenTtl
    BY <2>1, <1>a, <1>m DEF Signing, Answer, Claims
  <2> QED
    BY <1>1, <1>t, <2>2 DEF SignToken
<1>2. ASSUME NEW request \in Requests, Ask(request)
      PROVE  CutInv'
  <2>1. UNCHANGED <<memberVars, tokenVars, kvVars, adding, cut, historyVars, tenantRow>>
    BY <1>2 DEF Ask
  <2>2. request \in Roles => role # "none"
    BY <1>2, Times DEF Ask, Requests
  <2>3. request \notin Roles => Signing' = Signing
    <3>1. asked \in [Requests -> Nat]
      BY <1>t, Times DEF ClaimsInv, AccessTypeOK
    <3> QED
      BY <1>2, <3>1, <1>m DEF Ask, Signing
  <2> QED
    BY <2>1, <2>2, <2>3, <1>t
<1>3. CASE Connect
  BY <1>3, <1>t, <1>a, <1>m DEF Connect
<1>4. CASE InsertPat
  BY <1>4, <1>t, <1>a, <1>m DEF InsertPat
<1>5. CASE RevokePat
  BY <1>5, <1>t, <1>s DEF RevokePat
<1>6. CASE ChangeRole
  BY <1>6, <1>t, <1>a, <1>m DEF ChangeRole
<1>7. CASE OtherLeaves
  BY <1>7, <1>t, <1>a, <1>m DEF OtherLeaves
<1>8. CASE OtherComes
  BY <1>8, <1>t, <1>s DEF OtherComes
<1>9. CASE Refuse
  BY <1>9, <1>t, <1>a, <1>m DEF Refuse
<1>10. CASE InsertMember
  BY <1>10, <1>t, <1>a, <1>m DEF InsertMember
<1>11. CASE LiftBlock
  BY <1>11, <1>t, <1>s DEF LiftBlock
<1>12. CASE AddFails
  BY <1>12, <1>t, <1>s DEF AddFails
<1>k. ASSUME role' = "none", UNCHANGED <<token, blockLeft, adding>>, Signing' => Signing
      PROVE  Covered => Covered'
  BY <1>k DEF Covered
<1>13. CASE RemoveMember
  <2>1. Signing' => Signing
    BY <1>13, <1>a, <1>m DEF RemoveMember
  <2>2. Covered => Covered'
    BY <1>13, <2>1, <1>k DEF RemoveMember
  <2>3. UNCHANGED <<out, banned, pat>> /\ (clean' => BlockToCome') /\ cut' = "block"
    BY <1>13 DEF RemoveMember, CutBegins
  <2> QED
    BY <2>2, <2>3, <1>t, Zenon DEF CutInv
<1>14. CASE RevokeMembership
  <2>1. Covered => Covered'
    BY <1>14, <1>s, <1>k DEF RevokeMembership
  <2>2. UNCHANGED <<out, banned>> /\ (clean' => BlockToCome') /\ cut' = "block"
    BY <1>14 DEF RevokeMembership, CutBegins
  <2> QED
    BY <2>1, <2>2, <1>t, Zenon DEF CutInv
<1>15. CASE Ban
  BY <1>15, <1>t, <1>s DEF Ban, CutBegins
<1>16. CASE Unban
  BY <1>16, <1>t, <1>s DEF Unban
<1>17. CASE DeleteMemberships
  <2>1. Covered => Covered'
    BY <1>17, <1>s, <1>k DEF DeleteMemberships
  <2>2. /\ UNCHANGED <<out, banned>> /\ (clean' => BlockToCome')
        /\ cut' \in {"wipe", "blockFormer"}
    BY <1>17 DEF DeleteMemberships, CutBegins
  <2> QED
    BY <2>1, <2>2, <1>t DEF CutInv
<1>18. CASE CutBlock
  BY <1>18, <1>t, <1>n, <1>s, Times DEF CutBlock, PutBlock
<1>19. CASE CutPats
  BY <1>19, <1>t, <1>s DEF CutPats, AfterPats
<1>c. ASSUME UNCHANGED <<role, token, blockLeft, adding, asked>> PROVE Covered' = Covered
  BY <1>c, <1>s DEF Covered
<1>e. ASSUME CutEnds, cut \in {"tenants", "sockets"},
             UNCHANGED <<memberVars, token, pat, kvVars, asked, adding>>
      PROVE  CutInv'
  <2>1. clean => banned \/ Covered
    BY <1>e DEF CutInv
  <2>2. ~clean' /\ out' = clean /\ (patOld' => patOld /\ pat) /\ (patOld => ~pat)
    BY <1>e DEF CutEnds, CutInv
  <2>3. Covered' = Covered /\ banned' = banned /\ pat' = pat
    BY <1>e, <1>c
  <2> QED
    BY <1>t, <2>1, <2>2, <2>3, Zenon DEF CutInv
<1>20. CASE CutSockets
  BY <1>20, <1>e DEF CutSockets
<1>27. CASE CutTenants
  <2>1. CASE role # "none"
    BY <1>27, <2>1, <1>t, <1>c DEF CutTenants
  <2>2. CASE role = "none"
    BY <1>27, <2>2, <1>e DEF CutTenants
  <2> QED
    BY <2>1, <2>2
<1>21. CASE BlockFormer
  BY <1>21, <1>t, <1>n, <1>s, Times DEF BlockFormer, PutBlock
<1>22. CASE WipeTenant
  BY <1>22, <1>t, <1>s DEF WipeTenant
<1>23. CASE DeleteTenantRow
  <2>1. clean => banned \/ Covered
    BY <1>23 DEF DeleteTenantRow, CutInv
  <2>2. ~clean' /\ (out' => out \/ clean) /\ ~patOld'
    BY <1>23 DEF DeleteTenantRow
  <2>3. Covered' = Covered /\ banned' = banned
    BY <1>23, <1>c DEF DeleteTenantRow
  <2> QED
    BY <1>t, <2>1, <2>2, <2>3, Zenon DEF CutInv
<1>24. CASE CutFails
  BY <1>24, <1>t, <1>s DEF CutFails
<1>25. CASE AccessTick
  <2>1. token \in Recent
    BY <1>t DEF ClaimsInv
  <2>2. token'.ttl <= Less(token.ttl) /\ blockLeft' = Less(blockLeft)
    BY <1>25, <2>1, RecentAged DEF AccessTick
  <2>3. token.ttl <= blockLeft => token'.ttl <= blockLeft'
    BY <2>2, <1>n DEF Less
  <2>4. ~Signing'
    <3>1. asked["manage"] \in Nat /\ asked["issue"] \in Nat /\ asked["connect"] \in Nat
      BY <1>t, <1>m, Times DEF ClaimsInv, AccessTypeOK
    <3> QED
      BY <1>25, <3>1, <1>s DEF AccessTick, Under
  <2> QED
    BY <1>25, <1>t, <2>3, <2>4 DEF AccessTick
<1>26. CASE UNCHANGED accessVars
  BY <1>26, <1>t, <1>s DEF accessVars
<1> QED
  BY <1>1, <1>2, <1>3, <1>4, <1>5, <1>6, <1>7, <1>8, <1>9, <1>10, <1>11, <1>12, <1>13, <1>14,
     <1>15, <1>16, <1>17, <1>18, <1>19, <1>20, <1>21, <1>22, <1>23, <1>24, <1>25, <1>26, <1>27
  DEF AccessNext, RequestStep, CutStep

LEMMA CutAlways == AccessSpec => []CutInv
BY CutInit, CutStepKeeps, PTL DEF AccessSpec

(* After a removal, a ban or an unbroken deletion of the tenant, tokens    *)
(* are refused until someone lets the person in: MEMBERSHIP_BLOCK_TTL is   *)
(* no shorter than TOKEN_TTL, which is all the proof needs of the times.   *)
THEOREM CutOffIsComplete == AccessSpec => []CutOffHolds
<1>1. CutInv => CutOffHolds
  <2> SUFFICES ASSUME CutInv, out, unseen = 0
               PROVE  ~AcceptsToken /\ ~AcceptsPat
    BY DEF CutOffHolds
  <2>1. token # NoToken => token.ttl > 0
    BY RecentTokens DEF CutInv, ClaimsInv
  <2>2. token.ttl \in Nat /\ blockLeft \in Nat
    BY RecentTokens, Times DEF CutInv, ClaimsInv, AccessTypeOK
  <2>3. CASE banned
    BY <2>3 DEF AcceptsToken, AcceptsPat, PassesKv, MissesBan
  <2>4. CASE Covered
    BY <2>1, <2>2, <2>4 DEF Covered, AcceptsToken, AcceptsPat, PassesKv, MissesBlock
  <2> QED
    BY <2>3, <2>4 DEF CutInv
<1> QED
  BY <1>1, CutAlways, PTL

(* A personal token from before a finished removal or ban stays dead when  *)
(* the person is added again (auth/pat.ts, revokeUserPats).                *)
THEOREM OldPatsStayDead == AccessSpec => []OldPatStaysDead
<1>1. CutInv => OldPatStaysDead
  BY DEF CutInv, OldPatStaysDead, AcceptsPat
<1> QED
  BY <1>1, CutAlways, PTL

(* No request of owners takes the tenant's last one (KEEPS_AN_OWNER).      *)
THEOREM OwnersRemain == AccessSpec => OwnerRemains
<1>1. ClaimsInv /\ [AccessNext]_accessVars
        => [Owners > 0 /\ Owners' = 0 => RevokeMembership \/ DeleteMemberships]_accessVars
  <2> SUFFICES ASSUME ClaimsInv, AccessNext, ~RevokeMembership, ~DeleteMemberships, Owners > 0
               PROVE  Owners' > 0
    BY Times DEF ClaimsInv, AccessTypeOK, Owners
  <2>t. others \in Nat
    BY Times DEF ClaimsInv, AccessTypeOK
  <2>1. CASE ChangeRole
    BY <2>1, <2>t DEF ChangeRole, KeepsAnOwner, Becomes, Owners
  <2>2. CASE OtherLeaves
    BY <2>2, <2>t DEF OtherLeaves, KeepsAnOwner, Owners
  <2>3. CASE OtherComes
    BY <2>3, <2>t DEF OtherComes, Owners
  <2>4. CASE InsertMember
    BY <2>4, <2>t DEF InsertMember, Becomes, Owners
  <2>5. CASE RemoveMember
    BY <2>5, <2>t DEF RemoveMember, KeepsAnOwner, Owners
  <2>6. CASE UNCHANGED memberVars
    BY <2>6 DEF memberVars, Owners
  <2> QED
    BY <2>1, <2>2, <2>3, <2>4, <2>5, <2>6
    DEF AccessNext, RequestStep, CutStep, SignToken, Ask, Connect, InsertPat, RevokePat, Refuse,
        LiftBlock, AddFails, Ban, Unban, CutBlock, CutPats, CutTenants, CutSockets, BlockFormer, WipeTenant,
        DeleteTenantRow, CutFails, AccessTick, memberVars
<1>2. AccessSpec => []ClaimsInv
  BY ClaimsInit, ClaimsStep, PTL DEF AccessSpec
<1> QED
  BY <1>1, <1>2, PTL DEF AccessSpec, OwnerRemains
=============================================================================
