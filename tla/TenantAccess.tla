----------------------------- MODULE TenantAccess -----------------------------
(***************************************************************************)
(* What one person may do in one tenant, and how it ends: the membership   *)
(* row, the short-lived token signed from it, the socket opened with the   *)
(* token, a personal access token, the blocklist in KV, and the procedures *)
(* that take all of it away (removal, ban, deletion of the tenant), step   *)
(* by step.                                                                *)
(*                                                                         *)
(* Persons share nothing but the rule that a tenant keeps an owner, so one *)
(* is followed and the other owners are counted.  Likewise one token, one  *)
(* socket and one personal token stand for all of them, and one procedure  *)
(* at a time cuts the person off.  Times count down: a Tick takes one from *)
(* each, and a request takes less than a tick.                             *)
(***************************************************************************)
EXTENDS Naturals

CONSTANTS
  Roles,      \* of owner, editor, viewer
  TokenTtl,   \* of a signed token, TOKEN_TTL
  BlockTtl,   \* of a blocked membership, MEMBERSHIP_BLOCK_TTL_SECONDS
  Lag,        \* for which a reader may miss what was put into KV
  MaxOthers,  \* bounds of the model: the other owners,
  MaxAsked    \* and the requests under way at once

ASSUME RolesAssumption == "owner" \in Roles /\ Roles \subseteq {"owner", "editor", "viewer"}
ASSUME TtlAssumption ==
  /\ {TokenTtl, BlockTtl, Lag, MaxOthers, MaxAsked} \subseteq Nat
  /\ 0 < TokenTtl /\ TokenTtl <= BlockTtl

VARIABLES
  role,         \* memberships: the person's role, or "none"
  others,       \* how many other owners the tenant has
  token,        \* the claims of the token the person holds, and (history) the
                \* ticks since the person last had the role in them
  socket,       \* the same of the token an open socket came with
  pat,          \* personal_access_tokens: one that is not revoked
  blockLeft,    \* blocked:membership in KV: what is left of it, 0 if it is gone
  banned,       \* blocked:user in KV
  unseen,       \* for how long a reader may still miss what was put last
  asked,        \* how many requests have passed their check of token and role
  adding,       \* an addition has put the row in and not yet lifted the block
  cut,          \* the next step of a removal, ban or deletion under way
  tenantRow,    \* tenants: the tenant's row is there
  clean,        \* history: the cut under way or done has met no addition
  out,          \* history: such a cut is done, and nothing has let the person in
  patOld        \* history: the personal token was there when the cut began

memberVars == <<role, others>>
tokenVars == <<token, socket, pat>>
kvVars == <<blockLeft, banned, unseen>>
requestVars == <<asked, adding, cut, tenantRow>>
historyVars == <<clean, out, patOld>>
accessVars == <<memberVars, tokenVars, kvVars, requestVars, historyVars>>

\* One for a token is named by the role that it has read.
Requests == {"manage", "issue", "connect"} \cup Roles
NoToken == [role |-> "none", ttl |-> 0, since |-> 0]

AccessInit ==
  /\ role \in Roles \cup {"none"} /\ others \in 0 .. MaxOthers
  /\ token = NoToken /\ socket = NoToken /\ pat = FALSE
  /\ blockLeft = 0 /\ banned = FALSE /\ unseen = 0
  /\ asked = [request \in Requests |-> 0] /\ adding = FALSE /\ cut = "none" /\ tenantRow = TRUE
  /\ clean = FALSE /\ out = FALSE /\ patOld = FALSE
-----------------------------------------------------------------------------
(* The gates.                                                              *)

MissesBlock == blockLeft = 0 \/ unseen > 0
MissesBan == ~banned \/ unseen > 0

(* isBlocked and isMembershipBlocked let the person through: KV may still  *)
(* answer with what was there before.                                      *)
PassesKv == MissesBlock /\ MissesBan

(* authenticateTenantToken, of a request or of an upgrade.                 *)
AcceptsToken == token # NoToken /\ PassesKv

(* verifyPat joins the membership, then the blocklist.                     *)
AcceptsPat == pat /\ role # "none" /\ PassesKv

(* requireCurrentRole: the role of the token and the one in the row.       *)
ActsAsOwner == AcceptsToken /\ token.role = "owner" /\ role = "owner"
SomeOwnerActs == others > 0 \/ ActsAsOwner
-----------------------------------------------------------------------------
(* Tokens and sockets.                                                     *)

Claims(r) == [role |-> r, ttl |-> TokenTtl, since |-> 0]

(* The requests under way, of which one at most is for a token.            *)
Signing == \E r \in Roles : asked[r] > 0
Under == asked["manage"] + asked["issue"] + asked["connect"] + (IF Signing THEN 1 ELSE 0)
Answer(request) ==
  /\ asked[request] > 0
  /\ asked' = [asked EXCEPT ![request] = @ - 1]

(* Mistake: the new token has the role of the old one.                     *)
SignTokenRenewed ==
  /\ MissesBlock
  /\ \E r \in Roles :
       /\ Answer(r)
       /\ token' = [IF token = NoToken THEN Claims(r) ELSE token EXCEPT !.ttl = TokenTtl]
  /\ UNCHANGED <<memberVars, socket, pat, kvVars, adding, cut, historyVars, tenantRow>>

(* POST /auth/token, after the read of the role.                           *)
SignToken ==
  /\ MissesBlock
  /\ \E r \in Roles : Answer(r) /\ token' = Claims(r)
  /\ UNCHANGED <<memberVars, socket, pat, kvVars, adding, cut, historyVars, tenantRow>>

(* The upgrade, from the check of the token on.                            *)
Connect ==
  /\ Answer("connect")
  /\ socket' = token
  /\ UNCHANGED <<memberVars, token, pat, kvVars, adding, cut, historyVars, tenantRow>>

(* The issue of a personal token, from the check of the role on.           *)
InsertPat ==
  /\ Answer("issue")
  /\ pat' = TRUE /\ patOld' = FALSE
  /\ UNCHANGED <<memberVars, token, socket, kvVars, adding, cut, clean, out, tenantRow>>

RevokePat ==
  /\ SomeOwnerActs /\ pat
  /\ pat' = FALSE
  /\ UNCHANGED <<memberVars, token, socket, kvVars, requestVars, historyVars>>
-----------------------------------------------------------------------------
(* Requests.  The check of the token and of the role and the statement     *)
(* that follows are two steps; the count of the owners is in the statement. *)
(* A token is asked for past the ban, with the role that the row has now.  *)

Ask(request) ==
  /\ Under < MaxAsked
  /\ CASE request = "connect" -> AcceptsToken
       [] request = "issue" -> ActsAsOwner
       [] request \in Roles -> role = request /\ MissesBan /\ ~Signing
       [] OTHER -> SomeOwnerActs
  /\ asked' = [asked EXCEPT ![request] = @ + 1]
  /\ UNCHANGED <<memberVars, tokenVars, kvVars, adding, cut, historyVars, tenantRow>>

Owners == others + (IF role = "owner" THEN 1 ELSE 0)

(* Mistake: no owner is counted.                                           *)
KeepsAnOwnerUncounted(r) == r \in Roles
KeepsAnOwner(r) == r # "owner" \/ Owners > 1

Seen(t) == IF t.role = role' THEN [t EXCEPT !.since = 0] ELSE t

Becomes(r) ==
  /\ role' = r
  /\ token' = Seen(token) /\ socket' = Seen(socket)

ChangeRole ==
  /\ Answer("manage")
  /\ role # "none"
  /\ \E r \in Roles \ {role} : (r = "owner" \/ KeepsAnOwner(role)) /\ Becomes(r)
  /\ UNCHANGED <<others, pat, kvVars, adding, cut, historyVars, tenantRow>>

(* Another owner is demoted or removed, or another one comes.              *)
OtherLeaves ==
  /\ Answer("manage")
  /\ others > 0 /\ KeepsAnOwner("owner") /\ others' = others - 1
  /\ UNCHANGED <<role, tokenVars, kvVars, adding, cut, historyVars, tenantRow>>

OtherComes ==
  /\ SomeOwnerActs /\ others < MaxOthers
  /\ others' = others + 1
  /\ UNCHANGED <<role, tokenVars, kvVars, requestVars, historyVars>>

(* 404 or 409: the statement has found no row.                             *)
Refuse ==
  /\ \E request \in Requests : Answer(request)
  /\ UNCHANGED <<memberVars, tokenVars, kvVars, adding, cut, historyVars, tenantRow>>

(* POST members: the row, then the block is lifted.                        *)
InsertMember ==
  /\ Answer("manage")
  /\ role = "none"
  /\ \E r \in Roles : Becomes(r)
  /\ adding' = TRUE
  /\ clean' = FALSE /\ out' = FALSE
  /\ UNCHANGED <<others, pat, kvVars, cut, patOld, tenantRow>>

LiftBlock ==
  /\ adding
  /\ adding' = FALSE
  /\ blockLeft' = 0
  /\ UNCHANGED <<memberVars, tokenVars, banned, unseen, asked, cut, historyVars, tenantRow>>

AddFails ==
  /\ adding
  /\ adding' = FALSE
  /\ UNCHANGED <<memberVars, tokenVars, kvVars, asked, cut, historyVars, tenantRow>>
-----------------------------------------------------------------------------
(* Removal and ban: what they start with, then cutOffMembership.           *)

CutBegins(step) ==
  /\ cut = "none" /\ cut' = step
  /\ patOld' = pat

RemoveMember ==
  /\ Answer("manage")
  /\ role # "none" /\ KeepsAnOwner(role)
  /\ role' = "none"
  /\ CutBegins("block") /\ clean' = ~adding
  /\ UNCHANGED <<others, tokenVars, kvVars, adding, out, tenantRow>>

(* By the operator: of whatever role, and again if it failed.              *)
RevokeMembership ==
  /\ role' = "none"
  /\ CutBegins("block") /\ clean' = ~adding
  /\ UNCHANGED <<others, tokenVars, kvVars, asked, adding, out, tenantRow>>

Ban ==
  /\ banned' = TRUE
  /\ unseen' = IF banned THEN unseen ELSE Lag
  /\ CutBegins("patsOfUser") /\ clean' = TRUE
  /\ UNCHANGED <<memberVars, tokenVars, blockLeft, asked, adding, out, tenantRow>>

Unban ==
  /\ banned' = FALSE
  /\ clean' = FALSE /\ out' = FALSE
  /\ UNCHANGED <<memberVars, tokenVars, blockLeft, unseen, requestVars, patOld>>

PutBlock ==
  /\ blockLeft' = BlockTtl
  /\ unseen' = IF blockLeft > 0 THEN unseen ELSE Lag

(* Mistake: the block lasts no longer than KV takes to show it.            *)
CutBlockShort ==
  /\ cut = "block" /\ cut' = "pats"
  /\ blockLeft' = 1 /\ unseen' = IF blockLeft > 0 THEN unseen ELSE Lag
  /\ UNCHANGED <<memberVars, tokenVars, banned, asked, adding, historyVars, tenantRow>>
CutBlock ==
  /\ cut = "block" /\ cut' = "pats"
  /\ PutBlock
  /\ UNCHANGED <<memberVars, tokenVars, banned, asked, adding, historyVars, tenantRow>>

(* A ban goes on with the tenants of the person, a removal with this one.  *)
AfterPats ==
  \/ cut = "pats" /\ cut' = "sockets"
  \/ cut = "patsOfUser" /\ cut' = "tenants"

(* Mistake: the block is thought to cover the personal tokens.             *)
CutPatsSkipped ==
  /\ AfterPats
  /\ UNCHANGED <<memberVars, tokenVars, kvVars, asked, adding, historyVars, tenantRow>>
CutPats ==
  /\ AfterPats
  /\ pat' = FALSE
  /\ UNCHANGED <<memberVars, token, socket, kvVars, asked, adding, historyVars, tenantRow>>

CutEnds ==
  /\ cut' = "none"
  /\ out' = clean /\ clean' = FALSE /\ patOld' = (patOld /\ pat)

(* A ban closes the sockets in the tenants where the person has a row.     *)
CutTenants ==
  /\ cut = "tenants"
  /\ \/ role # "none" /\ cut' = "sockets" /\ UNCHANGED historyVars
     \/ role = "none" /\ CutEnds
  /\ UNCHANGED <<memberVars, tokenVars, kvVars, asked, adding, tenantRow>>

CutSockets ==
  /\ cut = "sockets" /\ CutEnds
  /\ socket' = NoToken
  /\ UNCHANGED <<memberVars, token, pat, kvVars, asked, adding, tenantRow>>

(* deleteTenantCascade: the members are read before their rows go, and     *)
(* only those read are blocked.                                            *)
DeleteMemberships ==
  /\ tenantRow
  /\ role' = "none" /\ others' = 0
  /\ CutBegins(IF role = "none" THEN "wipe" ELSE "blockFormer")
  /\ clean' = (~adding /\ role # "none")
  /\ UNCHANGED <<tokenVars, kvVars, asked, adding, out, tenantRow>>

BlockFormer ==
  /\ cut = "blockFormer" /\ cut' = "wipe"
  /\ PutBlock
  /\ UNCHANGED <<memberVars, tokenVars, banned, asked, adding, historyVars, tenantRow>>

(* The sockets are closed with the storage.                                *)
WipeTenant ==
  /\ cut = "wipe" /\ cut' = "row"
  /\ socket' = NoToken
  /\ UNCHANGED <<memberVars, token, pat, kvVars, asked, adding, historyVars, tenantRow>>

DeleteTenantRow ==
  /\ cut = "row" /\ cut' = "none"
  /\ tenantRow' = FALSE
  /\ out' = (out \/ clean) /\ clean' = FALSE /\ patOld' = FALSE
  /\ UNCHANGED <<memberVars, tokenVars, kvVars, asked, adding>>

(* One of the steps throws; those before it stay.                          *)
CutFails ==
  /\ cut # "none" /\ cut' = "none"
  /\ clean' = FALSE /\ patOld' = FALSE
  /\ UNCHANGED <<memberVars, tokenVars, kvVars, asked, adding, out, tenantRow>>
-----------------------------------------------------------------------------
Less(n) == IF n = 0 THEN 0 ELSE n - 1
(* Mistake: a token is good at its last second too.                        *)
AgedLate(t) ==
  IF t.ttl = 0 THEN NoToken
  ELSE [role |-> t.role, ttl |-> t.ttl - 1, since |-> IF t.role = role THEN 0 ELSE t.since + 1]
(* A token and a socket (webSocketMessage) end with the time of the token. *)
Aged(t) ==
  IF t.ttl <= 1 THEN NoToken
  ELSE [role |-> t.role, ttl |-> t.ttl - 1, since |-> IF t.role = role THEN 0 ELSE t.since + 1]

AccessTick ==
  /\ Under = 0 /\ ~adding
  /\ token' = Aged(token) /\ socket' = Aged(socket)
  /\ blockLeft' = Less(blockLeft)
  /\ unseen' = Less(unseen)
  /\ UNCHANGED <<role, others, pat, banned, requestVars, historyVars>>

RequestStep ==
  \/ \E request \in Requests : Ask(request)
  \/ Connect
  \/ ChangeRole \/ OtherLeaves \/ OtherComes \/ Refuse
  \/ InsertMember \/ LiftBlock \/ AddFails
  \/ InsertPat \/ RevokePat

CutStep ==
  \/ CutBlock \/ CutPats \/ CutTenants \/ CutSockets
  \/ BlockFormer \/ WipeTenant \/ DeleteTenantRow
  \/ CutFails

AccessNext ==
  \/ SignToken
  \/ RequestStep
  \/ RemoveMember \/ RevokeMembership \/ Ban \/ Unban \/ DeleteMemberships
  \/ CutStep
  \/ AccessTick

AccessSpec == AccessInit /\ [][AccessNext]_accessVars

-----------------------------------------------------------------------------
Token == {NoToken} \cup [role : Roles, ttl : 1 .. TokenTtl, since : 0 .. TokenTtl]

AccessTypeOK ==
  /\ role \in Roles \cup {"none"} /\ others \in 0 .. MaxOthers
  /\ token \in Token /\ socket \in Token /\ pat \in BOOLEAN
  /\ blockLeft \in 0 .. BlockTtl /\ banned \in BOOLEAN /\ unseen \in 0 .. Lag
  /\ asked \in [Requests -> 0 .. MaxAsked]
  /\ adding \in BOOLEAN /\ tenantRow \in BOOLEAN
  /\ cut \in {"none", "block", "pats", "patsOfUser", "tenants", "sockets",
              "blockFormer", "wipe", "row"}
  /\ clean \in BOOLEAN /\ out \in BOOLEAN /\ patOld \in BOOLEAN

(* Whatever order of renewals, changes of role, removals and additions: a  *)
(* token or socket acts for no role the person has not had within the      *)
(* token's time.  (auth/jwt.ts: short-lived; the role is read again at     *)
(* each signing, and a socket ends with the token it was opened with.)     *)
AuthorityIsRecent ==
  \A t \in {token, socket} : t.since + t.ttl <= TokenTtl

(* Once a removal, a ban or an unbroken deletion of the tenant is through, *)
(* and readers of KV have caught up, the tokens of the person are refused, *)
(* at every later time until someone lets the person in: the block in KV   *)
(* outlasts every token signed before.                                     *)
(* (auth/blocklist.ts, MEMBERSHIP_BLOCK_TTL_SECONDS.)                      *)
CutOffHolds ==
  out /\ unseen = 0 => ~AcceptsToken /\ ~AcceptsPat

(* A personal token there before a removal or ban that went through is     *)
(* dead for good: adding the person again, which lifts the block, does not *)
(* revive it.  (auth/pat.ts, revokeUserPats.)                              *)
OldPatStaysDead == patOld /\ cut = "none" => ~AcceptsPat

(* The owners' requests, two at once too, leave the tenant an owner.       *)
(* (routes/tenant-settings.ts, KEEPS_AN_OWNER.)                            *)
OwnerRemains ==
  [][Owners > 0 /\ Owners' = 0 => RevokeMembership \/ DeleteMemberships]_accessVars
=============================================================================
