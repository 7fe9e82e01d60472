--------------------------- MODULE MembershipChain ---------------------------
(***************************************************************************)
(* Who may hold a team's keys.  A team keeps one log of signed operations; *)
(* applyOperation (packages/e2ee/membership.mjs) says what each does to    *)
(* the endpoints, grants and recovery kit the log stands for.  The hub     *)
(* (packages/hub/enrollment.js) keeps the log and two tables of its own,   *)
(* and answers requests that overlap: it reads the log, checks signatures, *)
(* which yields, and only then writes.                                     *)
(*                                                                         *)
(* The log is kept as the state it replays to; its length stands for its   *)
(* hash, since only one log is ever written.  A device is its id and its   *)
(* keys together.  Deleting a task is in EncryptedTaskLog.                   *)
(***************************************************************************)
EXTENDS Integers, FiniteSets

CONSTANTS
  Devices,        \* endpoints
  Nobody,         \* no device
  Accounts,       \* accounts
  AccountOf,      \* the account an endpoint belongs to
  TeamOwner,      \* the account that owns the team
  Projects,       \* projects of the team
  Kits,           \* recovery kits: a master key each
  Epochs,         \* recovery epochs a kit may be used for
  MaxSeq,         \* bound: operations in the log
  MaxChecking,    \* bound: requests between their checks and their write
  MaxRequests     \* bound: challenges asked

ASSUME ChainAssumption ==
  /\ AccountOf \in [Devices -> Accounts] /\ TeamOwner \in Accounts
  /\ Nobody \notin Devices
  /\ {MaxSeq, MaxChecking, MaxRequests} \subseteq Nat

VARIABLES
  chain,          \* the state the membership log replays to
  rows,           \* hub: endpoint_enrollments.state, "none" without a row
  grants,         \* hub: project_grants, "revoked" where revoked_at is set
  seats,          \* hub: accounts with a membership of the team
  checking,       \* hub: signed mutations that passed their checks, unwritten
  asked,          \* hub: the host's entry in challenges
  answering,      \* hub: answers that passed their checks, unpublished
  requests        \* challenges asked so far

chainVars == <<chain, rows, grants, seats, checking, asked, answering, requests>>

Live == {"participant", "owner"}
NoChallenge == [id |-> 0, signer |-> Nobody, proof |-> FALSE]

(* initialMembership.                                                      *)
InitialMembership ==
  [seq |-> 0, owner |-> Nobody, endpoint |-> [d \in Devices |-> "absent"],
   grant |-> [pa \in Projects \X Accounts |-> "none"], deleted |-> {},
   kit |-> {}, generation |-> 0, kits |-> {}, epochs |-> {}]

ChainInit ==
  /\ chain = InitialMembership
  /\ rows = [d \in Devices |-> "none"]
  /\ grants = [pa \in Projects \X Accounts |-> "none"]
  /\ seats = Accounts
  /\ checking = {} /\ answering = {} /\ asked = NoChallenge /\ requests = 0

-----------------------------------------------------------------------------
(* applyOperation: the states an operation leads to, none if it is refused. *)
(* An operation is [by, action, on]: signer, action and what it is about.  *)

Actor(r) == AccountOf[r.by]
IsOwner(c, r) == c.owner # Nobody /\ Actor(r) = AccountOf[c.owner]
Only(ok, c) == {s \in {c} : ok}

Bootstrapped(c, r) ==
  Only(c.seq = 0, [c EXCEPT !.owner = r.by, !.endpoint[r.by] = "verified"])

(* A kit admits a new endpoint of the owner and resets everybody else.     *)
Recovered(c, r) ==
  Only(IsOwner(c, r) /\ c.kit # {} /\ r.on[1] = c.generation /\ r.on[2] \notin c.epochs
         /\ c.endpoint[r.by] = "absent",
       [c EXCEPT !.endpoint = [d \in Devices |-> IF d = r.by THEN "verified"
                                  ELSE IF @[d] = "verified" THEN "pending" ELSE @[d]],
                 !.grant = [pa \in DOMAIN @ |-> IF @[pa] \in Live THEN "reset" ELSE @[pa]],
                 !.epochs = @ \cup {r.on[2]}])

Configured(c, r) ==
  Only(IsOwner(c, r) /\ r.on \notin c.kits,
       [c EXCEPT !.kit = {r.on}, !.generation = @ + 1, !.kits = @ \cup {r.on}])
KitRevoked(c, r) == Only(IsOwner(c, r) /\ c.kit # {}, [c EXCEPT !.kit = {}])

Confirmed(c, r) ==
  Only(c.endpoint[r.on] # "revoked", [c EXCEPT !.endpoint[r.on] = "verified"])

(* The first endpoint may only be removed by another one of the owner's.   *)
EndpointRevoked(c, r) ==
  Only(/\ IsOwner(c, r) \/ Actor(r) = AccountOf[r.on]
       /\ c.endpoint[r.on] # "absent"
       /\ r.on = c.owner => IsOwner(c, r) /\ r.by # c.owner,
       [c EXCEPT !.endpoint[r.on] = "revoked"])

(* A project is owned by whoever comes first, or after a recovery by the   *)
(* team's owner once every grant of it was reset or revoked.               *)
ProjectOwned(c, r) ==
  LET held == {c.grant[<<r.on, a>>] : a \in Accounts}
      mine == <<r.on, Actor(r)>>
  IN  Only(/\ r.on \notin c.deleted
           /\ held # {"none"} /\ c.grant[mine] \notin Live =>
                IsOwner(c, r) /\ held \cap Live = {} /\ "reset" \in held,
           IF c.grant[mine] \in Live THEN c ELSE [c EXCEPT !.grant[mine] = "owner"])

Granted(c, r) ==
  LET p == r.on[1]
  IN  Only(p \notin c.deleted /\ c.grant[<<p, Actor(r)>>] \in Live,
           [c EXCEPT !.grant[<<p, r.on[2]>>] = r.on[3]])

GrantRevoked(c, r) ==
  LET p == r.on[1]  a == r.on[2]
  IN  Only(/\ c.grant[<<p, Actor(r)>>] \in Live /\ c.grant[r.on] \in Live
           /\ c.grant[r.on] = "owner" => Actor(r) = a,
           [c EXCEPT !.grant[r.on] = "revoked"])

ProjectDeleted(c, r) ==
  Only(IsOwner(c, r) /\ r.on \notin c.deleted,
       [c EXCEPT !.deleted = @ \cup {r.on},
                 !.grant = [pa \in DOMAIN @ |-> IF pa[1] = r.on /\ @[pa] \in Live THEN "revoked" ELSE @[pa]]])

ByVerified(c, r) ==
  CASE r.action = "confirm" -> Confirmed(c, r)
    [] r.action = "revoke-endpoint" -> EndpointRevoked(c, r)
    [] r.action = "own-project" -> ProjectOwned(c, r)
    [] r.action = "grant" -> Granted(c, r)
    [] r.action = "revoke-grant" -> GrantRevoked(c, r)
    [] r.action = "project.delete" -> ProjectDeleted(c, r)
    [] r.action = "recovery.configure" -> Configured(c, r)
    [] r.action = "recovery.revoke" -> KitRevoked(c, r)

ApplyOperation(c, r) ==
  LET next == CASE r.action = "bootstrap" -> Bootstrapped(c, r)
                [] r.action = "owner.recover" -> Recovered(c, r)
                [] OTHER -> IF c.endpoint[r.by] = "verified" THEN ByVerified(c, r) ELSE {}
  IN  {[s EXCEPT !.seq = @ + 1] : s \in next}

Operations ==
  [by : Devices, action : {"bootstrap", "recovery.revoke"}, on : {<<>>}]
  \cup [by : Devices, action : {"confirm", "revoke-endpoint"}, on : Devices]
  \cup [by : Devices, action : {"own-project", "project.delete"}, on : Projects]
  \cup [by : Devices, action : {"grant"}, on : Projects \X Accounts \X Live]
  \cup [by : Devices, action : {"revoke-grant"}, on : Projects \X Accounts]
  \cup [by : Devices, action : {"recovery.configure"}, on : Kits]
  \cup [by : Devices, action : {"owner.recover"}, on : (1..MaxSeq) \X Epochs]

-----------------------------------------------------------------------------
(* What the hub does with an operation it accepts: [ok, rows, grants].     *)

Refuse == [ok |-> FALSE, rows |-> rows, grants |-> grants]
Writes(ok, newRows, newGrants) == IF ok THEN [ok |-> TRUE, rows |-> newRows, grants |-> newGrants] ELSE Refuse

Participant(p, a) == p \notin chain.deleted /\ grants[<<p, a>>] \in Live
HasVerified(a) == \E d \in Devices : AccountOf[d] = a /\ rows[d] = "verified"

(* announce, for an endpoint of somebody with a seat.                      *)
Announced(d) == IF rows[d] = "none" THEN [rows EXCEPT ![d] = "pending"] ELSE rows

(* Mutant: recovery leaves the endpoints verified before it as they are.   *)
HubRecoversAddingOnly(r) ==
  Writes(Actor(r) \in seats /\ Announced(r.by)[r.by] = "pending",
         [rows EXCEPT ![r.by] = "verified"],
         [pa \in DOMAIN grants |-> IF grants[pa] \in Live THEN "revoked" ELSE grants[pa]])

HubRecovers(r) ==
  Writes(Actor(r) \in seats /\ Announced(r.by)[r.by] = "pending",
         [d \in Devices |-> IF d = r.by THEN "verified"
                            ELSE IF rows[d] = "verified" THEN "pending" ELSE rows[d]],
         [pa \in DOMAIN grants |-> IF grants[pa] \in Live THEN "revoked" ELSE grants[pa]])

HubBootstraps(r) ==
  Writes(Actor(r) = TeamOwner /\ Actor(r) \in seats,
         [d \in Devices |-> IF d = r.by THEN "verified"
                            ELSE IF rows[d] = "verified" THEN "pending" ELSE rows[d]], grants)

(* The owner's account may confirm without an endpoint of its own.         *)
HubConfirms(r) ==
  Writes(/\ (Actor(r) = TeamOwner /\ ~HasVerified(TeamOwner)) \/ rows[r.by] = "verified"
         /\ rows[r.on] \notin {"none", "revoked"},
         [rows EXCEPT ![r.on] = "verified"], grants)

HubRevokesEndpoint(r) ==
  Writes(Actor(r) \in {TeamOwner, AccountOf[r.on]} /\ rows[r.on] # "none",
         [rows EXCEPT ![r.on] = "revoked"], grants)

OwnedBy(p, a) == IF Participant(p, a) THEN grants ELSE [grants EXCEPT ![<<p, a>>] = "owner"]
HubOwnsProject(r) == Writes(r.on \notin chain.deleted, rows, OwnedBy(r.on, Actor(r)))

HubGrants(r) ==
  Writes(Participant(r.on[1], Actor(r)) /\ r.on[2] \in seats /\ HasVerified(Actor(r)),
         rows, [grants EXCEPT ![<<r.on[1], r.on[2]>>] = r.on[3]])

HubRevokesGrant(r) ==
  Writes(/\ grants[r.on] # "none" /\ Participant(r.on[1], Actor(r))
         /\ grants[r.on] = "owner" => Actor(r) = r.on[2],
         rows, [grants EXCEPT ![r.on] = "revoked"])

(* retention.apply: the tombstone is the chain's; the grants all end.      *)
HubDeletesProject(r) ==
  Writes(\E a \in Accounts : grants[<<r.on, a>>] # "none", rows,
         [pa \in DOMAIN grants |-> IF pa[1] = r.on /\ grants[pa] # "none" THEN "revoked" ELSE grants[pa]])

HubWrites(r) ==
  CASE r.action = "bootstrap" -> HubBootstraps(r)
    [] r.action = "owner.recover" -> HubRecovers(r)
    [] r.action = "confirm" -> HubConfirms(r)
    [] r.action = "revoke-endpoint" -> HubRevokesEndpoint(r)
    [] r.action = "own-project" -> HubOwnsProject(r)
    [] r.action = "grant" -> HubGrants(r)
    [] r.action = "revoke-grant" -> HubRevokesGrant(r)
    [] r.action = "project.delete" -> HubDeletesProject(r)
    [] OTHER -> Writes(TRUE, rows, grants)

-----------------------------------------------------------------------------
(* A signed mutation: its checks, and later its write.                     *)

ChainRoom == Cardinality(checking) + Cardinality(answering) < MaxChecking

MutationChecked(r) ==
  /\ Actor(r) \in seats /\ chain.seq < MaxSeq /\ ChainRoom
  /\ ApplyOperation(chain, r) # {}
  /\ checking' = checking \cup {[op |-> r, seen |-> chain.seq]}
  /\ UNCHANGED <<chain, rows, grants, seats, asked, answering, requests>>

(* The checks were made on a log that may have grown since: then nothing   *)
(* is written.  A refusal by a table undoes the whole of it.               *)
MutationWritten(m) ==
  /\ m \in checking /\ checking' = checking \ {m}
  /\ LET w == HubWrites(m.op)
     IN  IF m.seen = chain.seq /\ w.ok
         THEN /\ chain' \in ApplyOperation(chain, m.op)
              /\ rows' = w.rows /\ grants' = w.grants
         ELSE UNCHANGED <<chain, rows, grants>>
  /\ UNCHANGED <<seats, asked, answering, requests>>

EndpointAnnounced(d) ==
  /\ AccountOf[d] \in seats /\ rows' = Announced(d) /\ rows' # rows
  /\ UNCHANGED <<chain, grants, seats, checking, asked, answering, requests>>

(* Creating a task makes its creator an owner at the hub, unsigned.        *)
ProjectOwnedByTask(p, a) ==
  /\ a \in seats /\ p \notin chain.deleted
  /\ grants' = OwnedBy(p, a) /\ grants' # grants
  /\ UNCHANGED <<chain, rows, seats, checking, asked, answering, requests>>

SeatTaken(a) ==
  /\ a \in seats \ {TeamOwner} /\ seats' = seats \ {a}
  /\ UNCHANGED <<chain, rows, grants, checking, asked, answering, requests>>

-----------------------------------------------------------------------------
(* A host asks for a signed statement of the log's head, of the signer it  *)
(* chose or, without one, of the first endpoint.                           *)

OwnerEndpoint(d) ==
  d # Nobody /\ chain.owner # Nobody /\ AccountOf[d] = AccountOf[chain.owner] /\ chain.endpoint[d] = "verified"

ChallengeAsked(d) ==
  /\ requests < MaxRequests /\ requests' = requests + 1
  /\ d # Nobody /\ (d = chain.owner \/ OwnerEndpoint(d))
  /\ asked' = [id |-> requests', signer |-> d, proof |-> FALSE]
  /\ UNCHANGED <<chain, rows, grants, seats, checking, answering>>

ChallengeExpires ==
  /\ asked.id # 0 /\ asked' = NoChallenge
  /\ UNCHANGED <<chain, rows, grants, seats, checking, answering, requests>>

(* An answer of the signer is checked against the log as it is now ...     *)
AnswerChecked ==
  /\ asked.id # 0 /\ ~asked.proof /\ OwnerEndpoint(asked.signer) /\ ChainRoom
  /\ answering' = answering \cup {[id |-> asked.id, seen |-> chain.seq]}
  /\ answering' # answering
  /\ UNCHANGED <<chain, rows, grants, seats, checking, asked, requests>>

(* Mutant: published although the log grew while the signature was checked. *)
AnswerPublishedStale(n) ==
  /\ n \in answering /\ answering' = answering \ {n}
  /\ asked' = IF n.id = asked.id THEN [asked EXCEPT !.proof = TRUE] ELSE asked
  /\ UNCHANGED <<chain, rows, grants, seats, checking, requests>>

(* ... and published only if neither the request nor the log has moved.    *)
AnswerPublished(n) ==
  /\ n \in answering /\ answering' = answering \ {n}
  /\ asked' = IF n.id = asked.id /\ n.seen = chain.seq THEN [asked EXCEPT !.proof = TRUE] ELSE asked
  /\ UNCHANGED <<chain, rows, grants, seats, checking, requests>>

ChainNext ==
  \/ \E r \in Operations : MutationChecked(r)
  \/ \E m \in checking : MutationWritten(m)
  \/ \E d \in Devices : EndpointAnnounced(d) \/ ChallengeAsked(d)
  \/ \E p \in Projects, a \in Accounts : ProjectOwnedByTask(p, a)
  \/ \E a \in Accounts : SeatTaken(a)
  \/ ChallengeExpires \/ AnswerChecked
  \/ \E n \in answering : AnswerPublished(n)

ChainSpec == ChainInit /\ [][ChainNext]_chainVars

-----------------------------------------------------------------------------
(* Every variable has its shape.                                           *)
ChainTypeOK ==
  /\ chain \in [seq : 0..MaxSeq, owner : Devices \cup {Nobody},
                endpoint : [Devices -> {"absent", "pending", "verified", "revoked"}],
                grant : [Projects \X Accounts -> Live \cup {"none", "revoked", "reset"}],
                deleted : SUBSET Projects, kit : SUBSET Kits, generation : 0..MaxSeq,
                kits : SUBSET Kits, epochs : SUBSET Epochs]
  /\ rows \in [Devices -> {"none", "pending", "verified", "revoked"}]
  /\ grants \in [Projects \X Accounts -> Live \cup {"none", "revoked"}]
  /\ seats \subseteq Accounts
  /\ checking \subseteq [op : Operations, seen : 0..MaxSeq]
  /\ asked \in [id : 0..MaxRequests, signer : Devices \cup {Nobody}, proof : BOOLEAN]
  /\ answering \subseteq [id : 1..MaxRequests, seen : 0..MaxSeq]
  /\ requests \in 0..MaxRequests

(* The hub's own tables agree with the signed log whatever overlapped: the *)
(* endpoints it calls verified or revoked are the log's, and a grant the   *)
(* log knows is served with the role the log gives it.                     *)
HubFollowsChain ==
  /\ \A d \in Devices, s \in {"verified", "revoked"} : rows[d] = s <=> chain.endpoint[d] = s
  /\ \A pa \in Projects \X Accounts : chain.grant[pa] \in Live => grants[pa] = chain.grant[pa]

(* A statement about the log's head is published only while its signer is  *)
(* a verified endpoint of the owner: a removal that lands during the check *)
(* of the signature wins.                                                  *)
ProofsAreCurrent == [][asked'.proof /\ ~asked.proof => OwnerEndpoint(asked.signer)]_chainVars

=============================================================================
